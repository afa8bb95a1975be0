------------------------------ MODULE GatewayProofs ----------------------------
(***************************************************************************)
(* Theorems about Gateway, for any number of connections, threads and      *)
(* request ids, and any capacity of the queue of observations.             *)
(***************************************************************************)
EXTENDS Gateway, SequenceTheorems, TLAPS

(* What an inspection makes of a frame: nothing, or something to queue. *)
LEMMA ObservedType ==
    ASSUME NEW c \in Conns, NEW f \in Frames, pending[c] \subseteq ThreadRequests
    PROVE  /\ Observed(c, f) \in Frames
           /\ Observed(c, f).kind # "other" => Observed(c, f) \in Observations
<1>1. CASE f.kind \notin {"response", "request"}
  <2>1. Observed(c, f) = f
    BY <1>1 DEF Observed
  <2> QED
    BY <1>1, <2>1 DEF Observations
<1>2. CASE f.kind \in {"response", "request"}
  <2> DEFINE named == {Named(f, r) : r \in Answers(c, f)} \ {NoThread}
             t == CHOOSE t \in named : TRUE
  <2>1. ASSUME NEW r \in Answers(c, f) PROVE Named(f, r) \in Threads \cup {NoThread}
    <3>1. r.thread \in Threads \cup {NoThread}
      BY DEF Answers, ThreadRequests
    <3>2. f.kind = "response" => f.thread \in Threads \cup {NoThread}
      BY DEF Frames
    <3> QED
      BY <1>2, <3>1, <3>2 DEF Named
  <2>2. named # {} => t \in Threads
    BY <2>1
  <2>3. \/ named # {} /\ Observed(c, f) = [kind |-> "thread", thread |-> t]
        \/ Observed(c, f) = Frame("other")
    BY <1>2 DEF Observed
  <2> HIDE DEF named, t
  <2>4. ASSUME named # {} PROVE [kind |-> "thread", thread |-> t] \in Observations
    BY <2>2, <2>4 DEF Observations, Frames
  <2>5. Frame("other") \in Frames /\ Frame("other").kind = "other"
    BY DEF Frame, Frames
  <2> QED
    BY <2>3, <2>4, <2>5 DEF Observations
<1> QED
  BY <1>1, <1>2

(* The entry keeps its type, whatever a callback does to it. *)
LEMMA EntryTypes ==
    ASSUME NEW e \in Entries
    PROVE  /\ GatewaySet(e, TRUE) \in Entries /\ GatewaySet(e, FALSE) \in Entries
           /\ TurnNoted(e) \in Entries /\ TurnDone(e) \in Entries
           /\ \A s : StatusNoted(e, s) \in Entries
<1> DEFINE f == EnsureRuntime(e)
<1>1. f \in Entries /\ f.turns \in Nat
  BY DEF EnsureRuntime, Entries
<1> HIDE DEF f
<1>2. ASSUME NEW n \in Nat PROVE [f EXCEPT !.turns = n] \in Entries
  BY <1>1 DEF Entries
<1>3. GatewaySet(e, TRUE) \in Entries
  <2>1. GatewaySet(e, TRUE) = [f EXCEPT !.gateway = TRUE]
    BY DEF GatewaySet, f
  <2> QED
    BY <1>1, <2>1 DEF Entries
<1>4. GatewaySet(e, FALSE) \in Entries
  BY DEF GatewaySet, NoEntry, Entries
<1>5. TurnNoted(e) \in Entries
  <2>1. TurnNoted(e) = [f EXCEPT !.turns = f.turns + 1]
    BY DEF TurnNoted, f
  <2> QED
    BY <1>1, <1>2, <2>1
<1>6. TurnDone(e) \in Entries
  <2>1. TurnDone(e) = [f EXCEPT !.turns = IF f.turns > 0 THEN f.turns - 1 ELSE f.turns]
    BY DEF TurnDone, f
  <2> QED
    BY <1>1, <1>2, <2>1
<1>7. ASSUME NEW s PROVE StatusNoted(e, s) \in Entries
  <2>1. StatusNoted(e, s) =
          [f EXCEPT !.turns = IF s = "active" /\ f.turns = 0 THEN 1 ELSE f.turns]
    BY DEF StatusNoted, f
  <2> QED
    BY <1>1, <1>2, <2>1
<1> QED
  BY <1>3, <1>4, <1>5, <1>6, <1>7

(* A disconnect leaves nothing counted. *)
LEMMA DisconnectClears ==
    ASSUME NEW e \in Entries
    PROVE  ~GatewaySet(e, FALSE).gateway /\ GatewaySet(e, FALSE).turns = 0
BY DEF Entries, GatewaySet, NoEntry

(* What an observation does to the entry has the entry's type. *)
LEMMA CountedType ==
    ASSUME NEW e \in Entries, NEW o \in Observations
    PROVE  Counted(e, o) \in Entries
<1>1. o.kind \in {"started", "completed", "status", "thread"}
  BY DEF Observations, Frames
<1> QED
  BY <1>1, EntryTypes DEF Counted
--------------------------------------------------------------------------------
(* Types *)

(* TypeOK in parts: connections and proxies, requests, observations, manager. *)
ProxyTypes ==
    /\ conn \in [Conns -> ConnStates]
    /\ up \in [Conns -> [at : {"read", "inspect", "end"}, sent : SUBSET ThreadRequests]]
    /\ down \in [Conns -> [at : {"read", "inspect", "write", "again", "end"}, frame : Frames]]
    /\ disp \in [Conns -> {"wait", "call", "done"}]

RequestTypes ==
    /\ pending \in [Conns -> SUBSET ThreadRequests]
    /\ fresh \in [Conns -> SUBSET Requests]
    /\ asked \in [Conns -> SUBSET ThreadRequests]
    /\ running \in [Conns -> Nat]
    /\ opened \in [Conns -> Threads \cup {NoThread}]
    /\ crossed \in [Conns -> BOOLEAN]

QueueTypes ==
    /\ queue \in [Conns -> Seq(Observations)]
    /\ \A c \in Conns : Len(queue[c]) <= QueueSize

ManagerTypes == entry \in Entries /\ thread \in Threads \cup {NoThread}

LEMMA TypeParts == TypeOK <=> ProxyTypes /\ RequestTypes /\ QueueTypes /\ ManagerTypes
BY DEF TypeOK, ProxyTypes, RequestTypes, QueueTypes, ManagerTypes

LEMMA TypeInit == Init => TypeOK
<1> SUFFICES ASSUME Init PROVE TypeOK
  OBVIOUS
<1>1. ProxyTypes
  BY DEF Init, ProxyTypes, ConnStates, UpAt, Ended, Frame, Frames
<1>2. RequestTypes
  BY DEF Init, RequestTypes
<1>3. QueueTypes
  BY QueueAssumption DEF Init, QueueTypes
<1>4. ManagerTypes
  BY DEF Init, ManagerTypes, HostRegistered, EnsureRuntime, NoEntry, Entries
<1> QED
  BY <1>1, <1>2, <1>3, <1>4, TypeParts

LEMMA ProxyTypesStep ==
    ASSUME TypeOK, NEW c \in Conns, Step(c)
    PROVE  ProxyTypes'
<1> USE TypeParts DEF ProxyTypes, ConnStates, UpAt, Ended
<1>1. ASSUME NEW r \in ThreadRequests, ClientRequest(c, r) PROVE ProxyTypes'
  BY <1>1 DEF ClientRequest
<1>2. ASSUME NEW f \in Frames, ReadFrame(c, f) PROVE ProxyTypes'
  BY <1>2 DEF ReadFrame
<1>3. CASE Connect(c) \/ Cancel(c) \/ Disconnect(c) \/ Close(c)
  BY <1>3 DEF Connect, Cancel, Disconnect, Close
<1>4. CASE Open(c)
  <2>1. Frame("other") \in Frames
    BY DEF Frame, Frames
  <2> QED
    BY <1>4, <2>1 DEF Open
<1>5. CASE InspectRequestAgain(c) \/ UpEnds(c)
  BY <1>5 DEF InspectRequestAgain, UpEnds
<1>6. CASE InspectFrame(c)
  BY <1>6 DEF InspectFrame, NextAt
<1>7. CASE WriteFrame(c) \/ DownEnds(c)
  BY <1>7 DEF WriteFrame, DownEnds
<1>8. CASE Dispatch(c) \/ CallbackReturns(c) \/ DispatcherStops(c)
  BY <1>8 DEF Dispatch, CallbackReturns, DispatcherStops
<1> QED
  BY <1>1, <1>2, <1>3, <1>4, <1>5, <1>6, <1>7, <1>8 DEF Step

LEMMA RequestTypesStep ==
    ASSUME TypeOK, NEW c \in Conns, Step(c)
    PROVE  RequestTypes'
<1> USE TypeParts DEF RequestTypes
<1>1. ASSUME NEW r \in ThreadRequests, ClientRequest(c, r) PROVE RequestTypes'
  BY <1>1 DEF ClientRequest
<1>2. ASSUME NEW f \in Frames, ReadFrame(c, f) PROVE RequestTypes'
  <2>1. /\ pending' = pending /\ fresh' = fresh
        /\ asked' = asked \/ asked' = [asked EXCEPT ![c] = asked'[c]]
    BY <1>2 DEF ReadFrame, Emits
  <2>2. asked' \in [Conns -> SUBSET ThreadRequests]
    BY <1>2 DEF ReadFrame, Emits
  <2>3. running' \in [Conns -> Nat]
    BY <1>2 DEF ReadFrame, Emits
  <2>4. ASSUME NEW t \in Threads, Opens(c, t)
        PROVE  opened' \in [Conns -> Threads \cup {NoThread}]
    BY <2>4 DEF Opens
  <2>5. opened' \in [Conns -> Threads \cup {NoThread}]
    <3>1. f.kind = "thread" => f.thread \in Threads
      BY DEF Frames
    <3>2. f.kind = "response" => f.thread \in Threads \cup {NoThread}
      BY DEF Frames
    <3>3. \/ opened' = opened
          \/ f.kind = "thread" /\ Opens(c, f.thread)
          \/ f.kind = "response" /\ f.thread # NoThread /\ Opens(c, f.thread)
      BY <1>2 DEF ReadFrame, Emits
    <3> QED
      BY <2>4, <3>1, <3>2, <3>3
  <2>6. crossed' = crossed
    BY <1>2 DEF ReadFrame
  <2> QED
    BY <2>1, <2>2, <2>3, <2>5, <2>6
<1>3. CASE Connect(c)
  BY <1>3 DEF Connect
<1>4. CASE Open(c) \/ Cancel(c) \/ Disconnect(c) \/ Close(c)
  BY <1>4 DEF Open, Cancel, Disconnect, Close, proxied
<1>5. CASE InspectRequestAgain(c)
  <2>1. up[c].sent \in SUBSET ThreadRequests
    BY DEF ProxyTypes
  <2> QED
    BY <1>5, <2>1 DEF InspectRequestAgain
<1>6. CASE InspectFrame(c)
  <2>1. /\ UNCHANGED <<fresh, asked, running, opened>>
        /\ pending' \in [Conns -> SUBSET ThreadRequests]
    BY <1>6 DEF InspectFrame
  <2>2. crossed' \in [Conns -> BOOLEAN]
    BY <1>6 DEF InspectFrame
  <2> QED
    BY <2>1, <2>2
<1>7. CASE UpEnds(c) \/ WriteFrame(c) \/ DownEnds(c)
  BY <1>7 DEF UpEnds, WriteFrame, DownEnds, proxied
<1>8. CASE Dispatch(c) \/ CallbackReturns(c) \/ DispatcherStops(c)
  BY <1>8 DEF Dispatch, CallbackReturns, DispatcherStops, proxied
<1> QED
  BY <1>1, <1>2, <1>3, <1>4, <1>5, <1>6, <1>7, <1>8 DEF Step

(* The queue is full at its capacity, and an inspection then waits. *)
LEMMA QueueTypesStep ==
    ASSUME TypeOK, NEW c \in Conns, Step(c)
    PROVE  QueueTypes'
<1> USE TypeParts DEF QueueTypes
<1>1. CASE queue' = queue
  BY <1>1
<1>2. ASSUME NEW q \in Seq(Observations), Len(q) <= QueueSize,
             queue' = [queue EXCEPT ![c] = q]
      PROVE  QueueTypes'
  BY <1>2
<1>3. CASE Connect(c)
  BY <1>2, <1>3, QueueAssumption DEF Connect
<1>4. CASE InspectFrame(c)
  <2> DEFINE o == Observed(c, down[c].frame)
             q == Append(queue[c], o)
  <2>1. down[c].frame \in Frames /\ pending[c] \subseteq ThreadRequests
    BY DEF ProxyTypes, RequestTypes
  <2>2. o.kind # "other" => o \in Observations
    BY <2>1, ObservedType
  <2> HIDE DEF o
  <2>3. \/ queue' = queue
        \/ o.kind # "other" /\ Len(queue[c]) < QueueSize /\ queue' = [queue EXCEPT ![c] = q]
    BY <1>4 DEF InspectFrame, o
  <2>4. o.kind # "other" => q \in Seq(Observations) /\ Len(q) = Len(queue[c]) + 1
    BY <2>2, AppendProperties
  <2>5. Len(queue[c]) \in Nat
    BY LenProperties
  <2> HIDE DEF q
  <2> QED
    BY <1>1, <1>2, <2>3, <2>4, <2>5, QueueAssumption
<1>5. CASE Dispatch(c)
  <2>1. queue[c] # <<>> /\ queue' = [queue EXCEPT ![c] = Tail(queue[c])]
    BY <1>5 DEF Dispatch
  <2>2. Tail(queue[c]) \in Seq(Observations) /\ Len(Tail(queue[c])) = Len(queue[c]) - 1
    BY <2>1, HeadTailProperties
  <2>3. Len(queue[c]) \in Nat
    BY LenProperties
  <2> QED
    BY <1>2, <2>1, <2>2, <2>3, QueueAssumption
<1>6. ASSUME NEW r \in ThreadRequests, ClientRequest(c, r) PROVE queue' = queue
  BY <1>6 DEF ClientRequest
<1>7. ASSUME NEW f \in Frames, ReadFrame(c, f) PROVE queue' = queue
  BY <1>7 DEF ReadFrame
<1>8. CASE \/ Open(c) \/ Cancel(c) \/ Disconnect(c) \/ Close(c) \/ InspectRequestAgain(c)
           \/ UpEnds(c) \/ WriteFrame(c) \/ DownEnds(c)
           \/ CallbackReturns(c) \/ DispatcherStops(c)
  BY <1>1, <1>8 DEF Open, Cancel, Disconnect, Close, InspectRequestAgain, UpEnds, WriteFrame,
                    DownEnds, CallbackReturns, DispatcherStops, proxied
<1> QED
  BY <1>1, <1>3, <1>4, <1>5, <1>6, <1>7, <1>8 DEF Step

LEMMA ManagerTypesStep ==
    ASSUME TypeOK, NEW c \in Conns, Step(c)
    PROVE  ManagerTypes'
<1> USE TypeParts DEF ManagerTypes
<1>1. CASE entry' = entry /\ thread' = thread
  BY <1>1
<1>2. CASE Connect(c) \/ Disconnect(c)
  BY <1>2, EntryTypes DEF Connect, Disconnect
<1>3. CASE Dispatch(c)
  <2> DEFINE o == Head(queue[c])
  <2>1. o \in Observations
    BY <1>3, HeadTailProperties DEF Dispatch, QueueTypes
  <2>2. o.kind = "thread" => o.thread \in Threads
    BY <2>1 DEF Observations, Frames
  <2>3. /\ entry' = Counted(entry, o)
        /\ thread' = IF o.kind = "thread" THEN o.thread ELSE thread
    BY <1>3 DEF Dispatch
  <2> QED
    BY <2>1, <2>2, <2>3, CountedType
<1>4. ASSUME NEW r \in ThreadRequests, ClientRequest(c, r) PROVE ManagerTypes'
  BY <1>1, <1>4 DEF ClientRequest
<1>5. ASSUME NEW f \in Frames, ReadFrame(c, f) PROVE ManagerTypes'
  BY <1>1, <1>5 DEF ReadFrame
<1>6. CASE \/ Open(c) \/ Cancel(c) \/ Close(c) \/ InspectRequestAgain(c) \/ InspectFrame(c)
           \/ UpEnds(c) \/ WriteFrame(c) \/ DownEnds(c)
           \/ CallbackReturns(c) \/ DispatcherStops(c)
  BY <1>1, <1>6 DEF Open, Cancel, Close, InspectRequestAgain, InspectFrame, UpEnds, WriteFrame,
                    DownEnds, CallbackReturns, DispatcherStops
<1> QED
  BY <1>2, <1>3, <1>4, <1>5, <1>6 DEF Step

(* The state of every connection, its proxies, its queue and the entry keep
   their types. *)
THEOREM TypeCorrect == Spec => []TypeOK
<1>1. TypeOK /\ [Next]_vars => TypeOK'
  <2> SUFFICES ASSUME TypeOK, [Next]_vars PROVE TypeOK'
    OBVIOUS
  <2>1. CASE Next
    <3>1. PICK c \in Conns : Step(c)
      BY <2>1 DEF Next
    <3>2. ProxyTypes' /\ RequestTypes' /\ QueueTypes' /\ ManagerTypes'
      BY <3>1, ProxyTypesStep, RequestTypesStep, QueueTypesStep, ManagerTypesStep
    <3> QED
      BY <3>2 DEF TypeOK, ProxyTypes, RequestTypes, QueueTypes, ManagerTypes
  <2>2. CASE UNCHANGED vars
    BY <2>2 DEF vars, TypeOK
  <2> QED
    BY <2>1, <2>2
<1> QED
  BY TypeInit, <1>1, PTL DEF Spec
--------------------------------------------------------------------------------
(* Teardown *)

(* A connection whose goroutines have not started, or that tells the manager
   of its end, has no dispatcher. *)
Undispatched == \A c \in Conns : conn[c] \in {"none", "joining", "leaving"} => disp[c] = "done"

TeardownInv == Undispatched /\ NoTurnsAfterTeardown

LEMMA TeardownInit == Init => TeardownInv
<1>1. Init => Undispatched
  BY DEF Init, Undispatched
<1>2. Init => entry.turns = 0 /\ ~entry.gateway
  BY DEF Init, HostRegistered, EnsureRuntime, NoEntry
<1> QED
  BY <1>1, <1>2 DEF TeardownInv, NoTurnsAfterTeardown

LEMMA UndispatchedStep ==
    ASSUME TypeOK, Undispatched, NEW c \in Conns, Step(c)
    PROVE  Undispatched'
<1> USE TypeParts DEF Undispatched, ProxyTypes, ConnStates
<1>1. CASE Connect(c) \/ Open(c) \/ Cancel(c) \/ Disconnect(c) \/ Close(c)
  BY <1>1 DEF Connect, Open, Cancel, Disconnect, Close
<1>2. CASE Dispatch(c) \/ CallbackReturns(c) \/ DispatcherStops(c)
  BY <1>2 DEF Dispatch, CallbackReturns, DispatcherStops
<1>3. ASSUME NEW r \in ThreadRequests, ClientRequest(c, r) PROVE Undispatched'
  BY <1>3 DEF ClientRequest
<1>4. ASSUME NEW f \in Frames, ReadFrame(c, f) PROVE Undispatched'
  BY <1>4 DEF ReadFrame
<1>5. CASE InspectRequestAgain(c) \/ InspectFrame(c) \/ UpEnds(c) \/ WriteFrame(c) \/ DownEnds(c)
  BY <1>5 DEF InspectRequestAgain, InspectFrame, UpEnds, WriteFrame, DownEnds
<1> QED
  BY <1>1, <1>2, <1>3, <1>4, <1>5 DEF Step

LEMMA NoTurnsStep ==
    ASSUME TypeOK, Undispatched, NoTurnsAfterTeardown, NEW c \in Conns, Step(c)
    PROVE  NoTurnsAfterTeardown'
<1> USE TypeParts DEF NoTurnsAfterTeardown, ProxyTypes, ConnStates
<1>1. CASE conn' = conn /\ entry' = entry
  BY <1>1
<1>2. CASE Connect(c) \/ Open(c) \/ Cancel(c)
  BY <1>2 DEF Connect, Open, Cancel
<1>3. CASE Disconnect(c)
  BY <1>3, DisconnectClears DEF Disconnect, ManagerTypes
<1>4. CASE Close(c)
  BY <1>4 DEF Close
<1>5. CASE Dispatch(c)
  BY <1>5 DEF Dispatch, Undispatched
<1>6. ASSUME NEW r \in ThreadRequests, ClientRequest(c, r) PROVE NoTurnsAfterTeardown'
  BY <1>1, <1>6 DEF ClientRequest
<1>7. ASSUME NEW f \in Frames, ReadFrame(c, f) PROVE NoTurnsAfterTeardown'
  BY <1>1, <1>7 DEF ReadFrame
<1>8. CASE \/ InspectRequestAgain(c) \/ InspectFrame(c) \/ UpEnds(c) \/ WriteFrame(c)
           \/ DownEnds(c) \/ CallbackReturns(c) \/ DispatcherStops(c)
  BY <1>1, <1>8 DEF InspectRequestAgain, InspectFrame, UpEnds, WriteFrame, DownEnds,
                    CallbackReturns, DispatcherStops
<1> QED
  BY <1>2, <1>3, <1>4, <1>5, <1>6, <1>7, <1>8 DEF Step

LEMMA TeardownStep ==
    ASSUME TypeOK, TeardownInv, [Next]_vars
    PROVE  TeardownInv'
<1>1. CASE Next
  <2>1. PICK c \in Conns : Step(c)
    BY <1>1 DEF Next
  <2> QED
    BY <2>1, UndispatchedStep, NoTurnsStep DEF TeardownInv
<1>2. CASE UNCHANGED vars
  BY <1>2 DEF vars, TeardownInv, Undispatched, NoTurnsAfterTeardown
<1> QED
  BY <1>1, <1>2

(* A session without a connection is not counted busy, although the proxies of
   an old connection may still be at work: its dispatcher has stopped before
   the manager is told of the disconnect, and the next one starts only after
   the manager was told of a new connection. *)
THEOREM TeardownCountsNothing == Spec => []NoTurnsAfterTeardown
<1>1. TypeOK /\ TeardownInv /\ [Next]_vars => TeardownInv'
  BY TeardownStep
<1>2. TeardownInv => NoTurnsAfterTeardown
  BY DEF TeardownInv
<1> QED
  BY TeardownInit, TypeCorrect, <1>1, <1>2, PTL DEF Spec
--------------------------------------------------------------------------------
(* The recorded thread *)

InFlight(c) == down[c].at \in {"inspect", "write", "again"}

(* Requests of the client that have been noted or are about to be. *)
Noted(c) == pending[c] \cup up[c].sent

(* An id names one request, and an unanswered request is noted, unless a
   request of the app-server has taken its place. *)
RequestIds(c) ==
    /\ ~crossed[c] => asked[c] \subseteq pending[c]
    /\ \A r \in asked[c] : r.id \notin fresh[c]
    /\ \A r, s \in asked[c] : r.id = s.id => r = s
    /\ \A r \in Noted(c) : r.id \notin fresh[c]
    /\ \A r, s \in Noted(c) : r.id = s.id => r = s

(* A response on its way is to a used id that nothing else waits for, and its
   first inspection finds the request. *)
AnswerInFlight(c) ==
    InFlight(c) /\ down[c].frame.kind = "response" =>
        /\ down[c].frame.id \notin fresh[c]
        /\ \A r \in asked[c] : r.id # down[c].frame.id
        /\ down[c].at = "inspect" /\ ~crossed[c] =>
             \E r \in pending[c] : r.id = down[c].frame.id

(* Nothing runs before the connection is open. *)
Joining(c) ==
    conn[c] = "joining" => up[c] = Ended /\ down[c].at = "end" /\ opened[c] = NoThread

Alone == \A b, c \in Conns : b = c \/ conn[b] = "none" \/ conn[c] = "none"

OpensThread(f) == f.kind = "thread" \/ (f.kind = "response" /\ f.thread # NoThread)

(* The last thread a queue of observations names. *)
LastIs(q, t) ==
    \E i \in 1..Len(q) :
        /\ q[i].kind = "thread" /\ q[i].thread = t
        /\ \A j \in 1..Len(q) : j > i => q[j].kind # "thread"

NoneIn(q) == \A i \in 1..Len(q) : q[i].kind # "thread"

(* The thread opened last is in the frame at hand, or else the last one
   queued, or else the recorded one. *)
Follows(c) ==
    conn[c] = "open" /\ up[c] # Ended /\ ~crossed[c] =>
        /\ InFlight(c) /\ OpensThread(down[c].frame) => opened[c] = down[c].frame.thread
        /\ \/ opened[c] = NoThread
           \/ down[c].at = "inspect" /\ OpensThread(down[c].frame)
           \/ LastIs(queue[c], opened[c])
           \/ NoneIn(queue[c]) /\ thread = opened[c]

LEMMA LastOfAppend ==
    ASSUME NEW q \in Seq(Observations), NEW o \in Observations
    PROVE  /\ o.kind = "thread" => LastIs(Append(q, o), o.thread)
           /\ o.kind # "thread" =>
                /\ NoneIn(q) => NoneIn(Append(q, o))
                /\ \A t : LastIs(q, t) => LastIs(Append(q, o), t)
<1> DEFINE a == Append(q, o)
           n == Len(q)
<1>1. n \in Nat /\ Len(a) = n + 1 /\ a[n + 1] = o /\ \A i \in 1..n : a[i] = q[i]
  BY AppendProperties, LenProperties
<1> HIDE DEF a, n
<1>2. n + 1 \in 1..Len(a) /\ \A i \in 1..Len(a) : i \in 1..n \/ i = n + 1
  BY <1>1
<1>3. 1..n \subseteq 1..Len(a)
  BY <1>1
<1>4. o.kind = "thread" => LastIs(a, o.thread)
  BY <1>1, <1>2 DEF LastIs
<1>5. ASSUME o.kind # "thread", NoneIn(q) PROVE NoneIn(a)
  BY <1>1, <1>2, <1>5 DEF NoneIn, n
<1>6. ASSUME o.kind # "thread", NEW t, LastIs(q, t) PROVE LastIs(a, t)
  <2>1. PICK i \in 1..n : /\ q[i].kind = "thread" /\ q[i].thread = t
                          /\ \A j \in 1..n : j > i => q[j].kind # "thread"
    BY <1>6 DEF LastIs, n
  <2>2. a[i].kind = "thread" /\ a[i].thread = t
    BY <1>1, <2>1
  <2>3. \A j \in 1..Len(a) : j > i => a[j].kind # "thread"
    BY <1>1, <1>2, <1>6, <2>1
  <2> QED
    BY <1>3, <2>2, <2>3 DEF LastIs
<1> QED
  BY <1>4, <1>5, <1>6 DEF a

LEMMA LastOfTail ==
    ASSUME NEW q \in Seq(Observations), q # <<>>
    PROVE  /\ NoneIn(q) => NoneIn(Tail(q)) /\ Head(q).kind # "thread"
           /\ \A t : LastIs(q, t) =>
                \/ LastIs(Tail(q), t)
                \/ NoneIn(Tail(q)) /\ Head(q).kind = "thread" /\ Head(q).thread = t
<1> DEFINE u == Tail(q)
           n == Len(q)
<1>1. n \in Nat /\ n > 0 /\ Len(u) = n - 1 /\ Head(q) = q[1]
      /\ \A i \in 1..Len(u) : u[i] = q[i + 1]
  BY HeadTailProperties, LenProperties, EmptySeq
<1> HIDE DEF u, n
<1>2. 1 \in 1..n /\ \A i \in 1..Len(u) : i + 1 \in 1..n
  BY <1>1
<1>3. ASSUME NoneIn(q) PROVE NoneIn(u) /\ Head(q).kind # "thread"
  BY <1>1, <1>2, <1>3 DEF NoneIn, n
<1>4. ASSUME NEW t, LastIs(q, t)
      PROVE  \/ LastIs(u, t)
             \/ NoneIn(u) /\ Head(q).kind = "thread" /\ Head(q).thread = t
  <2>1. PICK i \in 1..n : /\ q[i].kind = "thread" /\ q[i].thread = t
                          /\ \A j \in 1..n : j > i => q[j].kind # "thread"
    BY <1>4 DEF LastIs, n
  <2>2. CASE i = 1
    <3>1. \A j \in 1..Len(u) : j + 1 > i /\ u[j].kind # "thread"
      BY <1>1, <1>2, <2>1, <2>2
    <3> QED
      BY <1>1, <2>1, <2>2, <3>1 DEF NoneIn
  <2>3. CASE i # 1
    <3>1. i - 1 \in 1..Len(u) /\ u[i - 1] = q[i]
      BY <1>1, <2>3
    <3>2. \A j \in 1..Len(u) : j > i - 1 => u[j].kind # "thread"
      BY <1>1, <1>2, <2>1
    <3> QED
      BY <2>1, <3>1, <3>2 DEF LastIs
  <2> QED
    BY <2>2, <2>3
<1> QED
  BY <1>3, <1>4 DEF u

(* A step of one connection leaves what the others keep alone. *)
LEMMA Elsewhere ==
    ASSUME TypeOK, NEW c \in Conns, Step(c), NEW d \in Conns, d # c
    PROVE  /\ conn'[d] = conn[d] /\ up'[d] = up[d] /\ down'[d] = down[d]
           /\ pending'[d] = pending[d] /\ fresh'[d] = fresh[d] /\ asked'[d] = asked[d]
           /\ queue'[d] = queue[d] /\ disp'[d] = disp[d] /\ opened'[d] = opened[d]
           /\ crossed'[d] = crossed[d]
<1> USE TypeParts DEF ProxyTypes, RequestTypes, QueueTypes, proxied
<1> DEFINE Kept ==
             /\ conn'[d] = conn[d] /\ up'[d] = up[d] /\ down'[d] = down[d]
             /\ pending'[d] = pending[d] /\ fresh'[d] = fresh[d] /\ asked'[d] = asked[d]
             /\ queue'[d] = queue[d] /\ disp'[d] = disp[d] /\ opened'[d] = opened[d]
             /\ crossed'[d] = crossed[d]
<1>1. ASSUME NEW r \in ThreadRequests, ClientRequest(c, r) PROVE Kept
  BY <1>1 DEF ClientRequest
<1>2. ASSUME NEW f \in Frames, ReadFrame(c, f) PROVE Kept
  BY <1>2 DEF ReadFrame, Emits, Opens
<1>3. CASE Connect(c) \/ Open(c) \/ Cancel(c) \/ Disconnect(c) \/ Close(c)
  BY <1>3 DEF Connect, Open, Cancel, Disconnect, Close
<1>4. CASE InspectRequestAgain(c) \/ UpEnds(c) \/ WriteFrame(c) \/ DownEnds(c)
  BY <1>4 DEF InspectRequestAgain, UpEnds, WriteFrame, DownEnds
<1>5. CASE InspectFrame(c)
  BY <1>5 DEF InspectFrame
<1>6. CASE Dispatch(c) \/ CallbackReturns(c) \/ DispatcherStops(c)
  BY <1>6 DEF Dispatch, CallbackReturns, DispatcherStops
<1> QED
  BY <1>1, <1>2, <1>3, <1>4, <1>5, <1>6 DEF Step

LEMMA RequestIdsStep ==
    ASSUME TypeOK, NEW c \in Conns, Step(c), RequestIds(c), AnswerInFlight(c)
    PROVE  RequestIds(c)'
<1> USE TypeParts DEF ProxyTypes, RequestTypes, RequestIds, Noted
<1>1. CASE UNCHANGED <<asked[c], pending[c], fresh[c], up[c].sent, crossed[c]>>
  BY <1>1
<1>2. CASE Connect(c)
  <2>1. up'[c] = Ended /\ pending'[c] = {} /\ asked'[c] = {}
    BY <1>2 DEF Connect
  <2> QED
    BY <2>1 DEF Ended, UpAt
<1>3. CASE Open(c)
  <2>1. UNCHANGED <<asked, pending, fresh, crossed>> /\ up'[c].sent = {}
    BY <1>3 DEF Open, proxied, UpAt
  <2> QED
    BY <2>1
<1>4. ASSUME NEW r \in ThreadRequests, ClientRequest(c, r) PROVE RequestIds(c)'
  <2>1. /\ r.id \in fresh[c] /\ fresh'[c] = fresh[c] \ {r.id}
        /\ pending'[c] = pending[c] \cup {r} /\ asked'[c] = asked[c] \cup {r}
        /\ up'[c].sent = {r} /\ crossed' = crossed
    BY <1>4 DEF ClientRequest, UpAt
  <2> QED
    BY <2>1
<1>5. CASE InspectRequestAgain(c)
  <2>1. /\ pending'[c] = pending[c] \cup up[c].sent /\ up'[c].sent = {}
        /\ asked'[c] = asked[c] /\ fresh'[c] = fresh[c] /\ crossed' = crossed
    BY <1>5 DEF InspectRequestAgain, UpAt
  <2> QED
    BY <2>1
<1>6. CASE UpEnds(c)
  <2>1. UNCHANGED <<asked, pending, fresh, crossed>> /\ up'[c].sent = {}
    BY <1>6 DEF UpEnds, proxied, Ended, UpAt
  <2> QED
    BY <2>1
<1>7. ASSUME NEW f \in Frames, ReadFrame(c, f) PROVE RequestIds(c)'
  <2>1. UNCHANGED <<pending, fresh, up, crossed>> /\ asked'[c] \subseteq asked[c]
    BY <1>7 DEF ReadFrame, Emits
  <2> QED
    BY <2>1
<1>8. CASE Cancel(c) \/ Disconnect(c) \/ Close(c)
  BY <1>1, <1>8 DEF Cancel, Disconnect, Close, proxied
<1>9. CASE WriteFrame(c) \/ DownEnds(c) \/ Dispatch(c) \/ CallbackReturns(c) \/ DispatcherStops(c)
  BY <1>1, <1>9 DEF WriteFrame, DownEnds, Dispatch, CallbackReturns, DispatcherStops, proxied
<1>10. CASE InspectFrame(c)
  <2> DEFINE f == down[c].frame
  <2>1. /\ UNCHANGED <<up, fresh, asked>> /\ pending'[c] = pending[c] \ Answers(c, f)
        /\ down[c].at \in DOMAIN NextAt
    BY <1>10 DEF InspectFrame
  <2>2. InFlight(c)
    BY <2>1 DEF NextAt, InFlight
  <2>3. ~Crosses(c, f) => asked[c] \cap Answers(c, f) = {}
    BY <2>2 DEF Answers, AnswerInFlight, Crosses
  <2>4. crossed'[c] = (crossed[c] \/ Crosses(c, f))
    BY <1>10 DEF InspectFrame
  <2>5. ~crossed'[c] => asked'[c] \subseteq pending'[c]
    BY <2>1, <2>3, <2>4
  <2> QED
    BY <2>1, <2>5
<1> QED
  BY <1>2, <1>3, <1>4, <1>5, <1>6, <1>7, <1>8, <1>9, <1>10 DEF Step

LEMMA AnswerInFlightStep ==
    ASSUME TypeOK, NEW c \in Conns, Step(c), RequestIds(c), AnswerInFlight(c)
    PROVE  AnswerInFlight(c)'
<1> USE TypeParts DEF ProxyTypes, RequestTypes
<1> DEFINE f == down[c].frame
<1>1. ASSUME UNCHANGED <<down[c], fresh[c], asked[c], crossed[c]>>, pending[c] \subseteq pending'[c]
      PROVE  AnswerInFlight(c)'
  BY <1>1 DEF AnswerInFlight, InFlight
<1>2. CASE down'[c].at \in {"read", "end"}
  BY <1>2 DEF AnswerInFlight, InFlight
<1>3. CASE Connect(c)
  <2>1. down' = down /\ down[c].at = "end"
    BY <1>3 DEF Connect
  <2> QED
    BY <1>2, <2>1
<1>4. CASE Open(c) \/ DownEnds(c)
  BY <1>2, <1>4 DEF Open, DownEnds
<1>5. ASSUME NEW r \in ThreadRequests, ClientRequest(c, r) PROVE AnswerInFlight(c)'
  <2>1. /\ r.id \in fresh[c] /\ fresh'[c] = fresh[c] \ {r.id}
        /\ pending'[c] = pending[c] \cup {r} /\ asked'[c] = asked[c] \cup {r}
        /\ down' = down /\ crossed' = crossed
    BY <1>5 DEF ClientRequest
  <2>2. ASSUME f.id \notin fresh[c], \A s \in asked[c] : s.id # f.id
        PROVE  f.id \notin fresh'[c] /\ \A s \in asked'[c] : s.id # f.id
    BY <2>1, <2>2
  <2>3. pending[c] \subseteq pending'[c]
    BY <2>1
  <2> QED
    BY <2>1, <2>2, <2>3 DEF AnswerInFlight, InFlight
<1>6. CASE InspectRequestAgain(c)
  BY <1>1, <1>6 DEF InspectRequestAgain
<1>7. ASSUME NEW g \in Frames, ReadFrame(c, g) PROVE AnswerInFlight(c)'
  <2>1. /\ UNCHANGED <<pending, fresh, up, crossed>> /\ Emits(c, g)
        /\ down'[c] = [at |-> "inspect", frame |-> g]
    BY <1>7 DEF ReadFrame
  <2>2. SUFFICES ASSUME g.kind = "response"
                 PROVE  /\ g.id \notin fresh'[c]
                        /\ \A s \in asked'[c] : s.id # g.id
                        /\ ~crossed[c] => \E s \in pending'[c] : s.id = g.id
    BY <2>1 DEF AnswerInFlight, InFlight
  <2>3. PICK r \in asked[c] : r.id = g.id /\ asked'[c] = asked[c] \ {r}
    BY <2>1, <2>2 DEF Emits
  <2> QED
    BY <2>1, <2>3 DEF RequestIds
<1>8. CASE InspectFrame(c)
  <2>1. /\ UNCHANGED <<fresh, asked>> /\ down'[c].frame = f
        /\ down[c].at \in DOMAIN NextAt /\ down'[c].at = NextAt[down[c].at]
    BY <1>8 DEF InspectFrame
  <2>2. InFlight(c) /\ down'[c].at \in {"write", "read"}
    BY <2>1 DEF NextAt, InFlight
  <2> QED
    BY <2>1, <2>2 DEF AnswerInFlight
<1>9. CASE WriteFrame(c)
  <2>1. /\ UNCHANGED <<fresh, asked>> /\ down'[c].frame = f
        /\ down[c].at = "write" /\ down'[c].at = "again"
    BY <1>9 DEF WriteFrame, proxied
  <2> QED
    BY <2>1 DEF AnswerInFlight, InFlight
<1>10. CASE Cancel(c) \/ Disconnect(c) \/ Close(c) \/ UpEnds(c)
  BY <1>1, <1>10 DEF Cancel, Disconnect, Close, UpEnds, proxied
<1>11. CASE Dispatch(c) \/ CallbackReturns(c) \/ DispatcherStops(c)
  BY <1>1, <1>11 DEF Dispatch, CallbackReturns, DispatcherStops, proxied
<1> QED
  BY <1>3, <1>4, <1>5, <1>6, <1>7, <1>8, <1>9, <1>10, <1>11 DEF Step

(* Connections that exclude each other exclude each other on. *)
LEMMA AloneStep ==
    ASSUME TypeOK, ~Overlapping, NEW c \in Conns, Step(c), Alone, Joining(c)
    PROVE  Alone' /\ Joining(c)'
<1> USE TypeParts DEF ProxyTypes, RequestTypes, Alone, Joining
<1>1. CASE UNCHANGED <<conn, up, down, opened>>
  BY <1>1
<1>2. CASE Connect(c)
  BY <1>2 DEF Connect
<1>3. CASE Open(c) \/ Cancel(c) \/ Disconnect(c) \/ Close(c)
  <2>1. /\ conn[c] # "none" /\ conn'[c] # "joining"
        /\ conn' = [conn EXCEPT ![c] = conn'[c]]
    BY <1>3 DEF Open, Cancel, Disconnect, Close
  <2>2. \A b \in Conns : b = c \/ conn'[b] = "none"
    BY <2>1
  <2> QED
    BY <2>1, <2>2
<1>4. ASSUME NEW r \in ThreadRequests, ClientRequest(c, r) PROVE Alone' /\ Joining(c)'
  BY <1>4 DEF ClientRequest, Ended, UpAt
<1>5. ASSUME NEW f \in Frames, ReadFrame(c, f) PROVE Alone' /\ Joining(c)'
  BY <1>5 DEF ReadFrame
<1>6. CASE InspectRequestAgain(c) \/ UpEnds(c)
  BY <1>6 DEF InspectRequestAgain, UpEnds, Ended, UpAt, proxied
<1>7. CASE InspectFrame(c)
  BY <1>7 DEF InspectFrame, NextAt
<1>8. CASE WriteFrame(c) \/ DownEnds(c)
  BY <1>8 DEF WriteFrame, DownEnds, proxied
<1>9. CASE Dispatch(c) \/ CallbackReturns(c) \/ DispatcherStops(c)
  BY <1>1, <1>9 DEF Dispatch, CallbackReturns, DispatcherStops, proxied
<1> QED
  BY <1>2, <1>3, <1>4, <1>5, <1>6, <1>7, <1>8, <1>9 DEF Step

(* What a step of the connection itself leaves of Follows. *)
LEMMA FollowsStep ==
    ASSUME TypeOK, NEW c \in Conns, Step(c), Joining(c), AnswerInFlight(c), Follows(c)
    PROVE  Follows(c)'
<1> USE TypeParts DEF ProxyTypes, RequestTypes, QueueTypes
<1> DEFINE f == down[c].frame
           q == queue[c]
<1>1. ASSUME UNCHANGED <<down[c], opened[c], queue[c], thread, crossed[c]>>, up'[c] # Ended => up[c] # Ended,
             conn'[c] = "open" => conn[c] = "open"
      PROVE  Follows(c)'
  BY <1>1 DEF Follows, InFlight
<1>2. CASE conn'[c] # "open" \/ up'[c] = Ended
  BY <1>2 DEF Follows
<1>3. CASE Connect(c) \/ Cancel(c) \/ Disconnect(c) \/ Close(c)
  BY <1>2, <1>3 DEF Connect, Cancel, Disconnect, Close
<1>4. CASE Open(c)
  <2>1. opened'[c] = NoThread /\ down'[c].at = "read"
    BY <1>4 DEF Open, Joining, proxied
  <2> QED
    BY <2>1 DEF Follows, InFlight
<1>5. ASSUME NEW r \in ThreadRequests, ClientRequest(c, r) PROVE Follows(c)'
  BY <1>1, <1>5 DEF ClientRequest, Ended, UpAt
<1>6. CASE InspectRequestAgain(c)
  BY <1>1, <1>6 DEF InspectRequestAgain, Ended, UpAt
<1>7. CASE UpEnds(c)
  BY <1>2, <1>7 DEF UpEnds
<1>8. ASSUME NEW g \in Frames, ReadFrame(c, g), up[c] # Ended PROVE Follows(c)'
  <2>1. /\ Emits(c, g) /\ UNCHANGED <<conn, up, queue, thread, crossed>>
        /\ down[c].at = "read" /\ down'[c] = [at |-> "inspect", frame |-> g]
    BY <1>8 DEF ReadFrame
  <2>2. CASE OpensThread(g)
    <3>1. opened'[c] = g.thread
      BY <1>8, <2>1, <2>2 DEF Emits, Opens, OpensThread
    <3> QED
      BY <2>1, <2>2, <3>1 DEF Follows
  <2>3. CASE ~OpensThread(g)
    <3>1. opened' = opened
      BY <2>1, <2>3 DEF Emits, OpensThread
    <3> QED
      BY <2>1, <2>3, <3>1 DEF Follows
  <2> QED
    BY <2>2, <2>3
<1>9. CASE InspectFrame(c) /\ conn[c] = "open" /\ up[c] # Ended
  <2> DEFINE o == Observed(c, f)
             a == Append(q, o)
  <2>0. crossed'[c] = (crossed[c] \/ Crosses(c, f))
    BY <1>9 DEF InspectFrame
  <2> SUFFICES ASSUME ~crossed[c], ~Crosses(c, f) PROVE Follows(c)'
    BY <2>0 DEF Follows
  <2>1. /\ UNCHANGED <<conn, up, opened, thread>> /\ down'[c].frame = f
        /\ down[c].at \in DOMAIN NextAt /\ down'[c].at = NextAt[down[c].at]
    BY <1>9 DEF InspectFrame
  <2>2. InFlight(c) /\ down[c].at \in {"inspect", "again"} /\ down'[c].at \in {"write", "read"}
    BY <2>1 DEF NextAt, InFlight
  <2>3. \/ o.kind = "other" /\ queue'[c] = q
        \/ o.kind # "other" /\ queue'[c] = a
    BY <1>9 DEF InspectFrame
  <2>4. o.kind # "other" => o \in Observations
    BY ObservedType DEF RequestTypes
  <2>5. OpensThread(f) =>
           \/ o.kind = "thread" /\ o.thread = f.thread
           \/ o.kind = "other" /\ down[c].at # "inspect"
    <3>1. CASE f.kind = "thread"
      BY <3>1 DEF Observed
    <3>2. CASE f.kind = "response" /\ f.thread # NoThread
      <4>1. \A r \in Answers(c, f) : Named(f, r) = f.thread
        BY <3>2 DEF Named
      <4>2. CASE Answers(c, f) = {}
        <5>1. o.kind = "other"
          BY <3>2, <4>2 DEF Observed, Frame
        <5>2. down[c].at # "inspect"
          BY <2>2, <3>2, <4>2 DEF AnswerInFlight, Answers
        <5> QED
          BY <5>1, <5>2
      <4>3. CASE Answers(c, f) # {}
        <5>1. {Named(f, r) : r \in Answers(c, f)} \ {NoThread} = {f.thread}
          BY <3>2, <4>1, <4>3
        <5> QED
          BY <3>2, <5>1 DEF Observed
      <4> QED
        BY <4>2, <4>3
    <3> QED
      BY <3>1, <3>2 DEF OpensThread
  <2>6. ~OpensThread(f) => o.kind # "thread"
    <3>1. CASE f.kind = "request"
      BY <3>1 DEF Crosses, Observed, Frame
    <3>2. CASE f.kind = "response" /\ f.thread = NoThread
      <4>1. {Named(f, r) : r \in Answers(c, f)} \ {NoThread} = {}
        BY <3>2 DEF Named
      <4> QED
        BY <3>2, <4>1 DEF Observed, Frame
    <3>3. CASE f.kind \notin {"response", "request", "thread"}
      BY <3>3 DEF Observed
    <3> QED
      BY <3>1, <3>2, <3>3 DEF OpensThread
  <2> HIDE DEF o, a
  <2>7. OpensThread(f) => opened[c] = f.thread
    BY <1>9, <2>2 DEF Follows
  <2>8. ASSUME o.kind # "other"
        PROVE  /\ o.kind = "thread" => LastIs(a, o.thread)
               /\ o.kind # "thread" /\ NoneIn(q) => NoneIn(a)
               /\ o.kind # "thread" /\ LastIs(q, opened[c]) => LastIs(a, opened[c])
    <3>1. o \in Observations /\ q \in Seq(Observations)
      BY <2>4, <2>8
    <3> QED
      BY <3>1, LastOfAppend DEF a
  <2>9. \/ opened[c] = NoThread
        \/ LastIs(queue'[c], opened[c])
        \/ NoneIn(queue'[c]) /\ thread = opened[c]
    <3> HIDE DEF q
    <3>1. CASE o.kind = "thread"
      BY <2>3, <2>5, <2>6, <2>7, <2>8, <3>1
    <3>2. CASE o.kind # "thread"
      <4>1. \/ opened[c] = NoThread
            \/ LastIs(q, opened[c])
            \/ NoneIn(q) /\ thread = opened[c]
        BY <1>9, <2>5, <3>2 DEF Follows, q
      <4> QED
        BY <2>3, <2>8, <3>2, <4>1
    <3> QED
      BY <3>1, <3>2
  <2> QED
    BY <1>9, <2>1, <2>7, <2>9 DEF Follows, InFlight
<1>10. CASE WriteFrame(c)
  BY <1>10 DEF WriteFrame, proxied, Follows, InFlight
<1>11. CASE DownEnds(c)
  BY <1>11 DEF DownEnds, proxied, Follows, InFlight
<1>12. CASE Dispatch(c)
  <2>1. /\ UNCHANGED <<conn, up, down, opened, crossed>> /\ q # <<>> /\ queue'[c] = Tail(q)
        /\ thread' = IF Head(q).kind = "thread" THEN Head(q).thread ELSE thread
    BY <1>12 DEF Dispatch
  <2>2. SUFFICES ASSUME \/ LastIs(q, opened[c])
                        \/ NoneIn(q) /\ thread = opened[c]
                 PROVE  \/ LastIs(Tail(q), opened[c])
                        \/ NoneIn(Tail(q)) /\ thread' = opened[c]
    BY <2>1 DEF Follows, InFlight
  <2> QED
    BY <2>1, <2>2, LastOfTail
<1>13. CASE CallbackReturns(c) \/ DispatcherStops(c)
  BY <1>1, <1>13 DEF CallbackReturns, DispatcherStops, proxied
<1>14. ASSUME up[c] = Ended \/ conn[c] # "open", UNCHANGED <<up, conn>>
       PROVE  Follows(c)'
  BY <1>14 DEF Follows
<1>15. ASSUME NEW g \in Frames, ReadFrame(c, g) PROVE Follows(c)'
  BY <1>8, <1>14, <1>15 DEF ReadFrame
<1>16. CASE InspectFrame(c)
  BY <1>9, <1>14, <1>16 DEF InspectFrame
<1> QED
  BY <1>3, <1>4, <1>5, <1>6, <1>7, <1>10, <1>11, <1>12, <1>13, <1>15, <1>16 DEF Step

(* Nor does a step of another connection disturb it: only an open connection
   has a dispatcher, and there is one at a time. *)
LEMMA FollowsElsewhere ==
    ASSUME TypeOK, Alone, Undispatched, NEW c \in Conns, Step(c),
           NEW d \in Conns, d # c, Follows(d)
    PROVE  Follows(d)'
<1>1. CASE conn[d] # "open"
  BY <1>1, Elsewhere DEF Follows
<1>2. CASE conn[d] = "open"
  <2>1. disp[c] = "done"
    BY <1>2 DEF Alone, Undispatched
  <2>2. ASSUME NEW r \in ThreadRequests, ClientRequest(c, r) PROVE thread' = thread
    BY <2>2 DEF ClientRequest
  <2>3. ASSUME NEW f \in Frames, ReadFrame(c, f) PROVE thread' = thread
    BY <2>3 DEF ReadFrame
  <2>4. thread' = thread
    BY <2>1, <2>2, <2>3
       DEF Step, Connect, Open, Cancel, Disconnect, Close, InspectRequestAgain, UpEnds,
           InspectFrame, WriteFrame, DownEnds, Dispatch, CallbackReturns, DispatcherStops
  <2> QED
    BY <2>4, Elsewhere DEF Follows, InFlight
<1> QED
  BY <1>1, <1>2

ThreadInv ==
    /\ TypeOK /\ Undispatched /\ Alone
    /\ \A c \in Conns : RequestIds(c) /\ AnswerInFlight(c) /\ Joining(c) /\ Follows(c)

LEMMA ThreadInit == Init => ThreadInv
<1> SUFFICES ASSUME Init PROVE ThreadInv
  OBVIOUS
<1>1. TypeOK /\ Undispatched
  BY TypeInit, TeardownInit DEF TeardownInv
<1>2. Alone
  BY DEF Init, Alone
<1>3. ASSUME NEW c \in Conns
      PROVE  RequestIds(c) /\ AnswerInFlight(c) /\ Joining(c) /\ Follows(c)
  BY DEF Init, RequestIds, Noted, AnswerInFlight, InFlight, Joining, Follows, Ended, UpAt
<1> QED
  BY <1>1, <1>2, <1>3 DEF ThreadInv

LEMMA ThreadStep ==
    ASSUME ~Overlapping, ThreadInv, TypeOK', Undispatched', [Next]_vars
    PROVE  ThreadInv'
<1>1. CASE Next
  <2>1. PICK c \in Conns : Step(c)
    BY <1>1 DEF Next
  <2>2. Alone' /\ Joining(c)'
    BY <2>1, AloneStep DEF ThreadInv
  <2>3. RequestIds(c)' /\ AnswerInFlight(c)' /\ Follows(c)'
    BY <2>1, RequestIdsStep, AnswerInFlightStep, FollowsStep DEF ThreadInv
  <2>4. ASSUME NEW d \in Conns, d # c
        PROVE  RequestIds(d)' /\ AnswerInFlight(d)' /\ Joining(d)' /\ Follows(d)'
    <3>1. RequestIds(d)' /\ AnswerInFlight(d)' /\ Joining(d)'
      BY <2>1, <2>4, Elsewhere DEF ThreadInv, RequestIds, Noted, AnswerInFlight, InFlight, Joining
    <3> QED
      BY <2>1, <2>4, <3>1, FollowsElsewhere DEF ThreadInv
  <2> QED
    BY <2>2, <2>3, <2>4 DEF ThreadInv
<1>2. CASE UNCHANGED vars
  BY <1>2 DEF vars, ThreadInv, Alone, RequestIds, Noted, AnswerInFlight, InFlight, Joining, Follows
<1> QED
  BY <1>1, <1>2

(* As long as a session has one connection at a time, the record of a drained
   connection names the thread the app-server opened last, whatever failed,
   came twice or crossed a second inspection, and whatever the queue's size,
   unless a request of the app-server was taken for an answer. *)
THEOREM RecordedThreadCorrect == ~Overlapping => (Spec => []RecordedThreadIsOpened)
<1> SUFFICES ASSUME ~Overlapping PROVE Spec => []RecordedThreadIsOpened
  OBVIOUS
<1>1. TeardownInv /\ TypeOK /\ [Next]_vars => TeardownInv'
  BY TeardownStep
<1>2. TeardownInv => Undispatched
  BY DEF TeardownInv
<1>3. ThreadInv /\ TypeOK' /\ Undispatched' /\ [Next]_vars => ThreadInv'
  BY ThreadStep
<1>4. ThreadInv => RecordedThreadIsOpened
  <2> SUFFICES ASSUME ThreadInv, NEW c \in Conns, Drained(c), opened[c] # NoThread, ~crossed[c]
               PROVE  thread = opened[c]
    BY DEF RecordedThreadIsOpened
  <2>1. conn[c] = "open" /\ up[c] # Ended /\ down[c].at = "read" /\ Len(queue[c]) = 0
    BY EmptySeq DEF Drained
  <2> QED
    BY <2>1 DEF ThreadInv, Follows, LastIs
<1> QED
  BY TypeCorrect, TeardownInit, ThreadInit, <1>1, <1>2, <1>3, <1>4, PTL DEF Spec
--------------------------------------------------------------------------------
(* The count of turns *)

(* What an observation makes of the count. *)
CountAfter(n, o) ==
    CASE o.kind = "started" -> n + 1
      [] o.kind = "completed" -> IF n > 0 THEN n - 1 ELSE n
      [] o.kind = "status" -> IF o.status = "active" /\ n = 0 THEN 1 ELSE n
      [] o.kind = "thread" -> n

(* From a count of n, the observations of q lead to a count of m. *)
LeadsTo(q, n, m) ==
    \E counts \in [0..Len(q) -> Nat] :
        /\ counts[0] = n /\ counts[Len(q)] = m
        /\ \A i \in 1..Len(q) : counts[i] = CountAfter(counts[i - 1], q[i])

LEMMA CountAfterType ==
    ASSUME NEW n \in Nat, NEW o \in Observations
    PROVE  CountAfter(n, o) \in Nat
<1>1. o.kind \in {"started", "completed", "status", "thread"}
  BY DEF Observations, Frames
<1> QED
  BY <1>1 DEF CountAfter

LEMMA CountedTurns ==
    ASSUME NEW e \in Entries, NEW o \in Observations
    PROVE  /\ Counted(e, o).turns = CountAfter(e.turns, o)
           /\ Counted(e, o).gateway = e.gateway
<1> DEFINE f == EnsureRuntime(e)
<1>1. f \in Entries /\ f.turns = e.turns /\ f.gateway = e.gateway
  BY DEF EnsureRuntime, Entries
<1> HIDE DEF f
<1>2. TurnNoted(e).turns = e.turns + 1 /\ TurnNoted(e).gateway = e.gateway
  BY <1>1 DEF TurnNoted, f, Entries
<1>3. /\ TurnDone(e).turns = IF e.turns > 0 THEN e.turns - 1 ELSE e.turns
      /\ TurnDone(e).gateway = e.gateway
  <2>1. TurnDone(e) = [f EXCEPT !.turns = IF f.turns > 0 THEN f.turns - 1 ELSE f.turns]
    BY DEF TurnDone, f
  <2> QED
    BY <1>1, <2>1 DEF Entries
<1>4. ASSUME NEW s
      PROVE  /\ StatusNoted(e, s).turns = IF s = "active" /\ e.turns = 0 THEN 1 ELSE e.turns
             /\ StatusNoted(e, s).gateway = e.gateway
  <2>1. StatusNoted(e, s) = [f EXCEPT !.turns = IF s = "active" /\ f.turns = 0 THEN 1 ELSE f.turns]
    BY DEF StatusNoted, f
  <2> QED
    BY <1>1, <2>1 DEF Entries
<1>5. o.kind \in {"started", "completed", "status", "thread"}
  BY DEF Observations, Frames
<1> QED
  BY <1>2, <1>3, <1>4, <1>5 DEF Counted, CountAfter

LEMMA NothingLeads ==
    /\ \A n \in Nat : LeadsTo(<<>>, n, n)
    /\ \A n, m : LeadsTo(<<>>, n, m) => m = n
<1>1. Len(<<>>) = 0
  OBVIOUS
<1>2. ASSUME NEW n \in Nat PROVE LeadsTo(<<>>, n, n)
  <2> DEFINE counts == [i \in 0..0 |-> n]
  <2>1. counts \in [0..Len(<<>>) -> Nat] /\ counts[0] = n /\ counts[Len(<<>>)] = n
    BY <1>1
  <2>2. \A i \in 1..Len(<<>>) : FALSE
    BY <1>1
  <2> HIDE DEF counts
  <2> QED
    BY <2>1, <2>2 DEF LeadsTo
<1>3. ASSUME NEW n, NEW m, LeadsTo(<<>>, n, m) PROVE m = n
  BY <1>1, <1>3 DEF LeadsTo
<1> QED
  BY <1>2, <1>3

LEMMA AppendLeads ==
    ASSUME NEW q \in Seq(Observations), NEW o \in Observations,
           NEW n \in Nat, NEW m \in Nat, LeadsTo(q, n, m)
    PROVE  LeadsTo(Append(q, o), n, CountAfter(m, o))
<1> DEFINE a == Append(q, o)
           l == Len(q)
<1>1. l \in Nat /\ Len(a) = l + 1 /\ a[l + 1] = o /\ \A i \in 1..l : a[i] = q[i]
  BY AppendProperties, LenProperties
<1>2. PICK counts \in [0..l -> Nat] :
        /\ counts[0] = n /\ counts[l] = m
        /\ \A i \in 1..l : counts[i] = CountAfter(counts[i - 1], q[i])
  BY DEF LeadsTo
<1> DEFINE x == CountAfter(m, o)
           longer == [i \in 0..(l + 1) |-> IF i <= l THEN counts[i] ELSE x]
<1>3. x \in Nat
  BY CountAfterType
<1> HIDE DEF a, l, x
<1>4. longer \in [0..Len(a) -> Nat]
  BY <1>1, <1>2, <1>3
<1>5. longer[0] = n /\ longer[Len(a)] = x /\ longer[l] = m
  BY <1>1, <1>2
<1>6. ASSUME NEW i \in 1..Len(a) PROVE longer[i] = CountAfter(longer[i - 1], a[i])
  <2>1. CASE i = l + 1
    <3>1. longer[i] = x /\ longer[i - 1] = m /\ a[i] = o
      BY <1>1, <1>5, <2>1
    <3> QED
      BY <3>1 DEF x
  <2>2. CASE i # l + 1
    <3>1. i \in 1..l /\ i - 1 \in 0..l
      BY <1>1, <2>2
    <3>2. longer[i] = counts[i] /\ longer[i - 1] = counts[i - 1] /\ a[i] = q[i]
      BY <1>1, <3>1
    <3> QED
      BY <1>2, <3>1, <3>2
  <2> QED
    BY <2>1, <2>2
<1> HIDE DEF longer
<1> QED
  BY <1>4, <1>5, <1>6 DEF LeadsTo, a, x

LEMMA TailLeads ==
    ASSUME NEW q \in Seq(Observations), q # <<>>,
           NEW n \in Nat, NEW m \in Nat, LeadsTo(q, n, m)
    PROVE  LeadsTo(Tail(q), CountAfter(n, Head(q)), m)
<1> DEFINE u == Tail(q)
           l == Len(q)
<1>1. l \in Nat /\ l > 0 /\ Len(u) = l - 1 /\ Head(q) = q[1]
      /\ \A i \in 1..Len(u) : u[i] = q[i + 1]
  BY HeadTailProperties, LenProperties, EmptySeq
<1>2. PICK counts \in [0..l -> Nat] :
        /\ counts[0] = n /\ counts[l] = m
        /\ \A i \in 1..l : counts[i] = CountAfter(counts[i - 1], q[i])
  BY DEF LeadsTo
<1> DEFINE shorter == [i \in 0..(l - 1) |-> counts[i + 1]]
<1> HIDE DEF u, l
<1>3. shorter \in [0..Len(u) -> Nat]
  BY <1>1, <1>2
<1>4. shorter[0] = counts[1] /\ shorter[Len(u)] = m
  BY <1>1, <1>2
<1>5. counts[1] = CountAfter(n, Head(q))
  <2>1. 1 \in 1..l /\ 1 - 1 = 0
    BY <1>1
  <2> QED
    BY <1>1, <1>2, <2>1
<1>6. ASSUME NEW i \in 1..Len(u) PROVE shorter[i] = CountAfter(shorter[i - 1], u[i])
  <2>1. i + 1 \in 1..l /\ (i + 1) - 1 = i /\ i \in 0..(l - 1) /\ i - 1 \in 0..(l - 1)
    BY <1>1
  <2>2. shorter[i] = counts[i + 1] /\ shorter[i - 1] = counts[i] /\ u[i] = q[i + 1]
    BY <1>1, <2>1
  <2>3. counts[i + 1] = CountAfter(counts[i], q[i + 1])
    BY <1>2, <2>1
  <2> QED
    BY <2>2, <2>3
<1> HIDE DEF shorter
<1> QED
  BY <1>3, <1>4, <1>5, <1>6 DEF LeadsTo, u

(* What the frame at hand will still add to the count, or take from it: each
   frame is inspected twice. *)
StillToCome(c) ==
    LET left == CASE down[c].at = "inspect" -> 2
                  [] down[c].at \in {"write", "again"} -> 1
                  [] OTHER -> 0
    IN  CASE down[c].frame.kind = "started" -> left
          [] down[c].frame.kind = "completed" -> 0 - left
          [] OTHER -> 0

(* Count, queue and frame at hand come to two for each running turn, or to
   more if a status has been taken for a start that was missed. *)
Balanced(c) ==
    \E m \in Nat :
        /\ LeadsTo(queue[c], entry.turns, m)
        /\ m + StillToCome(c) >= 2 * running[c]
        /\ "active" \notin Statuses => m + StillToCome(c) = 2 * running[c]

(* A connection starts from a count of zero and keeps it balanced until it is
   cut off; the entry says that it is there until it leaves. *)
Counts(c) ==
    /\ conn[c] \in {"joining", "open", "cancelled"} => entry.gateway
    /\ conn[c] = "joining" => entry.turns = 0 /\ running[c] = 0 /\ queue[c] = <<>>
    /\ conn[c] = "open" /\ down[c].at # "end" => Balanced(c)

(* One inspection of the frame at hand: what it takes from StillToCome, its
   observation adds to the end of the queue. *)
LEMMA InspectionBalances ==
    ASSUME TypeOK, NEW c \in Conns, InspectFrame(c), conn[c] = "open", Balanced(c)
    PROVE  Balanced(c)'
<1> USE TypeParts DEF ProxyTypes, RequestTypes, QueueTypes, ManagerTypes
<1> DEFINE f == down[c].frame
           o == Observed(c, f)
           q == queue[c]
           n == entry.turns
<1>1. /\ UNCHANGED <<entry, running>> /\ down'[c].frame = f
      /\ down[c].at \in DOMAIN NextAt /\ down'[c].at = NextAt[down[c].at]
  BY DEF InspectFrame
<1>2. \/ down[c].at = "inspect" /\ down'[c].at = "write"
      \/ down[c].at = "again" /\ down'[c].at = "read"
  BY <1>1 DEF NextAt
<1>3. f \in Frames /\ q \in Seq(Observations) /\ n \in Nat /\ running[c] \in Nat
  BY DEF Entries
<1>4. PICK m \in Nat :
        /\ LeadsTo(q, n, m)
        /\ m + StillToCome(c) >= 2 * running[c]
        /\ "active" \notin Statuses => m + StillToCome(c) = 2 * running[c]
  BY DEF Balanced
<1>5. StillToCome(c)' = CASE f.kind = "started" -> StillToCome(c) - 1
                          [] f.kind = "completed" -> StillToCome(c) + 1
                          [] OTHER -> StillToCome(c)
  BY <1>1, <1>2 DEF StillToCome
<1>6. StillToCome(c) \in Int /\ (f.kind = "completed" => StillToCome(c) \in {0 - 2, 0 - 1})
  BY <1>2 DEF StillToCome
<1>7. CASE o.kind = "other"
  <2>1. f.kind \notin {"started", "completed"}
    BY <1>7 DEF Observed
  <2>2. queue'[c] = q /\ StillToCome(c)' = StillToCome(c)
    BY <1>5, <1>7, <2>1 DEF InspectFrame
  <2> QED
    BY <1>1, <1>4, <2>2 DEF Balanced
<1>8. CASE o.kind # "other"
  <2>1. o \in Observations /\ queue'[c] = Append(q, o)
    BY <1>3, <1>8, ObservedType DEF InspectFrame
  <2> DEFINE x == CountAfter(m, o)
  <2>2. x \in Nat /\ LeadsTo(queue'[c], n, x)
    <3> HIDE DEF o, q, n
    <3> QED
      BY <1>3, <1>4, <2>1, CountAfterType, AppendLeads
  <2>3. /\ x + StillToCome(c)' >= 2 * running[c]
        /\ "active" \notin Statuses => x + StillToCome(c)' = 2 * running[c]
    <3>1. CASE f.kind = "started"
      <4>1. x = m + 1 /\ StillToCome(c)' = StillToCome(c) - 1
        BY <1>5, <3>1 DEF Observed, CountAfter
      <4> QED
        BY <1>3, <1>4, <1>6, <4>1
    <3>2. CASE f.kind = "completed"
      <4>1. o = f /\ o.kind = "completed" /\ StillToCome(c)' = StillToCome(c) + 1
        BY <1>5, <3>2 DEF Observed
      <4>2. m > 0
        BY <1>3, <1>4, <1>6, <3>2
      <4>3. x = m - 1
        BY <4>1, <4>2 DEF CountAfter
      <4> QED
        BY <1>3, <1>4, <1>6, <4>1, <4>3
    <3>3. CASE f.kind = "status"
      <4>1. o = f /\ o.kind = "status" /\ StillToCome(c)' = StillToCome(c)
        BY <1>5, <3>3 DEF Observed
      <4>2. o.status \in Statuses
        BY <1>3, <3>3, <4>1 DEF Frames
      <4>3. x = IF o.status = "active" /\ m = 0 THEN 1 ELSE m
        BY <4>1 DEF CountAfter
      <4>4. x >= m /\ ("active" \notin Statuses => x = m)
        BY <4>2, <4>3
      <4>5. x \in Int /\ m \in Int /\ 2 * running[c] \in Int
        BY <1>3, <2>2
      <4> HIDE DEF x
      <4>6. x + StillToCome(c)' >= m + StillToCome(c)
        BY <1>6, <4>1, <4>4, <4>5
      <4>7. m + StillToCome(c) \in Int /\ x + StillToCome(c)' \in Int
        BY <1>6, <4>1, <4>5
      <4>8. x + StillToCome(c)' >= 2 * running[c]
        BY <1>4, <4>5, <4>6, <4>7
      <4>9. "active" \notin Statuses => x + StillToCome(c)' = 2 * running[c]
        BY <1>4, <4>1, <4>4
      <4> QED
        BY <4>8, <4>9
    <3>4. CASE f.kind \notin {"started", "completed", "status"}
      <4>1. o.kind = "thread"
        BY <1>3, <2>1, <3>4 DEF Observed, Observations, Frames, Frame
      <4>2. x = m /\ StillToCome(c)' = StillToCome(c)
        BY <1>5, <3>4, <4>1 DEF CountAfter
      <4> QED
        BY <1>4, <4>2
    <3> QED
      BY <3>1, <3>2, <3>3, <3>4
  <2> HIDE DEF x
  <2> QED
    BY <1>1, <2>2, <2>3 DEF Balanced
<1> QED
  BY <1>7, <1>8

(* A frame that is read brings the turn it starts or ends. *)
LEMMA ReadingBalances ==
    ASSUME TypeOK, NEW c \in Conns, NEW f \in Frames, ReadFrame(c, f), Balanced(c)
    PROVE  Balanced(c)'
<1> USE TypeParts DEF ProxyTypes, RequestTypes, QueueTypes, ManagerTypes
<1>1. /\ UNCHANGED <<entry, queue>> /\ Emits(c, f)
      /\ down[c].at = "read" /\ down'[c] = [at |-> "inspect", frame |-> f]
  BY DEF ReadFrame
<1>2. running[c] \in Nat
  OBVIOUS
<1>3. StillToCome(c) = 0
  BY <1>1 DEF StillToCome
<1>4. StillToCome(c)' = CASE f.kind = "started" -> 2 [] f.kind = "completed" -> 0 - 2 [] OTHER -> 0
  BY <1>1 DEF StillToCome
<1>5. running'[c] = CASE f.kind = "started" -> running[c] + 1
                      [] f.kind = "completed" -> running[c] - 1
                      [] OTHER -> running[c]
  BY <1>1 DEF Emits
<1>6. 2 * running'[c] = 2 * running[c] + StillToCome(c)'
  BY <1>2, <1>4, <1>5
<1>7. PICK m \in Nat :
        /\ LeadsTo(queue[c], entry.turns, m)
        /\ m >= 2 * running[c]
        /\ "active" \notin Statuses => m = 2 * running[c]
  BY <1>3 DEF Balanced
<1>8. StillToCome(c)' \in Int /\ 2 * running[c] \in Int /\ 2 * running'[c] \in Int
  BY <1>2, <1>4, <1>6
<1>9. /\ m + StillToCome(c)' >= 2 * running'[c]
      /\ "active" \notin Statuses => m + StillToCome(c)' = 2 * running'[c]
  BY <1>6, <1>7, <1>8
<1> QED
  BY <1>1, <1>7, <1>9 DEF Balanced

(* The dispatcher moves an observation from the queue to the count. *)
LEMMA DispatchBalances ==
    ASSUME TypeOK, NEW c \in Conns, Dispatch(c), Balanced(c)
    PROVE  Balanced(c)'
<1> USE TypeParts DEF ProxyTypes, RequestTypes, QueueTypes, ManagerTypes
<1> DEFINE q == queue[c]
           o == Head(q)
<1>1. /\ UNCHANGED <<down, running>> /\ q # <<>> /\ queue'[c] = Tail(q)
      /\ entry' = Counted(entry, o)
  BY DEF Dispatch
<1>2. o \in Observations /\ q \in Seq(Observations) /\ entry.turns \in Nat
  BY <1>1, HeadTailProperties DEF Entries
<1>3. PICK m \in Nat :
        /\ LeadsTo(q, entry.turns, m)
        /\ m + StillToCome(c) >= 2 * running[c]
        /\ "active" \notin Statuses => m + StillToCome(c) = 2 * running[c]
  BY DEF Balanced
<1>4. LeadsTo(queue'[c], entry'.turns, m)
  BY <1>1, <1>2, <1>3, TailLeads, CountedTurns
<1>5. StillToCome(c)' = StillToCome(c)
  BY <1>1 DEF StillToCome
<1> QED
  BY <1>1, <1>3, <1>4, <1>5 DEF Balanced

(* A step of the connection itself.  It joins when no other is there, so the
   teardown of the last one has left a count of zero. *)
LEMMA CountsStep ==
    ASSUME TypeOK, ~Overlapping, TeardownInv, NEW c \in Conns, Step(c), Joining(c), Counts(c)
    PROVE  Counts(c)'
<1> USE TypeParts DEF ProxyTypes, RequestTypes, QueueTypes, ManagerTypes
<1>1. ASSUME UNCHANGED <<entry, running[c], queue[c], down[c]>>,
             conn'[c] = conn[c] \/ (conn[c] = "open" /\ conn'[c] = "cancelled")
      PROVE  Counts(c)'
  BY <1>1 DEF Counts, Balanced, StillToCome
<1>2. CASE conn'[c] \in {"none", "leaving"}
  BY <1>2 DEF Counts
<1>3. CASE Connect(c)
  <2>1. \A b \in Conns : conn[b] = "none"
    BY <1>3 DEF Connect
  <2>2. entry.turns = 0
    BY <2>1 DEF TeardownInv, NoTurnsAfterTeardown
  <2> DEFINE e == EnsureRuntime(entry)
  <2>3. e \in Entries /\ e.turns = 0
    BY <2>2 DEF EnsureRuntime, Entries
  <2>4. entry' = [e EXCEPT !.gateway = TRUE]
    BY <1>3 DEF Connect, GatewaySet
  <2> HIDE DEF e
  <2>5. entry'.gateway /\ entry'.turns = 0
    BY <2>3, <2>4 DEF Entries
  <2>6. conn'[c] = "joining" /\ running'[c] = 0 /\ queue'[c] = <<>>
    BY <1>3 DEF Connect
  <2> QED
    BY <2>5, <2>6 DEF Counts
<1>4. CASE Open(c)
  <2>1. /\ conn[c] = "joining" /\ conn'[c] = "open" /\ UNCHANGED <<entry, running, queue>>
        /\ down'[c] = [at |-> "read", frame |-> Frame("other")]
    BY <1>4 DEF Open, proxied
  <2>2. entry.gateway /\ entry.turns = 0 /\ running[c] = 0 /\ queue[c] = <<>>
    BY <2>1 DEF Counts
  <2>3. LeadsTo(queue'[c], entry'.turns, 0) /\ StillToCome(c)' = 0
    BY <2>1, <2>2, NothingLeads DEF StillToCome, Frame
  <2>4. Balanced(c)'
    BY <2>1, <2>2, <2>3 DEF Balanced
  <2> QED
    BY <2>1, <2>2, <2>4 DEF Counts
<1>5. CASE Cancel(c)
  BY <1>1, <1>5 DEF Cancel, proxied
<1>6. CASE Disconnect(c) \/ Close(c)
  BY <1>2, <1>6 DEF Disconnect, Close
<1>7. ASSUME NEW r \in ThreadRequests, ClientRequest(c, r) PROVE Counts(c)'
  BY <1>1, <1>7 DEF ClientRequest
<1>8. CASE InspectRequestAgain(c) \/ UpEnds(c) \/ CallbackReturns(c) \/ DispatcherStops(c)
  BY <1>1, <1>8 DEF InspectRequestAgain, UpEnds, CallbackReturns, DispatcherStops, proxied
<1>9. ASSUME conn[c] = "open" /\ down[c].at # "end" => Balanced(c)',
             UNCHANGED <<conn, entry>>, down[c].at # "end"
      PROVE  Counts(c)'
  BY <1>9 DEF Counts, Joining
<1>10. ASSUME NEW f \in Frames, ReadFrame(c, f) PROVE Counts(c)'
  <2>1. UNCHANGED <<conn, entry>> /\ down[c].at # "end"
    BY <1>10 DEF ReadFrame
  <2> QED
    BY <1>9, <1>10, <2>1, ReadingBalances DEF Counts
<1>11. CASE InspectFrame(c)
  <2>1. UNCHANGED <<conn, entry>> /\ down[c].at # "end"
    BY <1>11 DEF InspectFrame, NextAt
  <2> QED
    BY <1>9, <1>11, <2>1, InspectionBalances DEF Counts
<1>12. CASE WriteFrame(c)
  <2>1. /\ UNCHANGED <<conn, entry, running, queue>> /\ down[c].at = "write"
        /\ down'[c].at = "again" /\ down'[c].frame = down[c].frame
    BY <1>12 DEF WriteFrame, proxied
  <2>2. StillToCome(c)' = StillToCome(c)
    BY <2>1 DEF StillToCome
  <2> QED
    BY <1>9, <2>1, <2>2 DEF Counts, Balanced
<1>13. CASE DownEnds(c)
  <2>1. UNCHANGED <<conn, entry, running, queue>> /\ down'[c].at = "end"
    BY <1>13 DEF DownEnds, proxied
  <2> QED
    BY <2>1 DEF Counts
<1>14. CASE Dispatch(c)
  <2>1. UNCHANGED <<conn, down>> /\ conn[c] \in {"open", "cancelled"}
    BY <1>14 DEF Dispatch, TeardownInv, Undispatched, ConnStates
  <2>2. entry' = Counted(entry, Head(queue[c])) /\ Head(queue[c]) \in Observations
    BY <1>14, HeadTailProperties DEF Dispatch
  <2>3. entry.gateway /\ entry'.gateway
    BY <2>1, <2>2, CountedTurns DEF Counts
  <2> QED
    BY <1>14, <2>1, <2>3, DispatchBalances DEF Counts
<1> QED
  BY <1>3, <1>4, <1>5, <1>6, <1>7, <1>8, <1>10, <1>11, <1>12, <1>13, <1>14 DEF Step

(* No other connection touches the count while this one is there. *)
LEMMA CountsElsewhere ==
    ASSUME TypeOK, ~Overlapping, Alone, Undispatched, NEW c \in Conns, Step(c),
           NEW d \in Conns, d # c, Counts(d)
    PROVE  Counts(d)'
<1> USE TypeParts DEF ProxyTypes, RequestTypes
<1>1. conn'[d] = conn[d] /\ down'[d] = down[d] /\ queue'[d] = queue[d]
  BY Elsewhere
<1>2. CASE conn[d] \notin {"joining", "open", "cancelled"}
  BY <1>1, <1>2 DEF Counts
<1>3. CASE conn[d] \in {"joining", "open", "cancelled"}
  <2>1. conn[c] = "none" /\ disp[c] = "done"
    BY <1>3 DEF Alone, Undispatched
  <2>2. ASSUME NEW r \in ThreadRequests, ClientRequest(c, r) PROVE FALSE
    BY <2>1, <2>2 DEF ClientRequest
  <2>3. ASSUME NEW f \in Frames, ReadFrame(c, f) PROVE FALSE
    BY <2>1, <2>3 DEF ReadFrame
  <2>4. ~Connect(c)
    BY <1>3 DEF Connect
  <2>5. UNCHANGED <<entry, running>>
    BY <2>1, <2>2, <2>3, <2>4
       DEF Step, Open, Cancel, Disconnect, Close, InspectRequestAgain, UpEnds,
           InspectFrame, WriteFrame, DownEnds, Dispatch, CallbackReturns, DispatcherStops, proxied
  <2> QED
    BY <1>1, <2>5 DEF Counts, Balanced, StillToCome
<1> QED
  BY <1>2, <1>3

CountInv == \A c \in Conns : Counts(c)

LEMMA CountInit == Init => CountInv
BY DEF Init, CountInv, Counts

LEMMA CountStep ==
    ASSUME ~Overlapping, TypeOK, TeardownInv, ThreadInv, CountInv, [Next]_vars
    PROVE  CountInv'
<1>1. CASE Next
  <2>1. PICK c \in Conns : Step(c)
    BY <1>1 DEF Next
  <2>2. Counts(c)'
    BY <2>1, CountsStep DEF ThreadInv, CountInv
  <2>3. ASSUME NEW d \in Conns, d # c PROVE Counts(d)'
    BY <2>1, <2>3, CountsElsewhere DEF ThreadInv, CountInv
  <2> QED
    BY <2>2, <2>3 DEF CountInv
<1>2. CASE UNCHANGED vars
  BY <1>2 DEF vars, CountInv, Counts, Balanced, StillToCome
<1> QED
  BY <1>1, <1>2

(* A drained connection has nothing left to come. *)
LEMMA DrainedCount ==
    ASSUME TypeOK, CountInv, NEW c \in Conns, Drained(c)
    PROVE  /\ entry.gateway
           /\ entry.turns >= 2 * running[c]
           /\ "active" \notin Statuses => entry.turns = 2 * running[c]
<1>1. conn[c] = "open" /\ down[c].at = "read" /\ queue[c] = <<>>
  BY DEF Drained
<1>2. entry.gateway /\ Balanced(c)
  BY <1>1 DEF CountInv, Counts
<1>3. StillToCome(c) = 0
  BY <1>1 DEF StillToCome
<1>4. PICK m \in Nat :
        /\ LeadsTo(queue[c], entry.turns, m)
        /\ m >= 2 * running[c]
        /\ "active" \notin Statuses => m = 2 * running[c]
  BY <1>2, <1>3 DEF Balanced
<1>5. m = entry.turns
  BY <1>1, <1>4, NothingLeads
<1> QED
  BY <1>2, <1>4, <1>5

LEMMA CountAlways == ~Overlapping => (Spec => [](TypeOK /\ CountInv))
<1> SUFFICES ASSUME ~Overlapping PROVE Spec => [](TypeOK /\ CountInv)
  OBVIOUS
<1>1. TypeOK /\ TeardownInv /\ [Next]_vars => TeardownInv'
  BY TeardownStep
<1>2. TeardownInv => Undispatched
  BY DEF TeardownInv
<1>3. ThreadInv /\ TypeOK' /\ Undispatched' /\ [Next]_vars => ThreadInv'
  BY ThreadStep
<1>4. TypeOK /\ TeardownInv /\ ThreadInv /\ CountInv /\ [Next]_vars => CountInv'
  BY CountStep
<1> QED
  BY TypeCorrect, TeardownInit, ThreadInit, CountInit, <1>1, <1>2, <1>3, <1>4, PTL DEF Spec

(* With one connection at a time, a session whose drained connection runs a
   turn is connected and counted busy, whatever statuses the app-server
   announces and however inspections, queue and dispatcher interleave. *)
THEOREM RunningTurnsCounted == ~Overlapping => (Spec => []RunningTurnCounts)
<1>1. TypeOK /\ CountInv => RunningTurnCounts
  <2> SUFFICES ASSUME TypeOK, CountInv, NEW c \in Conns, Drained(c), running[c] > 0
               PROVE  entry.gateway /\ entry.turns > 0
    BY DEF RunningTurnCounts
  <2>1. running[c] \in Nat /\ entry.turns \in Nat
    BY DEF TypeOK, Entries
  <2> QED
    BY <2>1, DrainedCount
<1> QED
  BY CountAlways, <1>1, PTL

(* Unless it announces a status of "active", the count of a drained connection
   without a turn is back at zero: a turn counted twice when it starts is counted
   down twice when it ends, in the order the app-server sent it. *)
THEOREM IdleSessionsFree ==
    ~Overlapping /\ "active" \notin Statuses => (Spec => []IdleSessionIsFree)
<1> SUFFICES ASSUME ~Overlapping, "active" \notin Statuses PROVE Spec => []IdleSessionIsFree
  OBVIOUS
<1>1. TypeOK /\ CountInv => IdleSessionIsFree
  <2> SUFFICES ASSUME TypeOK, CountInv, NEW c \in Conns, Drained(c), running[c] = 0
               PROVE  entry.turns = 0
    BY DEF IdleSessionIsFree
  <2> QED
    BY DrainedCount
<1> QED
  BY CountAlways, <1>1, PTL
--------------------------------------------------------------------------------
(* What SwitchFlow takes a gateway for *)

(* SwitchFlow has the windows' connections as events only: one is announced,
   counts and is gone, and each event leaves a callback that may have to wait
   for switchMu.  Flow is that module with this session as its only window,
   running Codex while nobody switches the account. *)
CONSTANTS Window, Profiles, NoProfile, NoSession, Selected, Epoch, MaxEpoch, MaxTurns, Failures

Idle == [inProgress |-> FALSE, from |-> NoProfile, to |-> NoProfile,
         by |-> NoSession, blocking |-> 0]

AnnouncedConns == {<<Window, c>> : c \in {d \in Conns : conn[d] \in {"joining", "open", "cancelled"}}}

(* Inside OnGatewayConnected, or inside a callback of the dispatcher. *)
InCallback(c) == conn[c] \in {"joining", "leaving"} \/ disp[c] = "call"

CallbackConns == {<<Window, c>> : c \in {d \in Conns : InCallback(d)}}

Flow == INSTANCE SwitchFlow WITH
    Sessions <- {Window},
    selected <- Selected, epoch <- Epoch,
    broker <- [state |-> "active", ctx |-> Idle],
    record <- [s \in {Window} |-> "in_codex"],
    entry <- [s \in {Window} |-> entry],
    host <- [s \in {Window} |-> "codex"],
    open <- AnnouncedConns, hostQ <- {}, gatewayQ <- CallbackConns,
    mu <- [op |-> "none", by |-> NoSession, commit |-> NoProfile,
           broker |-> [state |-> "starting", ctx |-> Idle]]

FlowEvent(c) == Flow!Gateway(Window, c) \/ Flow!ReconcileForGateway(Window, c)

(* The entry belongs to a connected host throughout. *)
HostStays == entry.present /\ entry.host

LEMMA SameManager ==
    ASSUME NEW e
    PROVE  /\ \A b : Flow!GatewaySet(e, b) = GatewaySet(e, b)
           /\ Flow!TurnNoted(e) = TurnNoted(e) /\ Flow!TurnDone(e) = TurnDone(e)
           /\ \A s : Flow!StatusNoted(e, s) = StatusNoted(e, s)
<1>1. Flow!EnsureRuntime(e) = EnsureRuntime(e) /\ Flow!NoEntry = NoEntry
  BY DEF Flow!EnsureRuntime, EnsureRuntime, Flow!NoEntry, NoEntry
<1>2. \A b : Flow!GatewaySet(e, b) = GatewaySet(e, b)
  BY <1>1 DEF Flow!GatewaySet, GatewaySet
<1>3. Flow!TurnNoted(e) = TurnNoted(e)
  BY <1>1 DEF Flow!TurnNoted, TurnNoted
<1>4. Flow!TurnDone(e) = TurnDone(e)
  BY <1>1 DEF Flow!TurnDone, TurnDone
<1>5. \A s : Flow!StatusNoted(e, s) = StatusNoted(e, s)
  BY <1>1 DEF Flow!StatusNoted, StatusNoted
<1> QED
  BY <1>2, <1>3, <1>4, <1>5

(* A callback of the gateway, as SwitchFlow has it. *)
LEMMA FlowCallback ==
    ASSUME NEW c, NEW e, entry' = e,
           CallbackConns' = CallbackConns \cup {<<Window, c>>}
    PROVE  Flow!Callback(Window, c, e)
<1>1. [s \in {Window} |-> entry]' = [[s \in {Window} |-> entry] EXCEPT ![Window] = e]
  OBVIOUS
<1> QED
  BY <1>1 DEF Flow!Callback, Flow!switchVars, Idle

(* One that returns finds no switch pending, and reconciles nothing. *)
LEMMA FlowReconcile ==
    ASSUME NEW c, <<Window, c>> \in CallbackConns,
           CallbackConns' = CallbackConns \ {<<Window, c>>},
           UNCHANGED <<entry, AnnouncedConns>>
    PROVE  FlowEvent(c)
<1>1. ~Flow!Pending
  BY DEF Flow!Pending, Idle
<1>2. Flow!Free = [op |-> "none", by |-> NoSession, commit |-> NoProfile,
                   broker |-> [state |-> "starting", ctx |-> Idle]]
  BY DEF Flow!Free, Flow!NoSwitch, Idle
<1>3. Flow!ReconcilePendingSwitch
  BY <1>1, <1>2 DEF Flow!ReconcilePendingSwitch, Flow!sessionVars, Idle
<1> QED
  BY <1>3 DEF FlowEvent, Flow!ReconcileForGateway

(* What the two sets of connections are for the one that moves. *)
LEMMA ConnsMove ==
    ASSUME NEW c \in Conns,
           \A d \in Conns \ {c} : conn'[d] = conn[d] /\ disp'[d] = disp[d]
    PROVE  /\ <<Window, c>> \in AnnouncedConns <=> conn[c] \in {"joining", "open", "cancelled"}
           /\ <<Window, c>> \in CallbackConns <=> InCallback(c)
           /\ conn'[c] \in {"joining", "open", "cancelled"} =>
                  AnnouncedConns' = AnnouncedConns \cup {<<Window, c>>}
           /\ conn'[c] \notin {"joining", "open", "cancelled"} =>
                  AnnouncedConns' = AnnouncedConns \ {<<Window, c>>}
           /\ InCallback(c)' => CallbackConns' = CallbackConns \cup {<<Window, c>>}
           /\ ~InCallback(c)' => CallbackConns' = CallbackConns \ {<<Window, c>>}
<1>1. /\ <<Window, c>> \in AnnouncedConns <=> conn[c] \in {"joining", "open", "cancelled"}
      /\ <<Window, c>> \in CallbackConns <=> InCallback(c)
  BY DEF AnnouncedConns, CallbackConns
<1>2. \A d \in Conns \ {c} : InCallback(d)' <=> InCallback(d)
  BY DEF InCallback
<1>3. /\ conn'[c] \in {"joining", "open", "cancelled"} =>
             AnnouncedConns' = AnnouncedConns \cup {<<Window, c>>}
      /\ conn'[c] \notin {"joining", "open", "cancelled"} =>
             AnnouncedConns' = AnnouncedConns \ {<<Window, c>>}
  BY DEF AnnouncedConns
<1>4. /\ InCallback(c)' => CallbackConns' = CallbackConns \cup {<<Window, c>>}
      /\ ~InCallback(c)' => CallbackConns' = CallbackConns \ {<<Window, c>>}
  BY <1>2 DEF CallbackConns
<1> QED
  BY <1>1, <1>3, <1>4

(* ... and when that leaves a set as it was. *)
LEMMA ConnsStay ==
    ASSUME NEW c \in Conns,
           \A d \in Conns \ {c} : conn'[d] = conn[d] /\ disp'[d] = disp[d]
    PROVE  /\ (conn'[c] \in {"joining", "open", "cancelled"}
                  <=> conn[c] \in {"joining", "open", "cancelled"}) => UNCHANGED AnnouncedConns
           /\ (InCallback(c)' <=> InCallback(c)) => UNCHANGED CallbackConns
<1> DEFINE A(d) == conn[d] \in {"joining", "open", "cancelled"}
<1>1. ASSUME conn'[c] \in {"joining", "open", "cancelled"} <=> A(c) PROVE UNCHANGED AnnouncedConns
  <2>1. \A d \in Conns : A(d)' <=> A(d)
    BY <1>1
  <2> QED
    BY <2>1 DEF AnnouncedConns
<1>2. ASSUME InCallback(c)' <=> InCallback(c) PROVE UNCHANGED CallbackConns
  <2>1. \A d \in Conns : InCallback(d)' <=> InCallback(d)
    BY <1>2 DEF InCallback
  <2> QED
    BY <2>1 DEF CallbackConns
<1> QED
  BY <1>1, <1>2

(* Only Connect, Dispatch and Disconnect change the entry, each as the
   manager's own callback does. *)
LEMMA FlowConnects ==
    ASSUME NEW c \in Conns, TypeOK, Undispatched, Connect(c)
    PROVE  FlowEvent(c)
<1>1. conn[c] = "none" /\ disp[c] = "done"
  BY DEF Connect, Undispatched
<1>2. \A d \in Conns \ {c} : conn'[d] = conn[d] /\ disp'[d] = disp[d]
  BY DEF Connect, TypeOK
<1>3. conn'[c] = "joining"
  BY DEF Connect, TypeOK
<1>4. /\ <<Window, c>> \notin AnnouncedConns /\ <<Window, c>> \notin CallbackConns
      /\ AnnouncedConns' = AnnouncedConns \cup {<<Window, c>>}
      /\ CallbackConns' = CallbackConns \cup {<<Window, c>>}
  BY <1>1, <1>2, <1>3, ConnsMove DEF InCallback
<1>5. entry' = Flow!GatewaySet(entry, TRUE)
  BY SameManager DEF Connect
<1>6. Flow!Callback(Window, c, Flow!GatewaySet(entry, TRUE))
  BY <1>4, <1>5, FlowCallback
<1>7. Flow!GatewayConnected(Window, c)
  BY <1>4, <1>6 DEF Flow!GatewayConnected
<1> QED
  BY <1>7 DEF FlowEvent, Flow!Gateway

(* The dispatcher is done by then, so no callback of the connection waits. *)
LEMMA FlowDisconnects ==
    ASSUME NEW c \in Conns, TypeOK, Disconnect(c)
    PROVE  FlowEvent(c)
<1>1. conn[c] = "cancelled" /\ disp[c] = "done"
  BY DEF Disconnect
<1>2. \A d \in Conns \ {c} : conn'[d] = conn[d] /\ disp'[d] = disp[d]
  BY DEF Disconnect, TypeOK
<1>3. conn'[c] = "leaving"
  BY DEF Disconnect, TypeOK
<1>4. /\ <<Window, c>> \in AnnouncedConns /\ <<Window, c>> \notin CallbackConns
      /\ AnnouncedConns' = AnnouncedConns \ {<<Window, c>>}
      /\ CallbackConns' = CallbackConns \cup {<<Window, c>>}
  BY <1>1, <1>2, <1>3, ConnsMove DEF InCallback
<1>5. entry' = Flow!GatewaySet(entry, FALSE)
  BY SameManager DEF Disconnect
<1>6. Flow!Callback(Window, c, Flow!GatewaySet(entry, FALSE))
  BY <1>4, <1>5, FlowCallback
<1>7. Flow!GatewayDisconnected(Window, c)
  BY <1>4, <1>6 DEF Flow!GatewayDisconnected, Flow!Serving
<1> QED
  BY <1>7 DEF FlowEvent, Flow!Gateway

(* A status other than "active" counts nothing, and neither does a thread: to
   SwitchFlow it is such a status, whose reconcile finds nothing pending. *)
LEMMA FlowDispatches ==
    ASSUME NEW c \in Conns, TypeOK, Undispatched, entry.present,
           entry.turns < MaxTurns, Dispatch(c)
    PROVE  FlowEvent(c)
<1> DEFINE o == Head(queue[c])
<1>1. disp[c] = "wait" /\ conn[c] \in {"open", "cancelled"}
  BY DEF Dispatch, Undispatched, TypeOK, ConnStates
<1>2. \A d \in Conns \ {c} : conn'[d] = conn[d] /\ disp'[d] = disp[d]
  BY DEF Dispatch, TypeOK
<1>3. conn'[c] = conn[c] /\ disp'[c] = "call"
  BY DEF Dispatch, TypeOK
<1>4. /\ <<Window, c>> \in AnnouncedConns /\ <<Window, c>> \notin CallbackConns
      /\ AnnouncedConns' = AnnouncedConns \cup {<<Window, c>>}
      /\ CallbackConns' = CallbackConns \cup {<<Window, c>>}
  BY <1>1, <1>2, <1>3, ConnsMove DEF InCallback
<1>5. UNCHANGED AnnouncedConns /\ Flow!Serving(Window, c)
  BY <1>4 DEF Flow!Serving
<1>6. entry' = Counted(entry, o)
  BY DEF Dispatch
<1>7. o \in Observations
  <2>1. queue[c] \in Seq(Observations) /\ queue[c] # <<>>
    BY DEF Dispatch, TypeOK
  <2> QED
    BY <2>1, EmptySeq, HeadTailProperties
<1>8. o.kind \in {"started", "completed", "status", "thread"}
  BY <1>7 DEF Observations, Frames
<1> HIDE DEF o
<1>9. CASE o.kind = "started"
  <2>1. entry' = Flow!TurnNoted(entry)
    BY <1>6, <1>9, SameManager DEF Counted
  <2>2. Flow!TurnStarted(Window, c)
    BY <1>4, <1>5, <2>1, FlowCallback DEF Flow!TurnStarted
  <2> QED
    BY <2>2 DEF FlowEvent, Flow!Gateway
<1>10. CASE o.kind = "completed"
  <2>1. entry' = Flow!TurnDone(entry)
    BY <1>6, <1>10, SameManager DEF Counted
  <2>2. Flow!TurnCompleted(Window, c)
    BY <1>4, <1>5, <2>1, FlowCallback DEF Flow!TurnCompleted
  <2> QED
    BY <2>2 DEF FlowEvent, Flow!Gateway
<1>11. CASE o.kind \in {"status", "thread"}
  <2>1. \E s \in {"active", "idle"} : entry' = StatusNoted(entry, s)
    <3>1. CASE o.kind = "status"
      <4>1. entry' = StatusNoted(entry, o.status)
        BY <1>6, <3>1 DEF Counted
      <4>2. o.status # "active" => StatusNoted(entry, o.status) = StatusNoted(entry, "idle")
        BY DEF StatusNoted
      <4> QED
        BY <4>1, <4>2
    <3>2. CASE o.kind = "thread"
      <4>1. entry' = entry
        BY <1>6, <3>2 DEF Counted
      <4>2. StatusNoted(entry, "idle") = entry
        <5>1. entry \in Entries
          BY DEF TypeOK
        <5>2. EnsureRuntime(entry) = entry
          BY <5>1 DEF EnsureRuntime, Entries
        <5> QED
          BY <5>1, <5>2 DEF StatusNoted, Entries
      <4> QED
        BY <4>1, <4>2
    <3> QED
      BY <1>11, <3>1, <3>2
  <2>2. PICK s \in {"active", "idle"} : entry' = Flow!StatusNoted(entry, s)
    BY <2>1, SameManager
  <2>3. Flow!Callback(Window, c, Flow!StatusNoted(entry, s))
    BY <1>4, <2>2, FlowCallback
  <2>4. Flow!ThreadStatus(Window, c)
    BY <1>5, <2>3 DEF Flow!ThreadStatus
  <2> QED
    BY <2>4 DEF FlowEvent, Flow!Gateway
<1> QED
  BY <1>8, <1>9, <1>10, <1>11

(* A callback that returns is one reconcile. *)
LEMMA FlowReturns ==
    ASSUME NEW c \in Conns, TypeOK, Undispatched,
           Open(c) \/ Close(c) \/ CallbackReturns(c)
    PROVE  FlowEvent(c)
<1>1. \A d \in Conns \ {c} : conn'[d] = conn[d] /\ disp'[d] = disp[d]
  BY DEF Open, Close, CallbackReturns, TypeOK
<1>2. InCallback(c)
  BY DEF Open, Close, CallbackReturns, InCallback
<1>3. ~InCallback(c)'
  <2>1. CASE Open(c)
    BY <2>1 DEF Open, InCallback, TypeOK
  <2>2. CASE Close(c)
    BY <2>2 DEF Close, InCallback, TypeOK, Undispatched
  <2>3. CASE CallbackReturns(c)
    BY <2>3 DEF CallbackReturns, InCallback, TypeOK, Undispatched
  <2> QED
    BY <2>1, <2>2, <2>3
<1>4. conn'[c] \in {"joining", "open", "cancelled"}
        <=> conn[c] \in {"joining", "open", "cancelled"}
  BY DEF Open, Close, CallbackReturns, TypeOK
<1>5. UNCHANGED <<entry, AnnouncedConns>>
  <2>1. UNCHANGED entry
    BY DEF Open, Close, CallbackReturns
  <2>2. UNCHANGED AnnouncedConns
    BY <1>1, <1>4, ConnsStay
  <2> QED
    BY <2>1, <2>2
<1>6. <<Window, c>> \in CallbackConns /\ CallbackConns' = CallbackConns \ {<<Window, c>>}
  BY <1>1, <1>2, <1>3, ConnsMove
<1> QED
  BY <1>5, <1>6, FlowReconcile

(* Everything else is between the gateway and its two peers. *)
LEMMA FlowUnaware ==
    ASSUME NEW c \in Conns, TypeOK, Step(c),
           ~Connect(c), ~Open(c), ~Disconnect(c), ~Close(c), ~Dispatch(c), ~CallbackReturns(c)
    PROVE  UNCHANGED <<entry, AnnouncedConns, CallbackConns>>
<1>1. CASE Cancel(c)
  <2>1. UNCHANGED <<entry, disp>>
    BY <1>1 DEF Cancel, proxied
  <2>2. conn[c] = "open" /\ conn'[c] = "cancelled"
    BY <1>1 DEF Cancel, TypeOK
  <2>3. \A d \in Conns \ {c} : conn'[d] = conn[d] /\ disp'[d] = disp[d]
    BY <1>1 DEF Cancel, TypeOK
  <2>4. InCallback(c)' <=> InCallback(c)
    BY <2>1, <2>2 DEF InCallback
  <2>5. UNCHANGED <<AnnouncedConns, CallbackConns>>
    BY <2>2, <2>3, <2>4, ConnsStay
  <2> QED
    BY <2>1, <2>5
<1>2. CASE DispatcherStops(c)
  <2>1. UNCHANGED <<entry, conn>>
    BY <1>2 DEF DispatcherStops, proxied
  <2>2. disp[c] = "wait" /\ disp'[c] = "done"
    BY <1>2 DEF DispatcherStops, TypeOK
  <2>3. \A d \in Conns \ {c} : conn'[d] = conn[d] /\ disp'[d] = disp[d]
    BY <1>2 DEF DispatcherStops, TypeOK
  <2>4. InCallback(c)' <=> InCallback(c)
    BY <2>1, <2>2 DEF InCallback
  <2>5. UNCHANGED <<AnnouncedConns, CallbackConns>>
    BY <2>1, <2>3, <2>4, ConnsStay
  <2> QED
    BY <2>1, <2>5
<1>3. CASE UNCHANGED <<entry, conn, disp>>
  BY <1>3 DEF AnnouncedConns, CallbackConns, InCallback
<1> QED
  BY <1>1, <1>2, <1>3
  DEF Step, ClientRequest, InspectRequestAgain, UpEnds, ReadFrame, InspectFrame, WriteFrame, DownEnds

(* No callback of the gateway takes the host out of the entry. *)
LEMMA HostStaysStep == TypeOK /\ HostStays /\ [Next]_vars => HostStays'
<1> SUFFICES ASSUME TypeOK, HostStays, [Next]_vars PROVE HostStays'
  OBVIOUS
<1>1. CASE UNCHANGED entry
  BY <1>1 DEF HostStays
<1>2. /\ \A b \in BOOLEAN : GatewaySet(entry, b).present /\ GatewaySet(entry, b).host
      /\ \A o \in Observations : Counted(entry, o).present /\ Counted(entry, o).host
  <2>1. entry \in Entries /\ entry.present /\ entry.host
    BY DEF TypeOK, HostStays
  <2>2. /\ EnsureRuntime(entry).present /\ EnsureRuntime(entry).host
        /\ EnsureRuntime(entry) \in Entries
    BY <2>1 DEF EnsureRuntime, Entries
  <2>3. \A b \in BOOLEAN : GatewaySet(entry, b).present /\ GatewaySet(entry, b).host
    BY <2>1, <2>2 DEF GatewaySet, Entries
  <2>4. /\ TurnNoted(entry).present /\ TurnNoted(entry).host
        /\ TurnDone(entry).present /\ TurnDone(entry).host
        /\ \A s : StatusNoted(entry, s).present /\ StatusNoted(entry, s).host
    BY <2>2 DEF TurnNoted, TurnDone, StatusNoted, Entries
  <2>5. \A o \in Observations : o.kind \in {"started", "completed", "status", "thread"}
    BY DEF Observations, Frames
  <2> QED
    BY <2>1, <2>3, <2>4, <2>5 DEF Counted
<1>3. ASSUME NEW c \in Conns, Connect(c) \/ Disconnect(c) PROVE HostStays'
  BY <1>2, <1>3 DEF HostStays, Connect, Disconnect
<1>4. ASSUME NEW c \in Conns, Dispatch(c) PROVE HostStays'
  <2>1. queue[c] \in Seq(Observations) /\ queue[c] # <<>> /\ entry' = Counted(entry, Head(queue[c]))
    BY <1>4 DEF Dispatch, TypeOK
  <2>2. Head(queue[c]) \in Observations
    BY <2>1, EmptySeq, HeadTailProperties
  <2> QED
    BY <1>2, <2>1, <2>2 DEF HostStays
<1>5. ASSUME NEW c \in Conns, Step(c), ~Connect(c), ~Disconnect(c), ~Dispatch(c)
      PROVE  UNCHANGED entry
  BY <1>5 DEF Step, Open, Cancel, Close, ClientRequest, InspectRequestAgain, UpEnds, ReadFrame,
              InspectFrame, WriteFrame, DownEnds, CallbackReturns, DispatcherStops
<1> QED
  BY <1>1, <1>3, <1>4, <1>5 DEF Next, vars

(* The step of the theorem: one case per action that can be seen. *)
LEMMA FlowStep ==
    TypeOK /\ Undispatched /\ HostStays /\ [Next]_vars =>
        [entry.turns < MaxTurns => \E c \in Conns : FlowEvent(c)]_<<entry, AnnouncedConns,
                                                              CallbackConns>>
<1> SUFFICES ASSUME TypeOK, Undispatched, HostStays, [Next]_vars, entry.turns < MaxTurns
             PROVE  \/ \E c \in Conns : FlowEvent(c)
                    \/ UNCHANGED <<entry, AnnouncedConns, CallbackConns>>
  OBVIOUS
<1>1. CASE UNCHANGED vars
  BY <1>1 DEF vars, AnnouncedConns, CallbackConns, InCallback
<1>2. ASSUME NEW c \in Conns, Step(c)
      PROVE  FlowEvent(c) \/ UNCHANGED <<entry, AnnouncedConns, CallbackConns>>
  <2>1. CASE Dispatch(c)
    BY <2>1, FlowDispatches DEF HostStays
  <2> QED
    BY <1>2, <2>1, FlowConnects, FlowDisconnects, FlowReturns, FlowUnaware
<1> QED
  BY <1>1, <1>2 DEF Next

(* Every step of the gateway that its session's entry, its announced
   connections or its callbacks show is an event of that session in
   SwitchFlow, as long as fewer turns are counted than SwitchFlow's bound. *)
THEOREM GatewayIsFlow ==
    Spec => [][entry.turns < MaxTurns => \E c \in Conns : FlowEvent(c)]_<<entry, AnnouncedConns,
                                                                       CallbackConns>>
<1>1. Init => HostStays
  BY DEF Init, HostStays, HostRegistered, EnsureRuntime, NoEntry
<1>2. TeardownInv => Undispatched
  BY DEF TeardownInv
<1>3. TypeOK /\ TeardownInv /\ [Next]_vars => TeardownInv'
  BY TeardownStep
<1> QED
  BY TypeCorrect, TeardownInit, HostStaysStep, FlowStep, <1>1, <1>2, <1>3, PTL DEF Spec
================================================================================
