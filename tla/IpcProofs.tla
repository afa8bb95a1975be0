-------------------------------- MODULE IpcProofs ------------------------------
(***************************************************************************)
(* Theorems about Ipc, for any calls, events and capacity of the pipe.     *)
(***************************************************************************)
EXTENDS Ipc, SequenceTheorems, TLAPS

(* What is left of a queue after its first message has been taken. *)
LEMMA Taken ==
    ASSUME NEW S, NEW q \in Seq(S), q # <<>>
    PROVE  /\ Head(q) \in S /\ Head(q) = q[1] /\ 1 \in 1..Len(q)
           /\ Tail(q) \in Seq(S) /\ Len(Tail(q)) = Len(q) - 1
           /\ \A i \in 1..Len(Tail(q)) : i + 1 \in 1..Len(q) /\ Tail(q)[i] = q[i + 1]
BY HeadTailProperties, ElementOfSeq, LenProperties

(* What a queue is after a message has been added. *)
LEMMA Added ==
    ASSUME NEW S, NEW q \in Seq(S), NEW m \in S
    PROVE  /\ Append(q, m) \in Seq(S) /\ Len(Append(q, m)) = Len(q) + 1
           /\ Append(q, m)[Len(q) + 1] = m
           /\ \A i \in 1..Len(q) : Append(q, m)[i] = q[i]
           /\ \A i \in 1..Len(Append(q, m)) : i \in 1..Len(q) \/ i = Len(q) + 1
BY AppendProperties, LenProperties

(* Calls that have not been sent yet. *)
Unsent == {c \in Calls : call[c] \in {"new", "send", "write"}}

(* A request is in the pipe, or with the handler, once, and not executed yet. *)
Requests ==
    /\ \A i \in 1..Len(up) : up[i] \notin Unsent /\ up[i] \notin executed
    /\ \A i, j \in 1..Len(up) : up[i] = up[j] => i = j
    /\ server.at = "handle" =>
         /\ server.has \notin Unsent /\ server.has \notin executed
         /\ \A i \in 1..Len(up) : up[i] # server.has

(* An answer belongs to a call that was executed, wherever it is on its way. *)
Answers ==
    /\ \A c \in executed : c \notin Unsent
    /\ server.at = "reply" => server.has \in executed
    /\ \A i \in 1..Len(down) : down[i] \notin Events => down[i] \in executed
    /\ reader.at \in {"lookup", "deliver"} => reader.has \in executed
    /\ \A c \in Calls : answer[c] # "none" => c \in executed /\ answer[c] = Outcome(c)

IInv == TypeOK /\ Requests /\ Answers

LEMMA InvInit == Init => IInv
<1> SUFFICES ASSUME Init PROVE IInv
  OBVIOUS
<1>1. up = <<>> /\ down = <<>> /\ Len(up) = 0 /\ Len(down) = 0
  BY DEF Init
<1>2. CallTypes
  BY NamesAssumption DEF Init, CallTypes, Stages
<1>3. WindowTypes /\ BrokerTypes
  BY DEF Init, WindowTypes, BrokerTypes
<1>4. PipeTypes
  BY <1>1, CapacityAssumption DEF Init, PipeTypes
<1>5. Requests /\ Answers
  BY <1>1 DEF Init, Requests, Answers
<1> QED
  BY <1>2, <1>3, <1>4, <1>5 DEF IInv, TypeOK

LEMMA CallTypesNext == TypeOK /\ [Next]_vars => CallTypes'
<1> SUFFICES ASSUME TypeOK, [Next]_vars PROVE CallTypes'
  OBVIOUS
<1> USE NamesAssumption DEF TypeOK, CallTypes
<1>1. ASSUME NEW c \in Calls, Request(c) PROVE CallTypes'
  BY <1>1 DEF Request, To, Stages
<1>2. ASSUME NEW c \in Calls, Lock(c) PROVE CallTypes'
  BY <1>2 DEF Lock, To, Stages
<1>3. ASSUME NEW c \in Calls, Send(c) PROVE CallTypes'
  BY <1>3 DEF Send, Returns, To, Stages
<1>4. ASSUME NEW c \in Calls, Answered(c) \/ TimesOut(c) \/ SeesClosed(c) PROVE CallTypes'
  BY <1>4 DEF Answered, TimesOut, SeesClosed, Waits, Returns, To, Stages
<1>5. CASE Deliver
  <2>1. answer' \in [Calls -> {"none", "ok", "error"}]
    BY <1>5 DEF Deliver, Outcome
  <2> QED
    BY <1>5, <2>1 DEF Deliver
<1>6. CASE UNCHANGED client
  BY <1>6 DEF client
<1> QED
  BY <1>1, <1>2, <1>3, <1>4, <1>5, <1>6
     DEF Next, CallProceeds, ReaderProceeds, ServerProceeds, ReadResponse, ReadEvent, ReadFails,
         Lookup, CheckClosed, CloseChannel, ServerRead, Handle, Reply, ServerEnds, FindConn,
         SendEvent, vars

LEMMA WindowTypesNext == TypeOK /\ [Next]_vars => WindowTypes'
<1> SUFFICES ASSUME TypeOK, [Next]_vars PROVE WindowTypes'
  OBVIOUS
<1> USE DEF TypeOK, WindowTypes
<1>1. CASE ReadResponse \/ ReadEvent
  <2>1. Head(down) \in Messages
    BY <1>1, Taken DEF ReadResponse, ReadEvent, PipeTypes
  <2> QED
    BY <1>1, <2>1 DEF ReadResponse, ReadEvent, Reader, ending, Messages
<1>2. CASE ReadFails
  BY <1>2 DEF ReadFails, Reader, ending
<1>3. CASE Lookup
  BY <1>3 DEF Lookup, Reader, ending
<1>4. CASE Deliver
  BY <1>4 DEF Deliver, Reader, ending
<1>5. ASSUME NEW x \in Closers, CheckClosed(x) \/ CloseChannel(x) PROVE WindowTypes'
  BY <1>5 DEF CheckClosed, CloseChannel, Shut
<1>6. CASE UNCHANGED <<reader, closer, closed, crashed, heard>>
  BY <1>6
<1> QED
  BY <1>1, <1>2, <1>3, <1>4, <1>5, <1>6
     DEF Next, CallProceeds, ReaderProceeds, ServerProceeds, Request, Lock, Send, Answered,
         TimesOut, SeesClosed, ServerRead, Handle, Reply, ServerEnds, FindConn, SendEvent,
         ending, vars

LEMMA PipeTypesNext == TypeOK /\ [Next]_vars => PipeTypes'
<1> SUFFICES ASSUME TypeOK, [Next]_vars PROVE PipeTypes'
  OBVIOUS
<1> USE CapacityAssumption DEF TypeOK, PipeTypes
<1>1. ASSUME NEW c \in Calls, Send(c) PROVE PipeTypes'
  <2>1. up' = up \/ (Len(up) < Capacity /\ up' = Append(up, c))
    BY <1>1 DEF Send
  <2>2. Len(up) \in Nat
    BY LenProperties
  <2>3. up' \in Seq(Calls) /\ Len(up') <= Capacity
    BY <2>1, <2>2, Added
  <2> QED
    BY <1>1, <2>3 DEF Send, ending
<1>2. CASE ReadResponse \/ ReadEvent
  <2>1. down' \in Seq(Messages) /\ Len(down') <= Capacity
    <3>1. down # <<>> /\ down' = Tail(down)
      BY <1>2 DEF ReadResponse, ReadEvent
    <3>2. Len(down) \in Nat
      BY LenProperties
    <3> QED
      BY <3>1, <3>2, Taken
  <2> QED
    BY <1>2, <2>1 DEF ReadResponse, ReadEvent, ending
<1>3. CASE ServerRead
  <2>1. up # <<>> /\ up' = Tail(up)
    BY <1>3 DEF ServerRead
  <2>2. Len(up) \in Nat
    BY LenProperties
  <2>3. up' \in Seq(Calls) /\ Len(up') <= Capacity
    BY <2>1, <2>2, Taken
  <2> QED
    BY <1>3, <2>3 DEF ServerRead, ending
<1>4. CASE Reply
  <2>1. UNCHANGED <<up, open>>
    BY <1>4 DEF Reply, ending
  <2>2. down' \in Seq(Messages) /\ Len(down') <= Capacity
    <3>1. /\ server.has \in Messages
          /\ down' = down \/ (Len(down) < Capacity /\ down' = Append(down, server.has))
      BY <1>4 DEF Reply, BrokerTypes, Messages
    <3>2. Len(down) \in Nat
      BY LenProperties
    <3> QED
      BY <3>1, <3>2, Added
  <2> QED
    BY <2>1, <2>2
<1>5. ASSUME NEW e \in Events, SendEvent(e) PROVE PipeTypes'
  <2>1. UNCHANGED <<up, open>>
    BY <1>5 DEF SendEvent, ending
  <2>2. down' \in Seq(Messages) /\ Len(down') <= Capacity
    BY <1>5, Added, LenProperties DEF SendEvent, Messages
  <2> QED
    BY <2>1, <2>2
<1>6. ASSUME NEW x \in Closers, CheckClosed(x) \/ CloseChannel(x) PROVE PipeTypes'
  BY <1>6 DEF CheckClosed, CloseChannel, Shut
<1>7. CASE ServerEnds
  BY <1>7 DEF ServerEnds
<1>8. CASE UNCHANGED <<up, down, open>>
  BY <1>8
<1> QED
  BY <1>1, <1>2, <1>3, <1>4, <1>5, <1>6, <1>7, <1>8
     DEF Next, CallProceeds, ReaderProceeds, ServerProceeds, Request, Lock, Answered, TimesOut,
         SeesClosed, ReadFails, Lookup, Deliver, Handle, FindConn, ending, vars

LEMMA BrokerTypesNext == TypeOK /\ [Next]_vars => BrokerTypes'
<1> SUFFICES ASSUME TypeOK, [Next]_vars PROVE BrokerTypes'
  OBVIOUS
<1> USE DEF TypeOK, BrokerTypes
<1>1. CASE ServerRead
  <2>1. Head(up) \in Calls
    BY <1>1, Taken DEF ServerRead, PipeTypes
  <2> QED
    BY <1>1, <2>1 DEF ServerRead, Server
<1>2. CASE Handle
  BY <1>2 DEF Handle, Server
<1>3. CASE Reply
  BY <1>3 DEF Reply, Server
<1>4. ASSUME NEW e \in Events, FindConn(e) \/ SendEvent(e) PROVE BrokerTypes'
  BY <1>4 DEF FindConn, SendEvent
<1>5. CASE UNCHANGED broker
  BY <1>5 DEF broker
<1> QED
  BY <1>1, <1>2, <1>3, <1>4, <1>5
     DEF Next, CallProceeds, ReaderProceeds, ServerProceeds, Request, Lock, Send, Answered,
         TimesOut, SeesClosed, ReadResponse, ReadEvent, ReadFails, Lookup, Deliver, CheckClosed,
         CloseChannel, ServerEnds, vars

LEMMA TypeNext == TypeOK /\ [Next]_vars => TypeOK'
BY CallTypesNext, WindowTypesNext, PipeTypesNext, BrokerTypesNext DEF TypeOK

(* What a step does to the requests on their way, and to who has been sent. *)
LEMMA RequestsNext == IInv /\ [Next]_vars => Requests'
<1> SUFFICES ASSUME IInv, [Next]_vars PROVE Requests'
  OBVIOUS
<1>a. up \in Seq(Calls) /\ Len(up) \in Nat
  BY LenProperties DEF IInv, TypeOK, PipeTypes
<1>b. call \in [Calls -> Stages]
  BY DEF IInv, TypeOK, CallTypes
<1>1. ASSUME NEW c \in Calls, Request(c) \/ Lock(c) PROVE Requests'
  <2>1. /\ c \in Unsent /\ UNCHANGED <<up, server, executed>>
        /\ \A d \in Calls : d # c => call'[d] = call[d]
    BY <1>1, <1>b DEF Request, Lock, To, Unsent, broker
  <2>2. \A i \in 1..Len(up) : up[i] \in Calls
    BY <1>a, ElementOfSeq
  <2> QED
    BY <2>1, <2>2 DEF IInv, TypeOK, BrokerTypes, Requests, Unsent
<1>2. ASSUME NEW c \in Calls, Send(c), Broken PROVE Requests'
  <2>1. /\ UNCHANGED <<up, server, executed>> /\ c \in Unsent
        /\ Unsent' \subseteq Unsent
    BY <1>2, <1>b DEF Send, Returns, To, Unsent, broker
  <2>2. \A i \in 1..Len(up) : up[i] \in Calls
    BY <1>a, ElementOfSeq
  <2> QED
    BY <2>1, <2>2 DEF IInv, TypeOK, BrokerTypes, Requests
<1>3. ASSUME NEW c \in Calls, Send(c), ~Broken PROVE Requests'
  <2>1. /\ up' = Append(up, c) /\ UNCHANGED <<server, executed>> /\ c \in Unsent /\ c \notin Unsent'
        /\ Unsent' \subseteq Unsent
    BY <1>3, <1>b DEF Send, To, Unsent, broker
  <2>2. \A i \in 1..Len(up) : up[i] \in Calls /\ up[i] # c /\ up[i] \notin Unsent'
    BY <2>1, <1>a, ElementOfSeq DEF IInv, Requests
  <2>3. /\ \A i \in 1..Len(up') : i \in 1..Len(up) \/ i = Len(up) + 1
        /\ up'[Len(up) + 1] = c /\ \A i \in 1..Len(up) : up'[i] = up[i]
    BY <2>1, <1>a, Added
  <2>4. c \notin executed /\ (server.at = "handle" => server.has # c)
    BY <2>1 DEF IInv, Requests, Answers
  <2>5. \A i \in 1..Len(up') : up'[i] \notin Unsent' /\ up'[i] \notin executed'
    BY <2>1, <2>2, <2>3, <2>4 DEF IInv, Requests
  <2>6. \A i, j \in 1..Len(up') : up'[i] = up'[j] => i = j
    BY <2>2, <2>3 DEF IInv, Requests
  <2>7. server'.at = "handle" =>
          /\ server'.has \notin Unsent' /\ server'.has \notin executed'
          /\ \A i \in 1..Len(up') : up'[i] # server'.has
    BY <2>1, <2>2, <2>3, <2>4 DEF IInv, TypeOK, BrokerTypes, Requests
  <2> QED
    BY <2>5, <2>6, <2>7 DEF Requests
<1>4. ASSUME NEW c \in Calls, Answered(c) \/ TimesOut(c) \/ SeesClosed(c) PROVE Requests'
  <2>1. /\ UNCHANGED <<up, server, executed>>
        /\ Unsent' \subseteq Unsent
    BY <1>4, <1>b DEF Answered, TimesOut, SeesClosed, Returns, To, Unsent, broker
  <2>2. \A i \in 1..Len(up) : up[i] \in Calls
    BY <1>a, ElementOfSeq
  <2> QED
    BY <2>1, <2>2 DEF IInv, TypeOK, BrokerTypes, Requests
<1>5. CASE ServerRead
  <2>1. up # <<>> /\ up' = Tail(up) /\ UNCHANGED <<call, executed>>
        /\ server'.at = "handle" /\ server'.has = Head(up)
    BY <1>5 DEF ServerRead, Server, client
  <2>2. /\ Head(up) = up[1] /\ 1 \in 1..Len(up)
        /\ \A i \in 1..Len(up') : i + 1 \in 1..Len(up) /\ up'[i] = up[i + 1]
    BY <2>1, <1>a, Taken
  <2>3. \A i \in 1..Len(up') : i + 1 # 1 /\ i \in Int
    OBVIOUS
  <2>4. \A i \in 1..Len(up') : up'[i] \notin Unsent /\ up'[i] \notin executed
    BY <2>2 DEF IInv, Requests
  <2>5. \A i, j \in 1..Len(up') : up'[i] = up'[j] => i = j
    BY <2>2 DEF IInv, Requests
  <2>6. /\ server'.has \notin Unsent /\ server'.has \notin executed
        /\ \A i \in 1..Len(up') : up'[i] # server'.has
    BY <2>1, <2>2, <2>3 DEF IInv, Requests
  <2> QED
    BY <2>1, <2>4, <2>5, <2>6 DEF Requests, Unsent
<1>6. CASE Handle
  <2>1. /\ server.at = "handle" /\ server'.at = "reply" /\ executed' = executed \cup {server.has}
        /\ UNCHANGED <<call, up>>
    BY <1>6 DEF Handle, Server, client
  <2> QED
    BY <2>1 DEF IInv, Requests, Unsent
<1>7. CASE Reply
  <2>1. server'.at = "read" /\ UNCHANGED <<call, up, executed>>
    BY <1>7 DEF Reply, Server, client
  <2> QED
    BY <2>1 DEF IInv, Requests, Unsent
<1>8. CASE UNCHANGED <<call, up, server, executed>>
  BY <1>8 DEF IInv, Requests, Unsent
<1> QED
  BY <1>1, <1>2, <1>3, <1>4, <1>5, <1>6, <1>7, <1>8
     DEF Next, CallProceeds, ReaderProceeds, ServerProceeds, ReadResponse, ReadEvent, ReadFails,
         Lookup, Deliver, CheckClosed, CloseChannel, ServerEnds, FindConn, SendEvent, client,
         broker, vars

LEMMA AnswersNext == IInv /\ [Next]_vars => Answers'
<1> SUFFICES ASSUME IInv, [Next]_vars PROVE Answers'
  OBVIOUS
<1>a. down \in Seq(Messages) /\ Len(down) \in Nat
  BY LenProperties DEF IInv, TypeOK, PipeTypes
<1>b. call \in [Calls -> Stages] /\ answer \in [Calls -> {"none", "ok", "error"}] /\ executed \subseteq Calls
  BY DEF IInv, TypeOK, CallTypes, BrokerTypes
<1>1. ASSUME NEW c \in Calls, CallProceeds(c) \/ Request(c) \/ TimesOut(c) PROVE Answers'
  <2>1. /\ UNCHANGED <<answer, reader, down, server, executed>>
        /\ Unsent' \subseteq Unsent
    BY <1>1, <1>b DEF CallProceeds, Request, Lock, Send, Answered, TimesOut, SeesClosed, Waits,
                      Returns, To, Unsent, broker
  <2> QED
    BY <2>1, <1>b DEF IInv, Answers
<1>2. CASE ReadResponse \/ ReadEvent
  <2>1. /\ down # <<>> /\ down' = Tail(down) /\ UNCHANGED <<call, answer, server, executed>>
        /\ \/ Head(down) \in Events /\ UNCHANGED reader
           \/ Head(down) \notin Events /\ reader'.has = Head(down)
    BY <1>2 DEF ReadResponse, ReadEvent, Reader, client, broker
  <2>2. /\ Head(down) = down[1] /\ 1 \in 1..Len(down)
        /\ \A i \in 1..Len(down') : i + 1 \in 1..Len(down) /\ down'[i] = down[i + 1]
    BY <2>1, <1>a, Taken
  <2>3. \A i \in 1..Len(down') : down'[i] \notin Events => down'[i] \in executed
    BY <2>2 DEF IInv, Answers
  <2>4. reader'.at \in {"lookup", "deliver"} => reader'.has \in executed
    BY <2>1, <2>2 DEF IInv, Answers
  <2> QED
    BY <2>1, <2>3, <2>4 DEF IInv, Answers, Unsent
<1>3. CASE ReadFails \/ Lookup
  BY <1>3 DEF ReadFails, Lookup, Reader, client, broker, IInv, Answers, Unsent
<1>4. CASE Deliver
  <2>1. /\ reader.has \in executed /\ reader'.at = "read"
        /\ UNCHANGED <<call, down, server, executed>>
        /\ answer' = [answer EXCEPT ![reader.has] = Outcome(reader.has)]
    BY <1>4 DEF Deliver, Reader, broker, IInv, Answers
  <2> QED
    BY <2>1, <1>b DEF IInv, Answers, Unsent
<1>5. CASE Handle
  <2>1. /\ server.has \in Calls /\ server.has \notin Unsent /\ server'.has = server.has
        /\ executed' = executed \cup {server.has} /\ UNCHANGED <<call, answer, reader, down>>
    BY <1>5 DEF Handle, Server, client, IInv, Requests, TypeOK, BrokerTypes
  <2> QED
    BY <2>1 DEF IInv, Answers, Unsent
<1>6. CASE ServerRead
  BY <1>6 DEF ServerRead, Server, client, IInv, Answers, Unsent
<1>7. CASE Reply
  <2>1. /\ server.has \in executed /\ server.has \in Messages /\ server'.at = "read"
        /\ UNCHANGED <<call, answer, reader, executed>>
        /\ down' = down \/ down' = Append(down, server.has)
    BY <1>7, <1>b DEF Reply, Server, client, IInv, Answers, Messages
  <2>2. \A i \in 1..Len(down') : down'[i] \notin Events => down'[i] \in executed
    BY <2>1, <1>a, Added DEF IInv, Answers
  <2> QED
    BY <2>1, <2>2 DEF IInv, Answers, Unsent
<1>8. ASSUME NEW e \in Events, SendEvent(e) PROVE Answers'
  <2>1. /\ e \in Messages /\ UNCHANGED <<call, answer, reader, executed, server>>
        /\ down' = down \/ down' = Append(down, e)
    BY <1>8 DEF SendEvent, client, Messages
  <2>2. \A i \in 1..Len(down') : down'[i] \notin Events => down'[i] \in executed
    BY <2>1, <1>a, Added DEF IInv, Answers
  <2> QED
    BY <2>1, <2>2 DEF IInv, Answers, Unsent
<1>9. CASE UNCHANGED <<call, answer, reader, down, server, executed>>
  BY <1>9 DEF IInv, Answers, Unsent
<1> QED
  BY <1>1, <1>2, <1>3, <1>4, <1>5, <1>6, <1>7, <1>8, <1>9
     DEF Next, ReaderProceeds, ServerProceeds, CheckClosed, CloseChannel, ServerEnds, FindConn,
         client, broker, vars

LEMMA Invariant == Spec => []IInv
<1>1. IInv /\ [Next]_vars => IInv'
  BY TypeNext, RequestsNext, AnswersNext DEF IInv
<1> QED
  BY InvInit, <1>1, PTL DEF Spec
--------------------------------------------------------------------------------
(* Types, and one writer at a time in the window (Client.send). *)
THEOREM TypeCorrect == Spec => []TypeOK
BY Invariant, PTL DEF IInv

(* A call that returns without a failure was executed, once, and returns its
   own outcome (Client.Request, readLoop, Server.handleConn). *)
THEOREM CallsRefine == Spec => ImplementsRemoteCalls
<1>1. Init => Abstract!Init
  BY DEF Init, Abstract!Init
<1>2. IInv /\ [Next]_vars => [Abstract!Next]_(Abstract!vars)
  <2> SUFFICES ASSUME IInv, [Next]_vars PROVE [Abstract!Next]_(Abstract!vars)
    OBVIOUS
  <2> DEFINE State(at) == CASE at = "new" -> "new" [] at = "over" -> "over" [] OTHER -> "open"
             state == [c \in Calls |-> State(call[c])]
  <2>a. call \in [Calls -> Stages] /\ result \in [Calls -> {"none", "ok", "error", "failed"}]
    BY DEF IInv, TypeOK, CallTypes
  <2>1. ASSUME NEW c \in Calls, Request(c) PROVE Abstract!Open(c)
    <3>1. call[c] = "new" /\ call' = [call EXCEPT ![c] = "send"] /\ UNCHANGED <<result, executed>>
      BY <2>1 DEF Request, To, broker
    <3>2. state[c] = "new" /\ state' = [state EXCEPT ![c] = "open"]
      BY <2>a, <3>1
    <3> QED
      BY <3>1, <3>2 DEF Abstract!Open
  <2>2. ASSUME NEW c \in Calls, NEW told, call[c] \in {"write", "wait"}, UNCHANGED executed, Returns(c, told)
        PROVE  Abstract!Over(c, told)
    <3>1. call' = [call EXCEPT ![c] = "over"] /\ result' = [result EXCEPT ![c] = told]
      BY <2>2 DEF Returns, To
    <3>2. state[c] = "open" /\ state' = [state EXCEPT ![c] = "over"]
      BY <2>2, <2>a, <3>1
    <3> QED
      BY <2>2, <3>1, <3>2 DEF Abstract!Over
  <2>3. ASSUME NEW c \in Calls, Answered(c) PROVE Abstract!Answer(c)
    <3>1. c \in executed /\ answer[c] = Outcome(c)
      BY <2>3 DEF Answered, IInv, Answers
    <3> QED
      BY <2>2, <2>3, <3>1 DEF Answered, Waits, broker, Abstract!Answer, Outcome, Abstract!Outcome
  <2>4. ASSUME NEW c \in Calls, TimesOut(c) \/ SeesClosed(c) PROVE Abstract!Fail(c)
    BY <2>2, <2>4 DEF TimesOut, SeesClosed, Waits, broker, Abstract!Fail
  <2>5. ASSUME NEW c \in Calls, Send(c), Broken PROVE Abstract!Fail(c)
    BY <2>2, <2>5 DEF Send, broker, Abstract!Fail
  <2>6. ASSUME NEW c \in Calls, Lock(c) \/ (Send(c) /\ ~Broken) PROVE UNCHANGED Abstract!vars
    <3>1. /\ call[c] \in {"send", "write"} /\ \E at \in {"write", "wait"} : call' = [call EXCEPT ![c] = at]
          /\ UNCHANGED <<result, executed>>
      BY <2>6 DEF Lock, Send, To, broker
    <3>2. state' = state
      BY <2>a, <3>1
    <3> QED
      BY <3>1, <3>2 DEF Abstract!vars
  <2>7. CASE Handle
    <3>1. /\ server.has \in Calls /\ server.has \notin executed /\ server.has \notin Unsent
          /\ executed' = executed \cup {server.has} /\ UNCHANGED <<call, result>>
      BY <2>7 DEF Handle, client, IInv, Requests, TypeOK, BrokerTypes
    <3>2. state[server.has] # "new" /\ state' = state
      BY <3>1, <2>a DEF Unsent
    <3> QED
      BY <3>1, <3>2 DEF Abstract!Execute, Abstract!Next
  <2>8. CASE UNCHANGED <<call, result, executed>>
    BY <2>8 DEF Abstract!vars
  <2> QED
    BY <2>1, <2>3, <2>4, <2>5, <2>6, <2>7, <2>8
       DEF Abstract!Next, Next, CallProceeds, ReaderProceeds, ServerProceeds, ReadResponse,
           ReadEvent, ReadFails, Lookup, Deliver, CheckClosed, CloseChannel, ServerRead, Reply,
           ServerEnds, FindConn, SendEvent, client, broker, vars
<1> QED
  BY <1>1, <1>2, Invariant, PTL DEF Spec, ImplementsRemoteCalls, Abstract!Spec
================================================================================
