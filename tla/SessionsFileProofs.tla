--------------------------- MODULE SessionsFileProofs ---------------------------
(***************************************************************************)
(* Theorems about SessionsFile, for any windows and threads, with failures *)
(* and crashes at every step.  What sessions.json promises is proved of    *)
(* every behaviour whose load-to-rename sections exclude each other; the   *)
(* run SessionsFileOverlap shows that it fails in others.                  *)
(***************************************************************************)
EXTENDS SessionsFile, TLAPS

Slots == Records \cup {NoRecord}

(* Every update is some window's, and its fields are of their types. *)
LEMMA UpdateShape ==
    ASSUME NEW u \in Updates
    PROVE  /\ u.session \in Sessions
           /\ u.op \in {"register", "unregister", "return_home", "prepare_launch",
                        "update_state", "record_thread"}
           /\ u.op = "update_state" => u.state \in States
           /\ u.op = "record_thread" => u.thread \in Threads
BY DEF Updates, HostUpdates, GatewayUpdates

(* An update makes a record, or none, of a record, or none. *)
LEMMA AppliedType ==
    ASSUME NEW u \in Updates, NEW r \in Slots
    PROVE  Applied(u, r) \in Slots
<1>1. \A state \in States : UpdateState(r, state) \in Slots
  BY DEF Slots, UpdateState, Records
<1>2. RegisterHost(r) \in Slots /\ Unregister(r) \in Slots
  BY DEF Slots, RegisterHost, Unregister, Records, States
<1>3. ReturnHome(r) \in Slots /\ PrepareLaunch(r) \in Slots
  BY <1>1 DEF ReturnHome, PrepareLaunch, States
<1>4. \A t \in Threads : RecordThread(r, t) \in Slots
  BY DEF Slots, RecordThread, Records
<1> QED
  BY <1>1, <1>2, <1>3, <1>4, UpdateShape DEF Applied

(* Actors and the startup are different, and a window has one of each. *)
LEMMA WriterShape ==
    /\ Startup \notin Actors /\ Startup \in Writers
    /\ \A a \in Actors : a \in Writers /\ a # Startup /\ a[1] \in Sessions
    /\ \A a \in Hosts : a \in Actors /\ a \notin Gateways /\ a = <<a[1], "host">>
    /\ \A a \in Gateways : a \in Actors /\ a \notin Hosts
    /\ \A a \in Writers : a \in Actors \/ a = Startup
    /\ \A a \in Actors : a \in Hosts \/ a \in Gateways
    /\ \A s \in Sessions : <<s, "host">> \in Hosts
BY DEF Writers, Actors, Hosts, Gateways, Startup
--------------------------------------------------------------------------------
(* Types *)

(* A handler inside the manager works on an update, and only such a one. *)
TypeInv ==
    /\ TypeOK
    /\ \A a \in Actors : asked[a] = NoUpdate <=> job[a].pc = "idle"
    /\ job[Startup].pc # "asked"

LEMMA NoJobType == NoJob \in [pc : Stages, mirror : Mirrors] /\ NoSessions \in Mirrors
BY DEF NoJob, Stages, Mirrors, NoSessions

LEMMA TypeInit == Init => TypeInv
<1> SUFFICES ASSUME Init PROVE TypeInv
  OBVIOUS
<1>1. Startup \in Writers /\ \A a \in Writers : job[a] = NoJob
  BY DEF Init, Writers
<1> QED
  BY <1>1, NoJobType, WriterShape DEF Init, TypeInv, TypeOK, NoJob

LEMMA TypeReturn ==
    ASSUME TypeInv, NEW a \in Actors, Return(a), asked[a] # NoUpdate
    PROVE  /\ window' \in [Sessions -> {"new", "connected", "quit", "lost"}]
           /\ asked' \in [Actors -> Updates \cup {NoUpdate}]
           /\ answer' \in [Actors -> {"none", "ok", "error"}]
           /\ job' \in [Writers -> [pc : Stages, mirror : Mirrors]]
           /\ \A b \in Actors : asked'[b] = NoUpdate <=> job'[b].pc = "idle"
           /\ job'[Startup] = job[Startup]
<1>1. window' \in [Sessions -> {"new", "connected", "quit", "lost"}]
  BY WriterShape DEF Return, Remembered, TypeInv, TypeOK
<1>2. job' \in [Writers -> [pc : Stages, mirror : Mirrors]]
  BY NoJobType, WriterShape DEF Return, TypeInv, TypeOK
<1>3. \A b \in Actors : asked'[b] = NoUpdate <=> job'[b].pc = "idle"
  BY WriterShape DEF Return, TypeInv, TypeOK, NoJob
<1> QED
  BY <1>1, <1>2, <1>3, WriterShape DEF Return, TypeInv, TypeOK

LEMMA TypeFail ==
    ASSUME TypeInv, NEW a \in Writers, Fail(a)
    PROVE  /\ window' \in [Sessions -> {"new", "connected", "quit", "lost"}]
           /\ asked' \in [Actors -> Updates \cup {NoUpdate}]
           /\ answer' \in [Actors -> {"none", "ok", "error"}]
           /\ job' \in [Writers -> [pc : Stages, mirror : Mirrors]]
           /\ broker' \in {"down", "starting", "up"}
           /\ \A b \in Actors : asked'[b] = NoUpdate <=> job'[b].pc = "idle"
           /\ job'[Startup].pc # "asked"
<1>1. job' \in [Writers -> [pc : Stages, mirror : Mirrors]]
  BY NoJobType DEF Fail, TypeInv, TypeOK
<1>2. job'[Startup].pc # "asked"
  BY WriterShape DEF Fail, TypeInv, TypeOK, NoJob, Writers
<1>3. \A b \in Actors : asked'[b] = NoUpdate <=> job'[b].pc = "idle"
  BY WriterShape DEF Fail, TypeInv, TypeOK, NoJob
<1> QED
  BY <1>1, <1>2, <1>3, WriterShape DEF Fail, TypeInv, TypeOK

LEMMA TypeNext == TypeInv /\ [Next]_vars => TypeInv'
<1> SUFFICES ASSUME TypeInv, [Next]_vars PROVE TypeInv'
  OBVIOUS
<1>1. ASSUME NEW a \in Actors, NEW u \in Updates, Ask(a, u) PROVE TypeInv'
  <2>1. job' \in [Writers -> [pc : Stages, mirror : Mirrors]]
    BY <1>1 DEF Ask, TypeInv, TypeOK, Stages
  <2>2. job'[Startup] = job[Startup] /\ job'[a].pc = "asked" /\ asked'[a] = u
    BY <1>1, WriterShape DEF Ask, TypeInv, TypeOK
  <2>3. \A b \in Actors : b # a => job'[b] = job[b] /\ asked'[b] = asked[b]
    BY <1>1, WriterShape DEF Ask, TypeInv, TypeOK
  <2> QED
    BY <1>1, <2>1, <2>2, <2>3, MarksAssumption DEF Ask, TypeInv, TypeOK
<1>2. ASSUME NEW a \in Actors, Load(a) PROVE TypeInv'
  <2>1. asked[a] # NoUpdate /\ asked[a] \in Updates /\ a \in Writers
    BY <1>2, WriterShape DEF Load, TypeInv, TypeOK
  <2>2. CASE Fail(a)
    BY <1>2, <2>1, <2>2, TypeFail DEF Load, TypeInv, TypeOK
  <2>3. CASE Return(a) /\ UNCHANGED broker
    BY <1>2, <2>1, <2>3, TypeReturn DEF Load, TypeInv, TypeOK
  <2>4. CASE /\ file # Unreadable /\ UNCHANGED <<broker, window, asked, answer>>
             /\ job' = [job EXCEPT ![a] = [pc |-> "loaded", mirror |->
                  [file EXCEPT ![asked[a].session] = Applied(asked[a], @)]]]
    <3> DEFINE m == [file EXCEPT ![asked[a].session] = Applied(asked[a], @)]
    <3>1. file \in Mirrors /\ asked[a].session \in Sessions
      BY <2>1, <2>4, UpdateShape DEF TypeInv, TypeOK
    <3>2. file[asked[a].session] \in Slots
      BY <3>1 DEF Mirrors, Slots
    <3>3. m \in Mirrors
      BY <2>1, <3>1, <3>2, AppliedType DEF Mirrors, Slots
    <3>4. job' \in [Writers -> [pc : Stages, mirror : Mirrors]]
      BY <2>1, <2>4, <3>3 DEF TypeInv, TypeOK, Stages
    <3>5. job'[a].pc = "loaded" /\ \A b \in Writers : b # a => job'[b] = job[b]
      BY <2>1, <2>4 DEF TypeInv, TypeOK
    <3> HIDE DEF m
    <3> QED
      BY <1>2, <2>1, <2>4, <3>4, <3>5, WriterShape DEF Load, TypeInv, TypeOK
  <2> QED
    BY <1>2, <2>2, <2>3, <2>4 DEF Load
<1>3. ASSUME NEW a \in Writers, OpenTmp(a) \/ WriteTmp(a) \/ Rename(a) PROVE TypeInv'
  <2>1. job[a] \in [pc : Stages, mirror : Mirrors] /\ job[a].pc # "idle" /\ job[a].pc # "asked"
    BY <1>3 DEF TypeInv, TypeOK, OpenTmp, WriteTmp, Rename
  <2>2. file' \in Mirrors \cup {Unreadable} /\ tmp' \in Mirrors \cup {Unreadable, Empty, Absent}
    BY <1>3, <2>1 DEF TypeInv, TypeOK, OpenTmp, WriteTmp, Rename, Overwritten
  <2>3. CASE Fail(a)
    BY <2>2, <2>3, TypeFail DEF TypeInv, TypeOK
  <2>4. CASE a \in Actors /\ Return(a) /\ UNCHANGED broker
    <3>1. asked[a] # NoUpdate
      BY <2>1, <2>4 DEF TypeInv
    <3> QED
      BY <2>2, <2>4, <3>1, TypeReturn DEF TypeInv, TypeOK
  <2>5. CASE /\ \/ job' = [job EXCEPT ![a].pc = "opened"]
                \/ job' = [job EXCEPT ![a].pc = "written"]
             /\ UNCHANGED <<broker, window, asked, answer>>
    <3>1. job' \in [Writers -> [pc : Stages, mirror : Mirrors]]
      BY <2>1, <2>5 DEF TypeInv, TypeOK, Stages
    <3>2. job'[a].pc \in {"opened", "written"} /\ \A b \in Writers : b # a => job'[b] = job[b]
      BY <2>5 DEF TypeInv, TypeOK
    <3> QED
      BY <2>1, <2>2, <2>5, <3>1, <3>2, WriterShape DEF TypeInv, TypeOK
  <2>6. CASE /\ a = Startup /\ broker' = "up" /\ job' = [job EXCEPT ![a] = NoJob]
             /\ UNCHANGED <<asked, answer, window>>
    <3>1. job' \in [Writers -> [pc : Stages, mirror : Mirrors]]
      BY <2>6, NoJobType DEF TypeInv, TypeOK
    <3>2. job'[Startup].pc = "idle" /\ \A b \in Actors : job'[b] = job[b]
      BY <2>6, WriterShape DEF TypeInv, TypeOK, NoJob
    <3> QED
      BY <2>2, <2>6, <3>1, <3>2 DEF TypeInv, TypeOK
  <2> QED
    BY <1>3, <2>3, <2>4, <2>5, <2>6, WriterShape DEF OpenTmp, WriteTmp, Rename
<1>4. ASSUME NEW s \in Sessions, HandleHostDisconnect(s) PROVE TypeInv'
  BY <1>4 DEF HandleHostDisconnect, TypeInv, TypeOK
<1>5. CASE Reset
  <2>1. job' \in [Writers -> [pc : Stages, mirror : Mirrors]]
    BY <1>5, NoJobType DEF Reset, TypeInv, TypeOK, Stages
  <2>2. job'[Startup].pc = "loaded" /\ \A b \in Actors : job'[b] = job[b]
    BY <1>5, WriterShape DEF Reset, TypeInv, TypeOK, Writers
  <2> QED
    BY <1>5, <2>1, <2>2 DEF Reset, TypeInv, TypeOK
<1>6. CASE Crash
  BY <1>6, NoJobType, WriterShape DEF Crash, TypeInv, TypeOK, NoJob, Writers
<1>7. CASE UNCHANGED vars
  BY <1>7 DEF vars, TypeInv, TypeOK
<1> QED
  BY <1>1, <1>2, <1>3, <1>4, <1>5, <1>6, <1>7 DEF Next

(* The files and handlers keep their types, overlapping handlers, failures
   and crashes included. *)
THEOREM TypeCorrect == Spec => []TypeOK
<1>1. TypeInv => TypeOK
  BY DEF TypeInv
<1> QED
  BY <1>1, TypeInit, TypeNext, PTL DEF Spec
--------------------------------------------------------------------------------
(* Sections that exclude each other *)

(* With the switch off nobody enters the section while somebody is in it. *)
LEMMA ExclusiveSections ==
    ASSUME Overlap = FALSE PROVE Spec => []OneSection
<1> DEFINE Down == broker = "down" => \A a \in Writers : job[a].pc = "idle"
           Up == job[Startup].pc # "idle" => broker = "starting"
           Closed == broker = "starting" => \A a \in Actors : job[a].pc = "idle"
           I == TypeInv /\ OneSection /\ Down /\ Up /\ Closed
<1>1. Init => I
  <2> SUFFICES ASSUME Init PROVE I
    OBVIOUS
  <2>1. \A a \in Writers : job[a].pc = "idle"
    BY DEF Init, NoJob
  <2> QED
    BY <2>1, TypeInit, WriterShape DEF OneSection, InSection, Section, Init
<1>2. I /\ [Next]_vars => I'
  <2> SUFFICES ASSUME I, [Next]_vars PROVE I'
    OBVIOUS
  <2>0. TypeInv'
    BY TypeNext
  <2>1. ASSUME NEW a \in Actors, NEW u \in Updates, Ask(a, u) PROVE I'
    <3>1. a \in Writers /\ job'[a].pc = "asked" /\ broker = "up" /\ broker' = "up"
      BY <2>1, WriterShape DEF Ask, TypeInv, TypeOK
    <3>2. \A b \in Writers : b # a => job'[b] = job[b]
      BY <2>1 DEF Ask, TypeInv, TypeOK
    <3> QED
      BY <2>0, <3>1, <3>2, WriterShape DEF OneSection, InSection, Section
  <2>2. ASSUME NEW a \in Writers, job[a].pc # "idle", job'[a].pc = "idle",
               \A b \in Writers : b # a => job'[b] = job[b],
               broker' = broker \/ (a = Startup /\ broker' = "up")
        PROVE  I'
    <3>1. OneSection'
      BY <2>2 DEF OneSection, InSection, Section
    <3>2. broker # "down" /\ broker' # "down"
      BY <2>2
    <3>3. Up'
      BY <2>2, WriterShape
    <3> QED
      BY <2>0, <2>2, <3>1, <3>2, <3>3, WriterShape
  <2>3. ASSUME NEW a \in Writers, job[a].pc \in Section, job'[a].pc \in Section, UNCHANGED broker,
               \A b \in Writers : b # a => job'[b] = job[b]
        PROVE  I'
    BY <2>0, <2>3, WriterShape DEF OneSection, InSection, Section
  <2>4. ASSUME NEW a \in Writers, Fail(a), job[a].pc # "idle" PROVE I'
    <3>1. job'[a].pc = "idle" /\ \A b \in Writers : b # a => job'[b] = job[b]
      BY <2>4 DEF Fail, TypeInv, TypeOK, NoJob
    <3>2. broker' = broker \/ (a = Startup /\ broker' = "up")
      BY <2>4 DEF Fail
    <3> QED
      BY <2>2, <2>4, <3>1, <3>2
  <2>5. ASSUME NEW a \in Actors, Return(a), UNCHANGED broker, job[a].pc # "idle" PROVE I'
    <3>1. a \in Writers /\ job'[a].pc = "idle" /\ \A b \in Writers : b # a => job'[b] = job[b]
      BY <2>5, WriterShape DEF Return, TypeInv, TypeOK, NoJob
    <3> QED
      BY <2>2, <2>5, <3>1
  <2>6. ASSUME NEW a \in Actors, Load(a) PROVE I'
    <3>1. a \in Writers /\ job[a].pc = "asked"
      BY <2>6, WriterShape DEF Load
    <3>2. CASE /\ UNCHANGED broker
               /\ \A b \in Writers : ~InSection(b)
               /\ job' = [job EXCEPT ![a] = [pc |-> "loaded", mirror |->
                    [file EXCEPT ![asked[a].session] = Applied(asked[a], @)]]]
      <4>1. job'[a].pc = "loaded" /\ \A b \in Writers : b # a => job'[b] = job[b]
        BY <3>1, <3>2 DEF TypeInv, TypeOK
      <4> QED
        BY <2>0, <3>1, <3>2, <4>1, WriterShape DEF OneSection, InSection, Section
    <3> QED
      BY <2>4, <2>5, <2>6, <3>1, <3>2 DEF Load
  <2>7. ASSUME NEW a \in Writers, OpenTmp(a) \/ WriteTmp(a) \/ Rename(a) PROVE I'
    <3>1. job[a].pc \in Section
      BY <2>7 DEF OpenTmp, WriteTmp, Rename, Section
    <3>2. job[a].pc # "idle"
      BY <3>1 DEF Section
    <3>3. CASE /\ UNCHANGED broker
               /\ \/ job' = [job EXCEPT ![a].pc = "opened"]
                  \/ job' = [job EXCEPT ![a].pc = "written"]
      <4>1. job'[a].pc \in Section /\ \A b \in Writers : b # a => job'[b] = job[b]
        BY <3>3 DEF TypeInv, TypeOK, Section
      <4> QED
        BY <2>3, <3>1, <3>3, <4>1
    <3>4. CASE a = Startup /\ broker' = "up" /\ job' = [job EXCEPT ![a] = NoJob]
      <4>1. job'[a].pc = "idle" /\ \A b \in Writers : b # a => job'[b] = job[b]
        BY <3>4 DEF TypeInv, TypeOK, NoJob
      <4> QED
        BY <2>2, <3>2, <3>4, <4>1
    <3>5. CASE a # Startup /\ Return(a) /\ UNCHANGED broker
      BY <2>5, <3>2, <3>5, WriterShape
    <3> QED
      BY <2>4, <2>7, <3>2, <3>3, <3>4, <3>5 DEF OpenTmp, WriteTmp, Rename
  <2>8. ASSUME NEW s \in Sessions, HandleHostDisconnect(s) PROVE I'
    BY <2>0, <2>8 DEF HandleHostDisconnect, OneSection, InSection
  <2>9. CASE Reset
    <3>1. \A b \in Writers : job[b].pc = "idle" /\ (b # Startup => job'[b] = job[b])
      BY <2>9 DEF Reset, TypeInv, TypeOK
    <3>2. broker' = "starting" /\ OneSection'
      BY <2>9, <3>1 DEF Reset, OneSection, InSection, Section
    <3> QED
      BY <2>0, <3>1, <3>2, WriterShape
  <2>10. CASE Crash
    <3>1. \A b \in Writers : job'[b].pc = "idle"
      BY <2>10 DEF Crash, NoJob
    <3> QED
      BY <2>0, <3>1, WriterShape DEF OneSection, InSection, Section
  <2>11. CASE UNCHANGED vars
    BY <2>0, <2>11 DEF vars, OneSection, InSection
  <2> QED
    BY <2>1, <2>6, <2>7, <2>8, <2>9, <2>10, <2>11 DEF Next
<1>3. I => OneSection
  OBVIOUS
<1> QED
  BY <1>1, <1>2, <1>3, PTL DEF Spec
--------------------------------------------------------------------------------
(* One section at a time *)

(* What the caller of a handler is while the handler works. *)
Entitled(a) ==
    /\ asked[a].session = a[1]
    /\ a \in Hosts => window[a[1]] = (IF asked[a].op = "register" THEN "new" ELSE "connected")
    /\ a \in Gateways => asked[a].op = "record_thread"

(* The file with a handler's update in it. *)
Updated(a) == [file EXCEPT ![asked[a].session] = Applied(asked[a], @)]

CallersEntitled == \A a \in Actors : asked[a] # NoUpdate => Entitled(a)

JobsHoldUpdate ==
    /\ \A a \in Actors : InSection(a) => job[a].mirror = Updated(a)
    /\ job[Startup].pc # "idle" => job[Startup].mirror = NoSessions

TmpHoldsJob ==
    \A a \in Writers :
        /\ job[a].pc = "opened" => tmp = Empty
        /\ job[a].pc = "written" => tmp = job[a].mirror

BrokerKnown ==
    /\ job[Startup].pc # "idle" <=> broker = "starting"
    /\ broker # "up" => \A a \in Actors : job[a].pc = "idle"
    /\ broker # "up" => \A s \in Sessions : window[s] # "connected"

RecordsMatch ==
    \A s \in Sessions :
        /\ window[s] = "connected" => file[s] # NoRecord
        /\ window[s] \in {"new", "quit"} => file[s] = NoRecord

SoloInv ==
    /\ TypeInv
    /\ file \in Mirrors
    /\ CallersEntitled /\ JobsHoldUpdate /\ TmpHoldsJob
    /\ BrokerKnown /\ RecordsMatch

LEMMA SoloInit == Init => SoloInv
<1> SUFFICES ASSUME Init PROVE SoloInv
  OBVIOUS
<1>1. \A a \in Writers : job[a].pc = "idle"
  BY DEF Init, NoJob
<1> QED
  BY <1>1, TypeInit, NoJobType, WriterShape
     DEF Init, SoloInv, CallersEntitled, JobsHoldUpdate, TmpHoldsJob, BrokerKnown,
         RecordsMatch, InSection, Section, NoSessions

(* An update keeps a record where there is one, and makes none where there is
   none, unless it registers or unregisters the window. *)
LEMMA AppliedKeeps ==
    ASSUME NEW u \in Updates, NEW r \in Slots
    PROVE  /\ u.op \notin {"register", "unregister"} => (Applied(u, r) = NoRecord <=> r = NoRecord)
           /\ u.op = "register" => Applied(u, r) # NoRecord
           /\ u.op = "unregister" => Applied(u, r) = NoRecord
<1>1. \A x \in Records : x # NoRecord
  BY MarksAssumption
<1>2. \A state \in States : UpdateState(r, state) = NoRecord <=> r = NoRecord
  BY <1>1 DEF Slots, UpdateState, Records
<1>3. RegisterHost(r) # NoRecord
  BY <1>1 DEF Slots, RegisterHost, Records, States
<1>4. (ReturnHome(r) = NoRecord <=> r = NoRecord) /\ (PrepareLaunch(r) = NoRecord <=> r = NoRecord)
  BY <1>2 DEF ReturnHome, PrepareLaunch, States
<1>5. \A t \in Threads : RecordThread(r, t) = NoRecord <=> r = NoRecord
  BY <1>1 DEF Slots, RecordThread, Records
<1> QED
  BY <1>2, <1>3, <1>4, <1>5, UpdateShape DEF Applied, Unregister

(* A writer that leaves the manager takes nothing from the others: it wrote
   the files, if at all, in the section, where it was alone. *)
LEMMA SoloLeave ==
    ASSUME SoloInv, OneSection, NEW a \in Writers, job'[a].pc = "idle",
           \A b \in Writers : b # a => job'[b] = job[b],
           \A b \in Actors : b # a => asked'[b] = asked[b],
           UNCHANGED <<file, tmp>> \/ InSection(a)
    PROVE  JobsHoldUpdate' /\ TmpHoldsJob'
<1>1. \A b \in Writers : b # a /\ InSection(b) => UNCHANGED <<file, tmp>>
  BY DEF OneSection
<1>2. TmpHoldsJob'
  BY <1>1 DEF SoloInv, TmpHoldsJob, InSection, Section
<1>3. ASSUME NEW b \in Actors, InSection(b)' PROVE (job[b].mirror = Updated(b))'
  <2>1. b \in Writers /\ b # a
    BY <1>3, WriterShape DEF InSection, Section
  <2>2. InSection(b) /\ file' = file /\ asked'[b] = asked[b] /\ job'[b] = job[b]
    BY <1>1, <1>3, <2>1 DEF InSection
  <2> QED
    BY <2>2 DEF SoloInv, JobsHoldUpdate, Updated
<1>4. (job[Startup].pc # "idle" => job[Startup].mirror = NoSessions)'
  BY WriterShape DEF SoloInv, JobsHoldUpdate
<1> QED
  BY <1>2, <1>3, <1>4 DEF JobsHoldUpdate

(* A step that fails leaves the files' promises as they are. *)
LEMMA SoloFail ==
    ASSUME SoloInv, OneSection, NEW a \in Writers, Fail(a), UNCHANGED file,
           job[a].pc # "idle", UNCHANGED tmp \/ InSection(a)
    PROVE  /\ CallersEntitled' /\ JobsHoldUpdate' /\ TmpHoldsJob'
           /\ BrokerKnown' /\ RecordsMatch'
<1>1. job'[a].pc = "idle" /\ \A b \in Writers : b # a => job'[b] = job[b]
  BY DEF SoloInv, TypeInv, TypeOK, Fail, NoJob
<1>2. \A b \in Actors : b # a => asked'[b] = asked[b]
  BY DEF SoloInv, TypeInv, TypeOK, Fail
<1>3. JobsHoldUpdate' /\ TmpHoldsJob'
  BY <1>1, <1>2, SoloLeave
<1>4. CASE a = Startup
  <2>1. broker' = "up" /\ UNCHANGED <<window, asked>>
    BY <1>4 DEF Fail
  <2>2. CallersEntitled' /\ BrokerKnown' /\ RecordsMatch'
    BY <1>1, <1>4, <2>1 DEF SoloInv, CallersEntitled, Entitled, BrokerKnown, RecordsMatch
  <2> QED
    BY <1>3, <2>2
<1>5. CASE a # Startup
  <2>1. a \in Actors /\ broker = "up" /\ broker' = "up"
    BY <1>5, WriterShape DEF SoloInv, BrokerKnown, Fail
  <2>2. asked'[a] = NoUpdate /\ asked[a] # NoUpdate /\ Entitled(a)
    BY <1>5, <2>1 DEF SoloInv, TypeInv, TypeOK, CallersEntitled, Fail
  <2>3. /\ asked[a].op = "register" => a \in Hosts /\ window' = [window EXCEPT ![a[1]] = "lost"]
        /\ asked[a].op # "register" => window' = window
    BY <1>5, <2>1, <2>2, WriterShape DEF Entitled, Fail
  <2>4. \A s \in Sessions : window'[s] = window[s] \/ window'[s] = "lost"
    BY <2>3 DEF SoloInv, TypeInv, TypeOK
  <2>5. CallersEntitled'
    <3> SUFFICES ASSUME NEW b \in Actors, asked'[b] # NoUpdate PROVE Entitled(b)'
      BY DEF CallersEntitled
    <3>1. b # a /\ asked'[b] = asked[b] /\ Entitled(b)
      BY <1>2, <2>2 DEF SoloInv, CallersEntitled
    <3>2. b \in Hosts => window'[b[1]] = window[b[1]]
      BY <2>3, <3>1, WriterShape DEF SoloInv, TypeInv, TypeOK
    <3> QED
      BY <3>1, <3>2 DEF Entitled
  <2>6. BrokerKnown'
    BY <1>1, <1>5, <2>1, WriterShape DEF SoloInv, BrokerKnown
  <2>7. RecordsMatch'
    BY <2>4 DEF SoloInv, RecordsMatch
  <2> QED
    BY <1>3, <2>5, <2>6, <2>7
<1> QED
  BY <1>4, <1>5

(* A handler that returns has its update in the file and its window known. *)
LEMMA SoloReturn ==
    ASSUME SoloInv, OneSection, NEW a \in Actors, Return(a), UNCHANGED broker,
           job[a].pc # "idle", file' = Updated(a), UNCHANGED <<file, tmp>> \/ InSection(a)
    PROVE  /\ CallersEntitled' /\ JobsHoldUpdate' /\ TmpHoldsJob'
           /\ BrokerKnown' /\ RecordsMatch'
<1> DEFINE u == asked[a]
           s == a[1]
<1>1. a \in Writers /\ s \in Sessions /\ u \in Updates /\ u # NoUpdate /\ Entitled(a)
  BY WriterShape DEF SoloInv, TypeInv, TypeOK, CallersEntitled
<1>2. job'[a].pc = "idle" /\ \A b \in Writers : b # a => job'[b] = job[b]
  BY <1>1 DEF SoloInv, TypeInv, TypeOK, Return, NoJob
<1>3. asked'[a] = NoUpdate /\ \A b \in Actors : b # a => asked'[b] = asked[b]
  BY <1>1 DEF SoloInv, TypeInv, TypeOK, Return
<1>4. JobsHoldUpdate' /\ TmpHoldsJob'
  BY <1>1, <1>2, <1>3, SoloLeave
<1>5. broker = "up" /\ BrokerKnown'
  BY <1>1, <1>2, WriterShape DEF SoloInv, BrokerKnown
<1>6. \A t \in Sessions : window'[t] = window[t] \/ (a \in Hosts /\ t = s)
  BY DEF Return, Remembered, SoloInv, TypeInv, TypeOK
<1>7. CallersEntitled'
  <2> SUFFICES ASSUME NEW b \in Actors, asked'[b] # NoUpdate PROVE Entitled(b)'
    BY DEF CallersEntitled
  <2>1. b # a /\ asked'[b] = asked[b] /\ Entitled(b)
    BY <1>3 DEF SoloInv, CallersEntitled
  <2>2. b \in Hosts => window'[b[1]] = window[b[1]]
    BY <1>6, <2>1, WriterShape
  <2> QED
    BY <2>1, <2>2 DEF Entitled
<1>8. file'[s] = Applied(u, file[s]) /\ \A t \in Sessions : t # s => file'[t] = file[t]
  BY <1>1 DEF Updated, Entitled, SoloInv, Mirrors
<1>9. file[s] \in Slots
  BY <1>1 DEF SoloInv, Mirrors, Slots
<1>10. CASE a \in Hosts
  <2>1. window[s] = IF u.op = "register" THEN "new" ELSE "connected"
    BY <1>1, <1>10 DEF Entitled
  <2>2. CASE u.op = "register"
    <3>1. window' = [window EXCEPT ![s] = "connected"] /\ file'[s] # NoRecord
      BY <1>1, <1>8, <1>9, <1>10, <2>2, AppliedKeeps DEF Return, Remembered
    <3> QED
      BY <1>1, <1>4, <1>5, <1>7, <1>8, <3>1 DEF RecordsMatch, SoloInv, TypeInv, TypeOK
  <2>3. CASE u.op = "unregister"
    <3>1. window' = [window EXCEPT ![s] = "quit"] /\ file'[s] = NoRecord
      BY <1>1, <1>8, <1>9, <1>10, <2>3, AppliedKeeps DEF Return, Remembered
    <3> QED
      BY <1>1, <1>4, <1>5, <1>7, <1>8, <3>1 DEF RecordsMatch, SoloInv, TypeInv, TypeOK
  <2>4. CASE u.op \notin {"register", "unregister"}
    <3>1. window' = window /\ (file'[s] = NoRecord <=> file[s] = NoRecord)
      BY <1>1, <1>8, <1>9, <1>10, <2>4, AppliedKeeps DEF Return, Remembered
    <3> QED
      BY <1>1, <1>4, <1>5, <1>7, <1>8, <3>1 DEF RecordsMatch, SoloInv
  <2> QED
    BY <2>2, <2>3, <2>4
<1>11. CASE a \in Gateways
  <2>1. u.op = "record_thread" /\ window' = window
    BY <1>1, <1>11, WriterShape DEF Entitled, Return, Remembered
  <2>2. file'[s] = NoRecord <=> file[s] = NoRecord
    BY <1>1, <1>8, <1>9, <2>1, AppliedKeeps
  <2> QED
    BY <1>1, <1>4, <1>5, <1>7, <1>8, <2>1, <2>2 DEF RecordsMatch, SoloInv
<1> QED
  BY <1>10, <1>11, WriterShape

(* A handler whose window has no record has nothing to change. *)
LEMMA NothingToSave ==
    ASSUME SoloInv, NEW a \in Actors, asked[a] # NoUpdate, ~NeedsSave(asked[a], file)
    PROVE  file = Updated(a)
<1>1. asked[a] \in Updates /\ asked[a].session \in Sessions
  BY UpdateShape DEF SoloInv, TypeInv, TypeOK
<1>2. file[asked[a].session] = NoRecord /\ asked[a].op # "register"
  BY DEF NeedsSave
<1>3. Applied(asked[a], NoRecord) = NoRecord
  BY <1>1, <1>2, AppliedKeeps DEF Slots
<1> QED
  BY <1>1, <1>2, <1>3 DEF Updated, SoloInv, Mirrors

LEMMA SoloNext == SoloInv /\ OneSection /\ [Next]_vars => SoloInv'
<1> SUFFICES ASSUME SoloInv, OneSection, [Next]_vars PROVE SoloInv'
  OBVIOUS
<1>0. TypeInv'
  BY TypeNext DEF SoloInv
<1>1. ASSUME NEW a \in Actors, NEW u \in Updates, Ask(a, u) PROVE SoloInv'
  <2>1. a \in Writers /\ u.session = a[1] /\ u # NoUpdate /\ broker = "up"
    BY <1>1, WriterShape, MarksAssumption DEF Ask
  <2>2. job'[a].pc = "asked" /\ asked'[a] = u /\ job[a].pc = "idle"
    BY <1>1, <2>1, WriterShape DEF Ask, SoloInv, TypeInv, TypeOK
  <2>3. \A b \in Writers : b # a => job'[b] = job[b]
    BY <1>1, <2>1 DEF Ask, SoloInv, TypeInv, TypeOK
  <2>4. \A b \in Actors : b # a => asked'[b] = asked[b]
    BY <1>1 DEF Ask, SoloInv, TypeInv, TypeOK
  <2>5. JobsHoldUpdate' /\ TmpHoldsJob'
    <3>1. ASSUME NEW b \in Actors, InSection(b)' PROVE (job[b].mirror = Updated(b))'
      <4>1. b # a /\ b \in Writers
        BY <2>2, <3>1, WriterShape DEF InSection, Section
      <4> QED
        BY <1>1, <2>3, <2>4, <3>1, <4>1 DEF SoloInv, JobsHoldUpdate, Updated, InSection, Ask
    <3>2. TmpHoldsJob' /\ (job'[Startup].pc # "idle" => job'[Startup].mirror = NoSessions)
      BY <1>1, <2>1, <2>2, <2>3, WriterShape DEF SoloInv, JobsHoldUpdate, TmpHoldsJob, Ask
    <3> QED
      BY <3>1, <3>2 DEF JobsHoldUpdate
  <2>6. Entitled(a)'
    <3>1. a \in Gateways => u.op = "record_thread"
      BY <1>1, WriterShape DEF Ask, GatewayUpdates
    <3> QED
      BY <1>1, <2>1, <2>2, <3>1, WriterShape DEF Ask, Entitled
  <2>7. CallersEntitled'
    BY <1>1, <2>4, <2>6 DEF SoloInv, CallersEntitled, Entitled, Ask
  <2>8. BrokerKnown' /\ RecordsMatch'
    BY <1>1, <2>1, <2>2, <2>3, WriterShape DEF Ask, SoloInv, BrokerKnown, RecordsMatch
  <2> QED
    BY <1>0, <1>1, <2>5, <2>7, <2>8 DEF SoloInv, Ask
<1>2. ASSUME NEW a \in Actors, Load(a) PROVE SoloInv'
  <2>1. a \in Writers /\ job[a].pc = "asked" /\ UNCHANGED <<file, tmp>>
    BY <1>2, WriterShape DEF Load
  <2>2. CASE Fail(a)
    BY <1>0, <2>1, <2>2, SoloFail DEF SoloInv
  <2>3. CASE ~NeedsSave(asked[a], file) /\ Return(a) /\ UNCHANGED broker
    <3>1. asked[a] # NoUpdate
      BY <2>1 DEF SoloInv, TypeInv
    <3>2. file' = Updated(a)
      BY <2>1, <2>3, <3>1, NothingToSave
    <3> QED
      BY <1>0, <2>1, <2>3, <3>2, SoloReturn DEF SoloInv
  <2>4. CASE /\ UNCHANGED <<broker, window, asked, answer>>
             /\ job' = [job EXCEPT ![a] = [pc |-> "loaded", mirror |->
                  [file EXCEPT ![asked[a].session] = Applied(asked[a], @)]]]
    <3>1. /\ job'[a] = [pc |-> "loaded", mirror |-> Updated(a)]
          /\ \A b \in Writers : b # a => job'[b] = job[b]
      BY <2>1, <2>4 DEF SoloInv, TypeInv, TypeOK, Updated
    <3>2. TmpHoldsJob' /\ CallersEntitled'
      BY <2>1, <2>4, <3>1 DEF SoloInv, TmpHoldsJob, CallersEntitled, Entitled
    <3>3. \A b \in Actors : Updated(b)' = Updated(b)
      BY <2>1, <2>4 DEF Updated
    <3>4. JobsHoldUpdate'
      BY <3>1, <3>3, WriterShape DEF SoloInv, JobsHoldUpdate, InSection
    <3>5. BrokerKnown' /\ RecordsMatch'
      BY <2>1, <2>4, <3>1, WriterShape DEF SoloInv, BrokerKnown, RecordsMatch
    <3> QED
      BY <1>0, <2>1, <3>2, <3>4, <3>5 DEF SoloInv
  <2> QED
    BY <1>2, <2>2, <2>3, <2>4 DEF Load
<1>3. ASSUME NEW a \in Writers, OpenTmp(a) \/ WriteTmp(a) PROVE SoloInv'
  <2>1. job[a].pc \in {"loaded", "opened"} /\ UNCHANGED file /\ InSection(a)
    BY <1>3 DEF OpenTmp, WriteTmp, InSection, Section
  <2>2. CASE Fail(a)
    BY <1>0, <2>1, <2>2, SoloFail DEF SoloInv
  <2>3. CASE /\ UNCHANGED <<broker, window, asked, answer>>
             /\ \/ tmp' = Empty /\ job' = [job EXCEPT ![a].pc = "opened"]
                \/ tmp' = job[a].mirror /\ job' = [job EXCEPT ![a].pc = "written"]
    <3>1. /\ job'[a].mirror = job[a].mirror
          /\ \/ tmp' = Empty /\ job'[a].pc = "opened"
             \/ tmp' = job[a].mirror /\ job'[a].pc = "written"
          /\ \A b \in Writers : b # a => job'[b] = job[b] /\ ~InSection(b)
      BY <2>1, <2>3 DEF SoloInv, TypeInv, TypeOK, OneSection
    <3>2. TmpHoldsJob' /\ CallersEntitled'
      BY <2>1, <2>3, <3>1
         DEF SoloInv, TmpHoldsJob, CallersEntitled, Entitled, InSection, Section
    <3>3. \A b \in Actors : Updated(b)' = Updated(b)
      BY <2>1, <2>3 DEF Updated
    <3>4. JobsHoldUpdate'
      BY <2>1, <2>3, <3>1, <3>3, WriterShape DEF SoloInv, JobsHoldUpdate, InSection
    <3>5. BrokerKnown' /\ RecordsMatch'
      BY <2>1, <2>3, <3>1, WriterShape DEF SoloInv, BrokerKnown, RecordsMatch
    <3> QED
      BY <1>0, <2>1, <3>2, <3>4, <3>5 DEF SoloInv
  <2>4. job[a].pc = "opened" => tmp = Empty
    BY DEF SoloInv, TmpHoldsJob
  <2> QED
    BY <1>3, <2>2, <2>3, <2>4 DEF OpenTmp, WriteTmp, Overwritten
<1>4. ASSUME NEW a \in Writers, Rename(a) PROVE SoloInv'
  <2>1. job[a].pc = "written" /\ tmp = job[a].mirror /\ tmp \in Mirrors /\ InSection(a)
    BY <1>4 DEF Rename, SoloInv, TypeInv, TypeOK, TmpHoldsJob, InSection, Section
  <2>2. CASE Fail(a) /\ UNCHANGED file
    BY <1>0, <2>1, <2>2, SoloFail DEF SoloInv
  <2>3. CASE a \in Actors /\ Return(a) /\ UNCHANGED broker /\ file' = tmp
    <3>1. file' = Updated(a)
      BY <2>1, <2>3 DEF SoloInv, JobsHoldUpdate
    <3> QED
      BY <1>0, <2>1, <2>3, <3>1, SoloReturn DEF SoloInv
  <2>4. CASE /\ a = Startup /\ file' = tmp /\ broker' = "up"
             /\ job' = [job EXCEPT ![a] = NoJob] /\ UNCHANGED <<asked, answer, window>>
    <3>1. /\ job'[a].pc = "idle" /\ broker = "starting"
          /\ \A b \in Writers : b # a => job'[b] = job[b]
      BY <2>1, <2>4 DEF SoloInv, TypeInv, TypeOK, NoJob, BrokerKnown
    <3>2. file' = NoSessions
      BY <2>1, <2>4 DEF SoloInv, JobsHoldUpdate
    <3>3. JobsHoldUpdate' /\ TmpHoldsJob'
      BY <2>1, <2>4, <3>1, SoloLeave
    <3>4. CallersEntitled' /\ BrokerKnown'
      BY <2>4, <3>1, WriterShape DEF SoloInv, CallersEntitled, Entitled, BrokerKnown
    <3>5. RecordsMatch'
      BY <2>4, <3>1, <3>2 DEF SoloInv, BrokerKnown, RecordsMatch, NoSessions
    <3> QED
      BY <1>0, <2>1, <2>4, <3>3, <3>4, <3>5 DEF SoloInv
  <2> QED
    BY <1>4, <2>1, <2>2, <2>3, <2>4, WriterShape, ContentsAssumption DEF Rename
<1>5. ASSUME NEW s \in Sessions, HandleHostDisconnect(s) PROVE SoloInv'
  <2>1. window[s] = "connected" /\ job[<<s, "host">>].pc = "idle" /\ window'[s] = "lost"
    BY <1>5 DEF HandleHostDisconnect, SoloInv, TypeInv, TypeOK
  <2>2. \A t \in Sessions : t # s => window'[t] = window[t]
    BY <1>5 DEF HandleHostDisconnect, SoloInv, TypeInv, TypeOK
  <2>3. asked[<<s, "host">>] = NoUpdate
    BY <2>1, WriterShape DEF SoloInv, TypeInv
  <2>4. CallersEntitled'
    <3> SUFFICES ASSUME NEW a \in Actors, asked[a] # NoUpdate PROVE Entitled(a)'
      BY <1>5 DEF CallersEntitled, HandleHostDisconnect
    <3>1. Entitled(a) /\ a # <<s, "host">>
      BY <2>3 DEF SoloInv, CallersEntitled
    <3>2. a \in Hosts => a[1] # s /\ a[1] \in Sessions
      BY <3>1, WriterShape
    <3> QED
      BY <1>5, <2>2, <3>1, <3>2 DEF Entitled, HandleHostDisconnect
  <2>5. BrokerKnown' /\ RecordsMatch'
    BY <1>5, <2>1, <2>2 DEF HandleHostDisconnect, SoloInv, BrokerKnown, RecordsMatch
  <2> QED
    BY <1>0, <1>5, <2>4, <2>5
       DEF HandleHostDisconnect, SoloInv, JobsHoldUpdate, InSection, TmpHoldsJob, Updated
<1>6. CASE Reset
  <2>1. \A b \in Actors : job[b].pc = "idle"
    BY <1>6 DEF Reset, SoloInv, BrokerKnown
  <2>2. /\ job'[Startup] = [pc |-> "loaded", mirror |-> NoSessions]
        /\ \A b \in Actors : job'[b].pc = "idle"
    BY <1>6, <2>1, WriterShape DEF Reset, SoloInv, TypeInv, TypeOK
  <2>3. JobsHoldUpdate' /\ TmpHoldsJob'
    BY <2>2, WriterShape DEF JobsHoldUpdate, TmpHoldsJob, InSection, Section
  <2>4. CallersEntitled' /\ BrokerKnown' /\ RecordsMatch'
    BY <1>6, <2>1, <2>2, WriterShape
       DEF Reset, SoloInv, TypeInv, CallersEntitled, BrokerKnown, RecordsMatch
  <2> QED
    BY <1>0, <1>6, <2>3, <2>4 DEF SoloInv, Reset
<1>7. CASE Crash
  <2>1. \A b \in Writers : job'[b].pc = "idle"
    BY <1>7 DEF Crash, NoJob
  <2>2. \A b \in Actors : asked'[b] = NoUpdate
    BY <1>7 DEF Crash
  <2>3. \A s \in Sessions : window'[s] # "connected" /\ window'[s] \in {window[s], "lost"}
    BY <1>7 DEF Crash
  <2>4. JobsHoldUpdate' /\ TmpHoldsJob' /\ CallersEntitled'
    BY <2>1, <2>2, WriterShape
       DEF JobsHoldUpdate, TmpHoldsJob, CallersEntitled, InSection, Section
  <2>5. BrokerKnown' /\ RecordsMatch'
    BY <1>7, <2>1, <2>3, WriterShape DEF Crash, SoloInv, BrokerKnown, RecordsMatch
  <2> QED
    BY <1>0, <1>7, <2>4, <2>5 DEF SoloInv, Crash
<1>8. CASE UNCHANGED vars
  BY <1>0, <1>8 DEF vars, SoloInv, CallersEntitled, Entitled, JobsHoldUpdate, Updated,
     InSection, TmpHoldsJob, BrokerKnown, RecordsMatch
<1> QED
  BY <1>1, <1>2, <1>3, <1>4, <1>5, <1>6, <1>7, <1>8 DEF Next

(* As long as no two load-to-rename sections overlap, sessions.json mirrors the
   live windows, however many handlers are under way, whatever fails and
   whenever the broker dies: the section is all that a lock would have to
   cover. *)
THEOREM MirrorsTrue == Spec /\ []OneSection => []MirrorsLiveSessions
<1>1. SoloInv => MirrorsLiveSessions
  BY ContentsAssumption DEF SoloInv, RecordsMatch, MirrorsLiveSessions
<1> QED
  BY <1>1, SoloInit, SoloNext, PTL DEF Spec
(* The promise speaks of the same windows and updates as the handlers. *)
LEMMA StoreSame ==
    /\ Store!Actors = Actors
    /\ Store!Updates = Updates
    /\ \A u, r : Store!Applied(u, r) = Applied(u, r)
<1>1. Store!Actors = Actors
  BY DEF Store!Actors, Store!Hosts, Store!Gateways, Actors, Hosts, Gateways
<1>2. Store!Updates = Updates
  <2>1. \A s : Store!HostUpdates(s) = HostUpdates(s) /\ Store!GatewayUpdates(s) = GatewayUpdates(s)
    BY DEF Store!HostUpdates, Store!GatewayUpdates, HostUpdates, GatewayUpdates, Store!States, States
  <2> QED
    BY <2>1 DEF Store!Updates, Updates
<1>3. ASSUME NEW u, NEW r PROVE Store!Applied(u, r) = Applied(u, r)
  <2>1. \A state : Store!UpdateState(r, state) = UpdateState(r, state)
    BY DEF Store!UpdateState, UpdateState
  <2>2. \A thread : Store!RecordThread(r, thread) = RecordThread(r, thread)
    BY DEF Store!RecordThread, RecordThread
  <2>3. Store!RegisterHost(r) = RegisterHost(r) /\ Store!Unregister(r) = Unregister(r)
    BY DEF Store!RegisterHost, RegisterHost, Store!Unregister, Unregister
  <2>4. Store!ReturnHome(r) = ReturnHome(r) /\ Store!PrepareLaunch(r) = PrepareLaunch(r)
    BY <2>1 DEF Store!ReturnHome, ReturnHome, Store!PrepareLaunch, PrepareLaunch
  <2> QED
    BY <2>1, <2>2, <2>3, <2>4 DEF Store!Applied, Applied
<1> QED
  BY <1>1, <1>2, <1>3

(* Under the same hypothesis the handlers implement SessionStore: an update is
   done whole or refused, and a call that fails or dies has changed nothing. *)
THEOREM StoreRefinement == Spec /\ []OneSection => ImplementsSessionStore
<1>1. Init => Store!Init
  BY StoreSame DEF Init, Store!Init, NoSessions
<1>2. SoloInv /\ [Next]_vars => [Store!Next]_(Store!vars)
  <2> SUFFICES ASSUME SoloInv, [Next]_vars PROVE [Store!Next]_(Store!vars)
    OBVIOUS
  <2>1. ASSUME NEW a \in Writers, Fail(a), UNCHANGED file, job[a].pc # "idle"
        PROVE  [Store!Next]_(Store!vars)
    <3>1. CASE a = Startup
      BY <2>1, <3>1 DEF Fail, Store!vars
    <3>2. CASE a \in Actors
      <4>1. Store!Refuse(a)
        BY <2>1, <3>2, WriterShape DEF Fail, Store!Refuse, SoloInv, TypeInv
      <4> QED
        BY <3>2, <4>1, StoreSame DEF Store!Next
    <3> QED
      BY <3>1, <3>2, WriterShape
  <2>2. ASSUME NEW a \in Actors, Return(a), file' = Updated(a), asked[a] # NoUpdate
        PROVE  [Store!Next]_(Store!vars)
    <3>1. Store!Done(a)
      BY <2>2, StoreSame DEF Return, Updated, Store!Done
    <3> QED
      BY <2>2, <3>1, StoreSame DEF Store!Next
  <2>3. ASSUME NEW a \in Actors, NEW u \in Updates, Ask(a, u) PROVE [Store!Next]_(Store!vars)
    BY <2>3, StoreSame DEF Ask, Store!Ask, Store!Next
  <2>4. ASSUME NEW a \in Actors, Load(a) PROVE [Store!Next]_(Store!vars)
    <3>1. a \in Writers /\ job[a].pc # "idle" /\ asked[a] # NoUpdate /\ UNCHANGED file
      BY <2>4, WriterShape DEF Load, SoloInv, TypeInv
    <3>2. CASE Fail(a)
      BY <2>1, <3>1, <3>2
    <3>3. CASE ~NeedsSave(asked[a], file) /\ Return(a)
      <4>1. file' = Updated(a)
        BY <3>1, <3>3, NothingToSave
      <4> QED
        BY <2>2, <3>1, <3>3, <4>1
    <3>4. CASE UNCHANGED <<asked, answer>>
      BY <3>1, <3>4 DEF Store!vars
    <3> QED
      BY <2>4, <3>2, <3>3, <3>4 DEF Load
  <2>5. ASSUME NEW a \in Writers, OpenTmp(a) \/ WriteTmp(a) PROVE [Store!Next]_(Store!vars)
    <3>1. job[a].pc # "idle" /\ UNCHANGED file
      BY <2>5 DEF OpenTmp, WriteTmp
    <3> QED
      BY <2>1, <2>5, <3>1 DEF OpenTmp, WriteTmp, Store!vars
  <2>6. ASSUME NEW a \in Writers, Rename(a) PROVE [Store!Next]_(Store!vars)
    <3>1. job[a].pc = "written" /\ tmp = job[a].mirror /\ tmp \in Mirrors
      BY <2>6 DEF Rename, SoloInv, TypeInv, TypeOK, TmpHoldsJob
    <3>2. CASE Fail(a) /\ UNCHANGED file
      BY <2>1, <3>1, <3>2
    <3>3. CASE a \in Actors /\ Return(a) /\ file' = tmp
      <4>1. asked[a] # NoUpdate /\ file' = Updated(a)
        BY <3>1, <3>3 DEF SoloInv, TypeInv, JobsHoldUpdate, InSection, Section
      <4> QED
        BY <2>2, <3>3, <4>1
    <3>4. CASE a = Startup /\ file' = tmp /\ UNCHANGED <<asked, answer>>
      <4>1. file' = NoSessions
        BY <3>1, <3>4 DEF SoloInv, JobsHoldUpdate
      <4>2. \A b \in Actors : asked[b] = NoUpdate
        BY <3>1, <3>4, WriterShape DEF SoloInv, TypeInv, BrokerKnown
      <4>3. asked = [b \in Actors |-> NoUpdate]
        BY <4>2 DEF SoloInv, TypeInv, TypeOK
      <4>4. Store!Clear
        BY <3>4, <4>1, <4>3, StoreSame DEF Store!Clear, NoSessions
      <4> QED
        BY <4>4 DEF Store!Next
    <3> QED
      BY <2>6, <3>1, <3>2, <3>3, <3>4, WriterShape, ContentsAssumption DEF Rename
  <2>7. CASE Crash
    BY <2>7, StoreSame DEF Crash, Store!Die, Store!Next
  <2>8. CASE \/ \E s \in Sessions : HandleHostDisconnect(s)
             \/ Reset
             \/ UNCHANGED vars
    BY <2>8 DEF HandleHostDisconnect, Reset, vars, Store!vars
  <2> QED
    BY <2>3, <2>4, <2>5, <2>6, <2>7, <2>8 DEF Next
<1> QED
  BY <1>1, <1>2, SoloInit, SoloNext, PTL DEF ImplementsSessionStore, Spec, Store!Spec
================================================================================
