---------------------------- MODULE BrokerLifecycle ----------------------------
(***************************************************************************)
(* The lives of broker processes: who starts one (ensureBroker in          *)
(* cmd/caw/main.go), how it starts and ends (internal/broker/service.go),  *)
(* and the windows it serves meanwhile.  Every broker works on the same    *)
(* files and wants the same pipe, and nothing but the pipe keeps two of    *)
(* them apart.  An app-server is a child process of its broker that        *)
(* outlives it unless the broker kills it.                                 *)
(*                                                                         *)
(* A window and a command (caw broker stop, caw broker restart) are both   *)
(* callers of ensureBroker.  One profile is selected throughout.  Every     *)
(* access to sessions.json may fail.                                       *)
(***************************************************************************)
EXTENDS Naturals, FiniteSets

CONSTANTS
    Brokers,     \* bound: broker processes that are started, one after the other or at once
    NoBroker,
    Windows,     \* host processes, each started once
    Commands     \* stop and restart commands, each given once

ASSUME BrokersAssumption == NoBroker \notin Brokers
ASSUME CallersAssumption == Windows \cap Commands = {}

VARIABLES
    stage,      \* how far each broker process is
    app,        \* whether it has an app-server that runs; see Crash
    ends,       \* why it is about to stop: a command told it to, it was idle
    timers,     \* idle checks due in each broker, by the window whose call made them
    unread,     \* brokers whose idle check could not read sessions.json, with none made since
    records,    \* sessions.json: the windows recorded
    server,     \* broker.json: server.state
    phase,      \* what each caller does
    with        \* the broker it is connected to

vars == <<stage, app, ends, timers, unread, records, server, phase, with>>
callers == <<phase, with>>

Callers == Windows \cup Commands

(* Run is about to reset the sessions, start the app-server, or listen; it
   serves; a stop has shut gateway and app-server down, closed the pipe; the
   process is gone, or it is because the pipe was taken ("refused"). *)
Stages == {"none", "reset", "ensure", "listen", "serving", "down", "closed", "gone", "refused"}

(* "start" (about to probe, or not there yet), "wait" and "found" are
   ensureClient's; a "dialed" window is not registered yet; a "lost" one has
   gone without unregistering, and one that "left" has quit although its
   unregistering failed. *)
WindowPhases ==
    {"start", "wait", "found", "dialed", "home", "ensured", "late",
     "in_codex", "cut", "quit", "left", "lost", "failed"}
CommandPhases ==
    {"start", "wait", "found", "dialed", "stopped", "again", "wait_again",
     "restarted", "failed"}

Alive(b) == stage[b] \notin {"none", "gone", "refused"}
Accepts(b) == stage[b] \in {"serving", "down"}
Handles(b) == b \in Brokers /\ stage[b] \in {"serving", "down", "closed"}

(* Callers with a connection to a broker. *)
Connected == {"dialed", "home", "ensured", "late", "in_codex", "cut"}

Init ==
    /\ stage = [b \in Brokers |-> "none"]
    /\ app = [b \in Brokers |-> FALSE]
    /\ ends = [b \in Brokers |-> {}]
    /\ timers = [b \in Brokers |-> {}]
    /\ unread = {}
    /\ records = {}
    /\ server = "stopped"
    /\ phase = [c \in Callers |-> "start"]
    /\ with = [c \in Callers |-> NoBroker]
--------------------------------------------------------------------------------
(* The runtime controller, as far as its process and server.state go. *)

(* canReuseActiveProfile that believes broker.json alone. *)
CanReuseByFile(b) == server = "healthy"

(* canReuseActiveProfile: broker.json says healthy, and this very process has
   an app-server that has not exited. *)
CanReuse(b) == server = "healthy" /\ app[b]

AfterCut == [in_codex |-> "cut", ensured |-> "late"]

(* The windows of a broker lose the app-server: their children, and the
   launches that have been promised it. *)
CutOff(b) ==
    [c \in Callers |-> IF phase[c] \in DOMAIN AfterCut /\ with[c] = b
                       THEN AfterCut[phase[c]] ELSE phase[c]]

Outcomes == {"started", "failed", "uncopied"}

(* EnsureActiveProfile.  The copy of auth.json may fail before anything is
   touched; a start that fails leaves no app-server. *)
EnsureActiveProfile(b, outcome) ==
    IF CanReuse(b) \/ outcome = "uncopied"
    THEN UNCHANGED <<app, server>>
    ELSE /\ app' = [app EXCEPT ![b] = (outcome = "started")]
         /\ server' = IF outcome = "started" THEN "healthy" ELSE "stopped"

(* Controller.Shutdown: it writes to broker.json even without an app-server. *)
Shutdown(b) ==
    /\ app' = [app EXCEPT ![b] = FALSE]
    /\ server' = "stopped"
--------------------------------------------------------------------------------
(* A broker starts. *)

(* reconcileStartup: no session of an earlier broker survives, unless
   sessions.json cannot be written.  That, or a broker.json that cannot be
   read or written, ends it: the broker is degraded and goes on to listen. *)
Reset(b) ==
    /\ stage[b] = "reset"
    /\ \/ records' = {} /\ stage' = [stage EXCEPT ![b] = "ensure"]
       \/ records' \in {{}, records} /\ stage' = [stage EXCEPT ![b] = "listen"]
    /\ UNCHANGED <<app, ends, timers, unread, server, callers>>

(* ReconcileStartup; a failure only degrades the broker. *)
ReconcileStartup(b) ==
    /\ stage[b] = "ensure"
    /\ \E outcome \in Outcomes : EnsureActiveProfile(b, outcome)
    /\ stage' = [stage EXCEPT ![b] = "listen"]
    /\ UNCHANGED <<ends, timers, unread, records, callers>>

(* ipc.Listen succeeds: the pipe is free. *)
Listen(b) ==
    /\ stage[b] = "listen" /\ ~\E a \in Brokers : Accepts(a)
    /\ stage' = [stage EXCEPT ![b] = "serving"]
    /\ UNCHANGED <<app, ends, timers, unread, records, server, callers>>

(* It fails and the process returns at once. *)
RefusedAbruptly(b) ==
    /\ stage[b] = "listen"
    /\ stage' = [stage EXCEPT ![b] = "refused"]
    /\ UNCHANGED <<app, ends, timers, unread, records, server, callers>>

(* It fails, above all because another broker has the pipe: gateway and
   app-server are shut down and the process ends. *)
Refused(b) ==
    /\ stage[b] = "listen"
    /\ Shutdown(b)
    /\ stage' = [stage EXCEPT ![b] = "refused"]
    /\ UNCHANGED <<ends, timers, unread, records, callers>>
--------------------------------------------------------------------------------
(* A broker ends. *)

(* maybeScheduleIdleShutdown, ten seconds later.  The checks due for one window
   are one: an earlier one that finds no session stops the broker as well.  A
   check that cannot read sessions.json gives up. *)
IdleCheck(b, w) ==
    /\ w \in timers[b] /\ Handles(b)
    /\ timers' = [timers EXCEPT ![b] = @ \ {w}]
    /\ \/ /\ ends' = IF records = {} THEN [ends EXCEPT ![b] = @ \cup {"idle"}] ELSE ends
          /\ UNCHANGED unread
       \/ unread' = unread \cup {b} /\ UNCHANGED ends
    /\ UNCHANGED <<stage, app, records, server, callers>>

(* gateway.Close and runtime.Shutdown, while the pipe still accepts.  A second
   reason to stop shuts down once more, should the process live so long. *)
GoDown(b) ==
    /\ Handles(b)
    /\ \E reason \in ends[b] : ends' = [ends EXCEPT ![b] = @ \ {reason}]
    /\ Shutdown(b)
    /\ phase' = CutOff(b)
    /\ stage' = IF stage[b] = "serving" THEN [stage EXCEPT ![b] = "down"] ELSE stage
    /\ UNCHANGED <<timers, unread, records, with>>

(* server.Close. *)
Close(b) ==
    /\ stage[b] = "down"
    /\ stage' = [stage EXCEPT ![b] = "closed"]
    /\ UNCHANGED <<app, ends, timers, unread, records, server, callers>>

Vanishes(b) ==
    /\ stage' = [stage EXCEPT ![b] = "gone"]
    /\ app' = [app EXCEPT ![b] = FALSE]
    /\ timers' = [timers EXCEPT ![b] = {}]
    /\ ends' = [ends EXCEPT ![b] = {}]
    /\ phase' = CutOff(b)
    /\ UNCHANGED <<unread, records, server, with>>

(* Serve and Run return, and the process with them. *)
Exit(b) == stage[b] = "closed" /\ Vanishes(b)

(* The process dies at any point.  Its app-server runs on, but no broker looks
   at the app-server of another, and the gateway's connections to it are gone:
   app no longer speaks of it. *)
Crash(b) == Alive(b) /\ Vanishes(b)

(* The app-server exits by itself; broker.json is not told. *)
AppExits(b) ==
    /\ app[b]
    /\ app' = [app EXCEPT ![b] = FALSE]
    /\ phase' = CutOff(b)
    /\ UNCHANGED <<stage, ends, timers, unread, records, server, with>>
--------------------------------------------------------------------------------
(* ensureBroker and Dial. *)

Goes(c, p) == phase' = [phase EXCEPT ![c] = p]

brokers == <<stage, app, ends, timers, unread, records, server>>

(* The probe finds a broker.  A restart is then done. *)
Finds(c, b) ==
    /\ Accepts(b)
    /\ \/ /\ phase[c] \in {"start", "wait"}
          /\ Goes(c, "found")
          /\ UNCHANGED with
       \/ /\ phase[c] \in {"again", "wait_again"}
          /\ Goes(c, "restarted")
          /\ with' = [with EXCEPT ![c] = b]
    /\ UNCHANGED brokers

(* It finds none, or not within 300 ms, and starts one, whether or not another
   is just starting. *)
Spawns(c, b) ==
    /\ phase[c] \in {"start", "again"}
    /\ stage[b] = "none"
    /\ stage' = [stage EXCEPT ![b] = "reset"]
    /\ Goes(c, IF phase[c] = "start" THEN "wait" ELSE "wait_again")
    /\ UNCHANGED <<app, ends, timers, unread, records, server, with>>

(* The process cannot be started, the broker does not become ready in forty
   tries, or it is gone again, or too slow, when ensureClient dials. *)
GivesUp(c) ==
    /\ phase[c] \in {"start", "wait", "found", "again", "wait_again"}
    /\ Goes(c, "failed")
    /\ UNCHANGED <<brokers, with>>

(* ensureClient's second dial. *)
Dial(c, b) ==
    /\ phase[c] = "found" /\ Accepts(b)
    /\ Goes(c, "dialed")
    /\ with' = [with EXCEPT ![c] = b]
    /\ UNCHANGED brokers
--------------------------------------------------------------------------------
(* Commands. *)

(* broker.stop answers at once and stops 50 ms later.  A restart goes on with
   ensureBroker. *)
TellStop(c) ==
    /\ c \in Commands /\ phase[c] = "dialed" /\ Handles(with[c])
    /\ ends' = [ends EXCEPT ![with[c]] = @ \cup {"told"}]
    /\ with' = [with EXCEPT ![c] = NoBroker]
    /\ \E p \in {"stopped", "again"} : Goes(c, p)
    /\ UNCHANGED <<stage, app, timers, unread, records, server>>
--------------------------------------------------------------------------------
(* Windows. *)

(* A call that is answered by a broker that is gone. *)
ServedByAnyone(w, p) == w \in Windows /\ phase[w] = p

(* Window w is in phase p, and its broker handles calls. *)
Served(w, p) == w \in Windows /\ phase[w] = p /\ Handles(with[w])

Schedules(w) ==
    /\ timers' = [timers EXCEPT ![with[w]] = @ \cup {w}]
    /\ unread' = unread \ {with[w]}

(* A call that fails on sessions.json changes nothing there, and returns before
   it schedules an idle check. *)
FailsTo(w, p) == Goes(w, p) /\ UNCHANGED <<timers, unread, records>>

(* session.register; a window that fails ends. *)
Register(w) ==
    /\ Served(w, "dialed")
    /\ \/ records' = records \cup {w} /\ Goes(w, "home") /\ UNCHANGED <<timers, unread>>
       \/ FailsTo(w, "failed")
    /\ UNCHANGED <<stage, app, ends, server, with>>

(* launch.prepare up to EnsureActiveProfile.  The children of an app-server it
   replaces are cut off, whatever window's they are. *)
EnsureLaunch(w) ==
    /\ Served(w, "home")
    /\ \E outcome \in Outcomes :
         LET b == with[w]
             kept == CanReuse(b) \/ outcome = "uncopied"
             ok == CanReuse(b) \/ outcome = "started" IN
         /\ EnsureActiveProfile(b, outcome)
         /\ phase' = [(IF kept THEN phase ELSE CutOff(b))
                        EXCEPT ![w] = IF ok THEN "ensured" ELSE "home"]
    /\ UNCHANGED <<stage, ends, timers, unread, records, with>>

AfterStart == [ensured |-> "in_codex", late |-> "cut"]

(* Sessions.PrepareLaunch, which fails without a record, the start of the
   child, and session.update_state.  If one of them fails the window is back
   at Home, and no call says so. *)
EnterCodex(w) ==
    /\ \E p \in DOMAIN AfterStart :
         /\ Served(w, p)
         /\ \/ /\ w \in records
               /\ Goes(w, AfterStart[p]) /\ Schedules(w) /\ UNCHANGED records
            \/ FailsTo(w, "home")
    /\ UNCHANGED <<stage, app, ends, server, with>>

(* The child ends, and session.return_home, whose error nobody looks at. *)
ReturnHome(w) ==
    /\ Served(w, "in_codex") \/ Served(w, "cut")
    /\ \/ Goes(w, "home") /\ Schedules(w) /\ UNCHANGED records
       \/ FailsTo(w, "home")
    /\ UNCHANGED <<stage, app, ends, server, with>>

(* session.unregister that leaves the idle check to others. *)
UnregisterQuietly(w) ==
    /\ Served(w, "home")
    /\ \/ records' = records \ {w} /\ Goes(w, "quit") /\ UNCHANGED <<timers, unread>>
       \/ FailsTo(w, "left")
    /\ UNCHANGED <<stage, app, ends, server, with>>

(* The user leaves Home: session.unregister, whose error the host ignores. *)
Unregister(w) ==
    /\ Served(w, "home")
    /\ \/ records' = records \ {w} /\ Goes(w, "quit") /\ Schedules(w)
       \/ FailsTo(w, "left")
    /\ UNCHANGED <<stage, app, ends, server, with>>

(* The window's terminal is closed.  HandleHostDisconnect drops the runtime
   entry and leaves the record. *)
Dies(w) ==
    /\ w \in Windows /\ phase[w] \in Connected
    /\ Goes(w, "lost")
    /\ UNCHANGED <<brokers, with>>

(* Its broker is gone: the calls fail, and runHost returns. *)
Lost(c) ==
    /\ phase[c] \in Connected /\ ~Handles(with[c])
    /\ Goes(c, IF c \in Windows THEN "lost" ELSE "failed")
    /\ with' = [with EXCEPT ![c] = NoBroker]
    /\ UNCHANGED brokers
--------------------------------------------------------------------------------
BrokerStep(b) ==
    \/ Reset(b) \/ ReconcileStartup(b) \/ Listen(b) \/ Refused(b)
    \/ \E w \in Windows : IdleCheck(b, w)
    \/ GoDown(b) \/ Close(b) \/ Exit(b)

Faults(b) == Crash(b) \/ AppExits(b)

CallerStep(c) ==
    \/ GivesUp(c) \/ TellStop(c)
    \/ \E b \in Brokers : Finds(c, b) \/ Spawns(c, b) \/ Dial(c, b)
    \/ Register(c) \/ EnsureLaunch(c) \/ EnterCodex(c)
    \/ ReturnHome(c) \/ Unregister(c) \/ Dies(c) \/ Lost(c)

Next ==
    \/ \E b \in Brokers : BrokerStep(b) \/ Faults(b)
    \/ \E c \in Callers : CallerStep(c)

Spec == Init /\ [][Next]_vars
--------------------------------------------------------------------------------
(* Properties *)

(* Every variable keeps its type, and the idle checks due are a live broker's. *)
TypeOK ==
    /\ stage \in [Brokers -> Stages]
    /\ app \in [Brokers -> BOOLEAN]
    /\ ends \in [Brokers -> SUBSET {"told", "idle"}]
    /\ timers \in [Brokers -> SUBSET Windows]
    /\ unread \subseteq Brokers
    /\ records \subseteq Windows
    /\ server \in {"healthy", "stopped"}
    /\ phase \in [Callers -> WindowPhases \cup CommandPhases]
    /\ with \in [Callers -> Brokers \cup {NoBroker}]
    /\ \A w \in Windows : phase[w] \in WindowPhases
    /\ \A c \in Commands : phase[c] \in CommandPhases
    /\ \A b \in Brokers : timers[b] # {} => Handles(b)

(* A launch is given an app-server that runs, and one of its own broker: what
   another broker, alive or dead, has left in broker.json never makes it trust
   a server that is not there. *)
LaunchHasServer ==
    \A w \in Windows : phase[w] \in {"ensured", "in_codex"} => app[with[w]]

(* A broker that finds the pipe taken leaves no second app-server behind. *)
LoserLeavesNoServer ==
    \A b \in Brokers : stage[b] = "refused" => ~app[b]

(* Every window that has registered with any broker has quit, from this one,
   and was unregistered. *)
Idle(b) ==
    /\ stage[b] = "serving"
    /\ \E w \in Windows : phase[w] = "quit"
    /\ \A w \in Windows :
          \/ phase[w] = "quit" /\ with[w] = b
          \/ phase[w] \in {"start", "wait", "found", "dialed", "failed"}

(* A broker whose last window has been unregistered stops, or will look again:
   the check that comes after the last unregister is not lost, however earlier
   checks, calls that fail, other windows and the startup of other brokers
   interleave with it.  The exception is a check that could not read
   sessions.json: nobody looks again until the next call of a window. *)
NoLostIdleCheck ==
    \A b \in Brokers : Idle(b) => timers[b] # {} \/ ends[b] # {} \/ b \in unread
================================================================================
