------------------------------- MODULE HomeScreen ------------------------------
(***************************************************************************)
(* The Home screen of one window (internal/homeui, app.go) in the loop of  *)
(* runHost: what it shows of the broker, and how it keeps that fresh.  A   *)
(* bubbletea program handles one message at a time; every request it makes *)
(* runs in a goroutine of its own and comes back as a message, so that     *)
(* snapshots arrive in any order, and after the program has ended not at   *)
(* all.  A timer for refreshes and one for polling the window's            *)
(* SignalBuffer each re-arm themselves when they fire.                     *)
(*                                                                         *)
(* HomeSpec and the like: WindowProofs is about this module and HostReload *)
(* and extends both.                                                       *)
(***************************************************************************)
EXTENDS Naturals

CONSTANTS
    Slots,          \* bound: requests under way
    MaxProfiles,    \* bound
    MaxChanges,     \* bound: changes of what the broker shows
    MaxFaults       \* bound: requests that fail or time out

ASSUME BoundsAssumption == MaxProfiles \in Nat /\ MaxChanges \in Nat /\ MaxFaults \in Nat

VARIABLES
    broker,     \* what home.snapshot answers
    changes,
    faults,
    at,         \* a screen, or where the window is without one
    shown,      \* m.snapshot
    cursor,     \* m.selectedIndex
    armed,      \* timers
    notices,    \* what the SignalBuffer holds
    request,    \* slot -> a request, its argument and the snapshot it has got
    lost        \* slots whose program has ended

HomeVars == <<broker, changes, faults, at, shown, cursor, armed, notices, request, lost>>

Screens == {"home", "add", "settings"}
Places == Screens \cup {"codex", "login", "gone"}
Timers == {"tick", "poll"}

(* A home.snapshot: how many profiles there are, which one is selected (0 is
   none), whose switch is pending, and the setting. *)
NobodysSwitch == "none"
Snapshots == [profiles : 0..MaxProfiles, selected : 0..MaxProfiles,
              pending : {"mine", "theirs", NobodysSwitch}, clear : BOOLEAN]
Empty == [profiles |-> 0, selected |-> 0, pending |-> NobodysSwitch, clear |-> FALSE]

(* Requests: "snapshot" to be answered, "select" (profile.select), "end"
   (profile.switch.force or .cancel) and "set" (settings.update); then
   messages: "got" a snapshot, "updated", "failed". *)
Calls == {"snapshot", "select", "end", "set"}
Messages == {"got", "updated", "failed"}

Free == [is |-> "free", arg |-> 0, got |-> Empty]

HomeInit ==
    /\ broker \in {[Empty EXCEPT !.profiles = n, !.selected = n] : n \in 0..MaxProfiles}
    /\ changes = 0 /\ faults = 0
    /\ at = "home"
    /\ shown = Empty /\ cursor = 0
    /\ armed = Timers
    /\ notices = {}
    /\ \E s \in Slots : request = [q \in Slots |-> IF q = s THEN [Free EXCEPT !.is = "snapshot"] ELSE Free]
    /\ lost = {}
--------------------------------------------------------------------------------
outside == <<broker, changes, faults>>
view == <<shown, cursor, armed>>

(* A tea.Cmd that makes a request. *)
Ask(call, arg) ==
    \E s \in Slots :
        /\ request[s] = Free
        /\ request' = [request EXCEPT ![s] = [Free EXCEPT !.is = call, !.arg = arg]]

(* tea.Quit: the program's requests go on without it. *)
Quit(where) ==
    /\ at' = where
    /\ armed' = {}
    /\ lost' = {s \in Slots : request[s] # Free}
    /\ UNCHANGED <<outside, shown, cursor, notices, request>>

(* Run, from runHost's loop: a new model, and its Init. *)
Run ==
    /\ at \in {"codex", "login"}
    /\ at' = "home"
    /\ shown' = Empty /\ cursor' = 0
    /\ armed' = Timers
    /\ Ask("snapshot", 0)
    /\ UNCHANGED <<outside, notices, lost>>

(* EnterCodex takes the reloads that come while Codex runs. *)
TakeReload ==
    /\ at = "codex" /\ "reload" \in notices
    /\ notices' = notices \ {"reload"}
    /\ UNCHANGED <<outside, at, view, request, lost>>
--------------------------------------------------------------------------------
(* Update *)

(* A tick that asks for a snapshot and is not re-armed. *)
TickOnce ==
    /\ "tick" \in armed /\ at = "home"
    /\ Ask("snapshot", 0)
    /\ armed' = armed \ {"tick"}
    /\ UNCHANGED <<outside, at, shown, cursor, notices, lost>>

(* refreshTickMsg: on the other screens it is only re-armed. *)
Tick ==
    /\ "tick" \in armed /\ at = "home"
    /\ Ask("snapshot", 0)
    /\ UNCHANGED <<outside, at, view, notices, lost>>

(* externalPollTickMsg with something in the buffer, a switch notice first. *)
Poll ==
    /\ "poll" \in armed /\ notices # {}
    /\ notices' = IF "switch" \in notices THEN notices \ {"switch"} ELSE {}
    /\ Ask("snapshot", 0)
    /\ UNCHANGED <<outside, at, view, lost>>

(* syncSelection *)
Synced(snapshot) ==
    CASE snapshot.profiles = 0 -> 0
      [] snapshot.profiles # 0 /\ snapshot.selected # 0 -> snapshot.selected - 1
      [] OTHER -> IF cursor < snapshot.profiles THEN cursor ELSE 0

Take(s) == request' = [request EXCEPT ![s] = Free]

(* A snapshotStatusMsg that leaves the cursor where it is. *)
ShowOnly(s) ==
    /\ request[s].is = "got" /\ at \in Screens /\ s \notin lost
    /\ shown' = request[s].got
    /\ UNCHANGED cursor
    /\ Take(s)
    /\ UNCHANGED <<outside, at, armed, notices, lost>>

(* snapshotMsg and snapshotStatusMsg *)
Show(s) ==
    /\ request[s].is = "got" /\ at \in Screens /\ s \notin lost
    /\ shown' = request[s].got
    /\ cursor' = Synced(request[s].got)
    /\ Take(s)
    /\ UNCHANGED <<outside, at, armed, notices, lost>>

(* settingsUpdatedMsg *)
SettingsUpdated(s) ==
    /\ request[s].is = "updated" /\ at \in Screens /\ s \notin lost
    /\ shown' = [shown EXCEPT !.clear = (request[s].arg = 1)]
    /\ Take(s)
    /\ UNCHANGED <<outside, at, cursor, armed, notices, lost>>

ShowError(s) ==
    /\ request[s].is = "failed" /\ at \in Screens /\ s \notin lost
    /\ Take(s)
    /\ UNCHANGED <<outside, at, view, notices, lost>>

(* A message for a program that has ended. *)
Drop(s) ==
    /\ s \in lost /\ request[s].is \in Messages
    /\ Take(s)
    /\ lost' = lost \ {s}
    /\ UNCHANGED <<outside, at, view, notices>>
--------------------------------------------------------------------------------
(* updateHome, updateAdd and updateSettings: keys *)

GoTo(screen) ==
    /\ at' = screen
    /\ UNCHANGED <<outside, view, notices, request, lost>>

(* "a", "s", and Enter without a profile *)
OpenScreen == at = "home" /\ (GoTo("add") \/ GoTo("settings"))

(* Esc (on the settings screen also "s") *)
BackHome ==
    /\ at \in {"add", "settings"}
    /\ at' = "home"
    /\ Ask("snapshot", 0)
    /\ UNCHANGED <<outside, view, notices, lost>>

(* Enter on the other screens: the new profile's login, or the setting. *)
LinkProfile == at = "add" /\ Quit("login")

ToggleSetting ==
    /\ at = "settings"
    /\ Ask("set", IF shown.clear THEN 0 ELSE 1)
    /\ UNCHANGED <<outside, at, view, notices, lost>>

(* Enter: Codex waits for a pending switch. *)
Continue ==
    /\ at = "home" /\ shown.profiles # 0 /\ shown.pending = NobodysSwitch
    /\ Quit("codex")

QuitKey == at \in Screens /\ Quit("gone")

Up ==
    /\ at = "home" /\ cursor > 0
    /\ cursor' = cursor - 1
    /\ UNCHANGED <<outside, at, shown, armed, notices, request, lost>>

Down ==
    /\ at = "home" /\ cursor + 1 < shown.profiles
    /\ cursor' = cursor + 1
    /\ UNCHANGED <<outside, at, shown, armed, notices, request, lost>>

(* Space: the profile under the cursor, unless another window's switch is
   pending or it is selected already (and not the target of this window's
   pending switch; the target is not part of a snapshot here). *)
Select ==
    /\ at = "home" /\ shown.profiles # 0 /\ shown.pending # "theirs"
    /\ cursor + 1 # shown.selected \/ shown.pending = "mine"
    /\ Ask("select", cursor + 1)
    /\ UNCHANGED <<outside, at, view, notices, lost>>

(* "f" and "c", which only the window that asked for the switch may press. *)
EndPending ==
    /\ at = "home" /\ shown.pending = "mine"
    /\ Ask("end", 0)
    /\ UNCHANGED <<outside, at, view, notices, lost>>

Refresh ==
    /\ at = "home"
    /\ Ask("snapshot", 0)
    /\ UNCHANGED <<outside, at, view, notices, lost>>
--------------------------------------------------------------------------------
(* The broker *)

Becomes(s, message) == request' = [request EXCEPT ![s].is = message]

AnswerSnapshot(s) ==
    /\ request[s].is = "snapshot"
    /\ request' = [request EXCEPT ![s] = [is |-> "got", arg |-> 0, got |-> broker]]
    /\ UNCHANGED <<changes, faults, broker, at, view, notices, lost>>

(* What profile.select, force, cancel and settings.update make of the state. *)
After(s) ==
    CASE request[s].is = "select" -> {[broker EXCEPT !.selected = request[s].arg, !.pending = NobodysSwitch],
                                      [broker EXCEPT !.pending = "mine"]}
      [] request[s].is = "end" -> {[broker EXCEPT !.pending = NobodysSwitch]}
                                    \cup {[broker EXCEPT !.pending = NobodysSwitch, !.selected = p] : p \in 1..broker.profiles}
      [] request[s].is = "set" -> {[broker EXCEPT !.clear = (request[s].arg = 1)]}
      [] OTHER -> {}

(* A change of the account comes with a reload notice; the switch notice that
   goes with each step of a switch leaves out the window that asked. *)
Tells(kinds) == notices' = notices \cup kinds

(* A request that is carried out is followed by a snapshot, unless its answer
   is too late. *)
Execute(s) ==
    /\ broker' \in After(s)
    /\ broker' # broker => changes < MaxChanges
    /\ request[s].is = "select" => broker.pending # "theirs"
    /\ request[s].is = "end" => broker.pending = "mine"
    /\ changes' = IF broker' # broker THEN changes + 1 ELSE changes
    /\ Tells(IF broker'.selected # broker.selected THEN {"reload"} ELSE {})
    /\ \/ /\ Becomes(s, IF request[s].is = "set" THEN "updated" ELSE "snapshot")
          /\ UNCHANGED faults
       \/ /\ faults < MaxFaults
          /\ Becomes(s, "failed")
          /\ faults' = faults + 1
    /\ UNCHANGED <<at, view, lost>>

Refuse(s) ==
    /\ request[s].is \in {"select", "end", "set"}
    /\ Becomes(s, "failed")
    /\ UNCHANGED <<outside, at, view, notices, lost>>

Fail(s) ==
    /\ request[s].is = "snapshot" /\ faults < MaxFaults
    /\ Becomes(s, "failed")
    /\ faults' = faults + 1
    /\ UNCHANGED <<broker, changes, at, view, notices, lost>>

OtherChange ==
    /\ changes < MaxChanges
    /\ changes' = changes + 1
    /\ UNCHANGED <<faults, at, view, request, lost>>

(* profile.add, by another window or after the login of this one: the last one
   in the list here, selected if none was, unless that step fails.  Nobody is
   told, as little as of another window's settings.update. *)
ProfileAdded ==
    /\ OtherChange
    /\ broker.profiles < MaxProfiles
    /\ broker' \in {[broker EXCEPT !.profiles = @ + 1, !.selected = p] :
                      p \in IF broker.selected = 0 THEN {0, broker.profiles + 1} ELSE {broker.selected}}
    /\ UNCHANGED notices

SettingChanged ==
    /\ OtherChange
    /\ broker' = [broker EXCEPT !.clear = ~@]
    /\ UNCHANGED notices

(* Another window switches the account or has a switch pending, or a pending
   one ends (in silence if a launch clears it). *)
OtherSwitch ==
    /\ OtherChange
    /\ \/ /\ broker' \in {[broker EXCEPT !.selected = p, !.pending = NobodysSwitch] : p \in 1..broker.profiles}
          /\ Tells({"switch", "reload"})
       \/ /\ broker' = [broker EXCEPT !.pending = IF @ = NobodysSwitch THEN "theirs" ELSE NobodysSwitch]
          /\ Tells({"switch"}) \/ UNCHANGED notices
--------------------------------------------------------------------------------
Keys ==
    \/ OpenScreen \/ BackHome \/ LinkProfile \/ ToggleSetting \/ Continue \/ QuitKey
    \/ Up \/ Down \/ Select \/ EndPending \/ Refresh

Message(s) == Show(s) \/ SettingsUpdated(s) \/ ShowError(s) \/ Drop(s)

HomeNext ==
    \/ Run \/ TakeReload \/ Tick \/ Poll \/ Keys
    \/ ProfileAdded \/ SettingChanged \/ OtherSwitch
    \/ \E s \in Slots : Message(s) \/ AnswerSnapshot(s) \/ Execute(s) \/ Refuse(s) \/ Fail(s)

HomeSpec == HomeInit /\ [][HomeNext]_HomeVars

(* Timers fire, requests end by their timeouts, and messages are handled.  The
   fairness of the tick is strong because it must not wait for a free slot for
   ever: the program has no such bound. *)
HomeFairness ==
    /\ SF_HomeVars(Tick)
    /\ \A s \in Slots :
         /\ WF_HomeVars(Message(s))
         /\ WF_HomeVars(AnswerSnapshot(s) \/ Execute(s) \/ Refuse(s) \/ Fail(s))

HomeFairSpec == HomeSpec /\ HomeFairness
--------------------------------------------------------------------------------
(* Types; and the cursor is on a profile that is shown, if there is one: with
   an older, shorter list that arrives late too, or Space would index past it. *)
HomeTypeOK ==
    /\ broker \in Snapshots /\ shown \in Snapshots
    /\ changes \in 0..MaxChanges /\ faults \in 0..MaxFaults
    /\ at \in Places
    /\ armed = IF at \in Screens THEN Timers ELSE {}
    /\ notices \subseteq {"switch", "reload"}
    /\ request \in [Slots -> [is : {"free"} \cup Calls \cup Messages,
                              arg : 0..MaxProfiles \cup {1}, got : Snapshots]]
    /\ lost \subseteq Slots
    /\ cursor \in Nat
    /\ IF shown.profiles = 0 THEN cursor = 0 ELSE cursor < shown.profiles

(* A window that stays at Home shows what the broker has in the end, although
   answers overtake each other, requests fail and other windows change it
   without telling. *)
ScreenCatchesUp == <>[](at = "home") => <>[](shown = broker)
================================================================================
