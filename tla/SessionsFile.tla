------------------------------ MODULE SessionsFile ------------------------------
(***************************************************************************)
(* sessions.json as the session manager writes it (internal/broker/        *)
(* sessions/manager.go, internal/store/store.go).  Every handler loads the *)
(* whole file, changes the record of its own window, and saves the whole   *)
(* file: it opens and truncates sessions.json.tmp, writes it and renames   *)
(* it over sessions.json.  No lock is held, and the temporary name is the  *)
(* same for all.  Any step may fail and the broker may die at any point.   *)
(*                                                                         *)
(* The files behave as on Windows, where alone the program runs: a file    *)
(* that somebody holds open can be opened and truncated, not renamed.      *)
(***************************************************************************)
EXTENDS SessionRecords

CONSTANTS Unreadable,   \* content that is not JSON
          Empty,        \* content just after O_TRUNC
          Absent,       \* no such file
          Overlap,      \* may several handlers be between load and rename at once?
          DiskFails     \* may the disk refuse a step?

ASSUME SwitchesAssumption == Overlap \in BOOLEAN /\ DiskFails \in BOOLEAN
ASSUME ContentsAssumption ==
    /\ Unreadable \notin Mirrors /\ Empty \notin Mirrors /\ Absent \notin Mirrors
    /\ Unreadable # Empty /\ Unreadable # Absent /\ Empty # Absent

VARIABLES file,     \* sessions.json: a mirror or Unreadable
          tmp,      \* sessions.json.tmp: a mirror, Unreadable, Empty or Absent
          broker,   \* "down", "starting" (Reset), "up"
          window,   \* session -> "new", "connected", "quit" or "lost"
          asked,    \* actor -> the update its handler is working on
          answer,   \* actor -> what its last call returned
          job       \* actor -> how far it is, and the mirror it will save

vars == <<file, tmp, broker, window, asked, answer, job>>
--------------------------------------------------------------------------------
(* Without a record there is nothing to save, except for a new window. *)
NeedsSave(u, m) == u.op = "register" \/ m[u.session] # NoRecord

NoJob == [pc |-> "idle", mirror |-> NoSessions]
Stages == {"idle", "asked", "loaded", "opened", "written"}
Section == {"loaded", "opened", "written"}
InSection(a) == job[a].pc \in Section
HoldsTmpOpen(a) == job[a].pc = "opened"
--------------------------------------------------------------------------------
Init ==
    /\ file = NoSessions
    /\ tmp = Absent
    /\ broker = "down"
    /\ window = [s \in Sessions |-> "new"]
    /\ asked = [a \in Actors |-> NoUpdate]
    /\ answer = [a \in Actors |-> "none"]
    /\ job = [a \in Writers |-> NoJob]

(* A call reaches its handler: a host's while its window is there (a new one
   registers first), a gateway's as long as a Codex child may be connected. *)
Ask(a, u) ==
    /\ broker = "up"
    /\ asked[a] = NoUpdate
    /\ u.session = a[1]
    /\ \/ a \in Hosts /\ u \in HostUpdates(a[1])
          /\ window[a[1]] = (IF u.op = "register" THEN "new" ELSE "connected")
       \/ a \in Gateways /\ u \in GatewayUpdates(a[1]) /\ window[a[1]] # "new"
    /\ asked' = [asked EXCEPT ![a] = u]
    /\ answer' = [answer EXCEPT ![a] = "none"]
    /\ job' = [job EXCEPT ![a].pc = "asked"]
    /\ UNCHANGED <<file, tmp, broker, window>>

(* What the manager does in memory once the handler is through: a window is
   connected when its record was saved, and forgotten when it was removed. *)
Remembered(a) ==
    IF a \notin Hosts THEN window
    ELSE CASE asked[a].op = "register" -> [window EXCEPT ![a[1]] = "connected"]
           [] asked[a].op = "unregister" -> [window EXCEPT ![a[1]] = "quit"]
           [] OTHER -> window

Return(a) ==
    /\ asked' = [asked EXCEPT ![a] = NoUpdate]
    /\ answer' = [answer EXCEPT ![a] = "ok"]
    /\ window' = Remembered(a)
    /\ job' = [job EXCEPT ![a] = NoJob]

(* What can make a step fail: the disk, or for a rename a temporary file that
   another writer has open or has already renamed. *)
MayFail(a) ==
    \/ DiskFails
    \/ job[a].pc = "asked" /\ file = Unreadable
    \/ job[a].pc = "written" /\ (tmp = Absent \/ \E b \in Writers : HoldsTmpOpen(b))

(* A handler that fails reports it and changes nothing in memory, and a window
   that cannot register goes.  A startup that fails degrades the broker, which
   goes on to serve with the records of the last one. *)
Fail(a) ==
    /\ MayFail(a)
    /\ job' = [job EXCEPT ![a] = NoJob]
    /\ IF a = Startup
       THEN broker' = "up" /\ UNCHANGED <<asked, answer, window>>
       ELSE /\ asked' = [asked EXCEPT ![a] = NoUpdate]
            /\ answer' = [answer EXCEPT ![a] = "error"]
            /\ window' = IF asked[a].op = "register"
                         THEN [window EXCEPT ![a[1]] = "lost"] ELSE window
            /\ UNCHANGED broker

Load(a) ==
    /\ job[a].pc = "asked"
    /\ \/ Fail(a)
       \/ /\ file # Unreadable
          /\ NeedsSave(asked[a], file)
          /\ ~Overlap => \A b \in Writers : ~InSection(b)
          /\ job' = [job EXCEPT ![a] = [pc |-> "loaded", mirror |->
                [file EXCEPT ![asked[a].session] = Applied(asked[a], @)]]]
          /\ UNCHANGED <<broker, window, asked, answer>>
       \/ /\ file # Unreadable
          /\ ~NeedsSave(asked[a], file)
          /\ Return(a)
          /\ UNCHANGED broker
    /\ UNCHANGED <<file, tmp>>

(* A save that truncates sessions.json itself. *)
OpenInPlace(a) ==
    /\ job[a].pc = "loaded"
    /\ \/ Fail(a) /\ UNCHANGED file
       \/ /\ file' = Unreadable
          /\ job' = [job EXCEPT ![a].pc = "opened"]
          /\ UNCHANGED <<broker, window, asked, answer>>
    /\ UNCHANGED tmp

OpenTmp(a) ==
    /\ job[a].pc = "loaded"
    /\ \/ Fail(a) /\ UNCHANGED tmp
       \/ /\ tmp' = Empty
          /\ job' = [job EXCEPT ![a].pc = "opened"]
          /\ UNCHANGED <<broker, window, asked, answer>>
    /\ UNCHANGED file

(* What lies in the file after a write from its start: the end of a longer
   text that another writer put there since O_TRUNC stays behind. *)
Overwritten(old, new) ==
    IF old \in {Empty, Absent} THEN {new} ELSE {new, Unreadable}

WriteTmp(a) ==
    /\ job[a].pc = "opened"
    /\ \/ Fail(a) /\ tmp' = Unreadable
       \/ /\ tmp' \in Overwritten(tmp, job[a].mirror)
          /\ job' = [job EXCEPT ![a].pc = "written"]
          /\ UNCHANGED <<broker, window, asked, answer>>
    /\ UNCHANGED file

(* The rename also fails while somebody reads sessions.json (the disk's
   refusal). *)
Rename(a) ==
    /\ job[a].pc = "written"
    /\ \/ Fail(a) /\ UNCHANGED <<file, tmp>>
       \/ /\ tmp # Absent
          /\ \A b \in Writers : ~HoldsTmpOpen(b)
          /\ file' = IF tmp = Empty THEN Unreadable ELSE tmp
          /\ tmp' = Absent
          /\ IF a = Startup
             THEN /\ broker' = "up" /\ job' = [job EXCEPT ![a] = NoJob]
                  /\ UNCHANGED <<asked, answer, window>>
             ELSE Return(a) /\ UNCHANGED broker

(* A window that dies takes its runtime entry with it and leaves its record. *)
HandleHostDisconnect(s) ==
    /\ window[s] = "connected"
    /\ job[<<s, "host">>].pc = "idle"
    /\ window' = [window EXCEPT ![s] = "lost"]
    /\ UNCHANGED <<file, tmp, broker, asked, answer, job>>

(* Reset: a new broker forgets the records of the last one. *)
Reset ==
    /\ broker = "down"
    /\ broker' = "starting"
    /\ job' = [job EXCEPT ![Startup] = [pc |-> "loaded", mirror |-> NoSessions]]
    /\ UNCHANGED <<file, tmp, window, asked, answer>>

(* The broker dies; the calls under way fail at their callers, and a window
   whose registration fails goes. *)
Crash ==
    /\ broker # "down"
    /\ broker' = "down"
    /\ job' = [a \in Writers |-> NoJob]
    /\ asked' = [a \in Actors |-> NoUpdate]
    /\ answer' = [a \in Actors |-> "none"]
    /\ window' = [s \in Sessions |->
          IF window[s] = "connected" \/ asked[<<s, "host">>] # NoUpdate
          THEN "lost" ELSE window[s]]
    /\ UNCHANGED <<file, tmp>>

Next ==
    \/ \E a \in Actors : (\E u \in Updates : Ask(a, u)) \/ Load(a)
    \/ \E a \in Writers : OpenTmp(a) \/ WriteTmp(a) \/ Rename(a)
    \/ \E s \in Sessions : HandleHostDisconnect(s)
    \/ Reset
    \/ Crash

Spec == Init /\ [][Next]_vars
--------------------------------------------------------------------------------
(* Types of the files and of the handlers over them. *)
TypeOK ==
    /\ file \in Mirrors \cup {Unreadable}
    /\ tmp \in Mirrors \cup {Unreadable, Empty, Absent}
    /\ broker \in {"down", "starting", "up"}
    /\ window \in [Sessions -> {"new", "connected", "quit", "lost"}]
    /\ asked \in [Actors -> Updates \cup {NoUpdate}]
    /\ answer \in [Actors -> {"none", "ok", "error"}]
    /\ job \in [Writers -> [pc : Stages, mirror : Mirrors]]

(* The sections between load and rename exclude each other: nothing in the
   code sees to it, and what the file promises depends on nothing else. *)
OneSection == \A a, b \in Writers : InSection(a) /\ InSection(b) => a = b

(* sessions.json mirrors the live windows: outside a window's own calls, a
   connected window has a record and one that has quit (or is still to
   come) has none; launch.prepare, the busy count and idle shutdown read
   the file for that. *)
MirrorsLiveSessions ==
    broker = "up" =>
        \A s \in Sessions : job[<<s, "host">>].pc = "idle" =>
            /\ file # Unreadable
            /\ window[s] = "connected" => file[s] # NoRecord
            /\ window[s] \in {"new", "quit"} => file[s] = NoRecord

(* The handlers implement SessionStore: failures and crashes at any step
   leave each update done or not done, and the caller told which. *)
Store == INSTANCE SessionStore WITH records <- file
ImplementsSessionStore == Store!Spec
================================================================================
