------------------------------- MODULE WindowProofs -----------------------------
(***************************************************************************)
(* Theorems about the windows: HostReload for any windows, any number of   *)
(* switches and connections that hold any number of notices, and, in the   *)
(* last part, HomeScreen for any number of profiles and of requests under  *)
(* way.                                                                    *)
(***************************************************************************)
EXTENDS HostReload, HomeScreen, SequenceTheorems, TLAPS

(* What makes TypeOK inductive: a commit has saved an epoch before it tells
   anybody. *)
TypeInv == TypeOK /\ (commit # "idle" => epoch > 0)

(* Every step keeps it. *)
LEMMA TypeStep == TypeInv /\ [Next]_vars => TypeInv'
<1> SUFFICES ASSUME TypeInv, [Next]_vars PROVE TypeInv'
    OBVIOUS
<1> USE EpochAssumption DEF TypeInv, TypeOK, NoNotice, switch, window, Live, Gone, HostStates, ChildStates
<1>1. CASE CommitSave
  <2>1. /\ 1 .. epoch \subseteq 1 .. epoch'
        /\ 0 .. epoch \subseteq 0 .. epoch'
        /\ epoch' \in Nat
        BY <1>1 DEF CommitSave
  <2>2. ASSUME NEW w \in Windows PROVE events[w] \in Seq(1 .. epoch')
        BY <2>1, SeqMonotonic
  <2>3. events' \in [Windows -> Seq(1 .. epoch')]
        BY <1>1, <2>2 DEF CommitSave
  <2> QED
        BY <1>1, <2>1, <2>3 DEF CommitSave
<1>2. CASE CommitShutdown
      BY <1>2 DEF CommitShutdown, CutOff
<1>3. CASE CommitMark
      BY <1>3 DEF CommitMark
<1>4. CASE CommitFails
      BY <1>4 DEF CommitFails
<1>5. CASE CommitDone
      BY <1>5 DEF CommitDone
<1>6. ASSUME NEW w \in Windows, Notify(w) PROVE TypeInv'
  <2>1. epoch \in 1 .. epoch
        BY <1>6 DEF Notify
  <2>2. Append(events[w], epoch) \in Seq(1 .. epoch)
        BY <2>1
  <2>3. events' \in [Windows -> Seq(1 .. epoch)]
        BY <1>6, <2>2 DEF Notify
  <2>4. UNCHANGED <<epoch, active, commit, buffer, host, child, loaded, spec, noticed, killed>>
        BY <1>6 DEF Notify
  <2>5. unsent' \subseteq Windows
        BY <1>6 DEF Notify
  <2> HIDE DEF HostStates, ChildStates
  <2> QED
        BY <2>3, <2>4, <2>5
<1>7. ASSUME NEW w \in Windows, Deliver(w) PROVE TypeInv'
  <2>1. /\ Head(events[w]) \in 1 .. epoch
        /\ Tail(events[w]) \in Seq(1 .. epoch)
        BY <1>7 DEF Deliver
  <2> QED
        BY <1>7, <2>1 DEF Deliver
<1>8. ASSUME NEW w \in Windows, TakeHomeEvent(w) PROVE TypeInv'
      BY <1>8 DEF TakeHomeEvent
<1>9. ASSUME NEW w \in Windows, PrepareLoad(w) PROVE TypeInv'
      BY <1>9 DEF PrepareLoad
<1>10. ASSUME NEW w \in Windows, PrepareDone(w) PROVE TypeInv'
  <2>1. child' \in [Windows -> ChildStates]
    <3>1. CutOff \in [Windows -> ChildStates]
          BY DEF CutOff
    <3> QED
          BY <1>10, <3>1 DEF PrepareDone
  <2>2. /\ active' \in 0 .. epoch
        /\ spec' \in [Windows -> 0 .. epoch]
        /\ host' \in [Windows -> HostStates]
        BY <1>10 DEF PrepareDone
  <2>3. UNCHANGED <<epoch, commit, unsent, events, buffer, loaded, noticed, killed>>
        BY <1>10 DEF PrepareDone
  <2> HIDE DEF HostStates, ChildStates
  <2> QED
        BY <2>1, <2>2, <2>3
<1>11. ASSUME NEW w \in Windows, LaunchFails(w) PROVE TypeInv'
  <2>1. child' \in [Windows -> ChildStates]
    <3>1. CutOff \in [Windows -> ChildStates]
          BY DEF CutOff
    <3> QED
          BY <1>11, <3>1 DEF LaunchFails
  <2>2. /\ active' \in 0 .. epoch
        /\ host' \in [Windows -> HostStates]
        BY <1>11 DEF LaunchFails
  <2>3. UNCHANGED <<epoch, commit, unsent, events, buffer, loaded, spec, noticed, killed>>
        BY <1>11 DEF LaunchFails
  <2> HIDE DEF HostStates, ChildStates
  <2> QED
        BY <2>1, <2>2, <2>3
<1>12. ASSUME NEW w \in Windows, ChildEnds(w) PROVE TypeInv'
      BY <1>12 DEF ChildEnds
<1>13. ASSUME NEW w \in Windows, PollReload(w) PROVE TypeInv'
  <2>1. /\ buffer' = [buffer EXCEPT ![w] = 0]
        /\ noticed' = [noticed EXCEPT ![w] = buffer[w]] \/ noticed' = noticed
        /\ UNCHANGED <<epoch, active, commit, unsent, events, host, child, loaded, spec>>
        BY <1>13 DEF PollReload
  <2>2. killed' = [killed EXCEPT ![w] = FALSE] \/ killed' = killed
        BY <1>13 DEF PollReload
  <2> HIDE DEF HostStates, ChildStates
  <2>3. killed' \in [Windows -> BOOLEAN]
        BY <2>2
  <2>4. buffer' \in [Windows -> 0 .. epoch] /\ noticed' \in [Windows -> 0 .. epoch]
    <3> DEFINE E == 0 .. epoch
    <3>1. 0 \in E /\ buffer \in [Windows -> E] /\ noticed \in [Windows -> E]
          OBVIOUS
    <3> HIDE DEF E, TypeInv, TypeOK
    <3>2. buffer' \in [Windows -> E]
          BY <2>1, <3>1
    <3>3. noticed' \in [Windows -> E]
          BY <2>1, <3>1
    <3> QED
          BY <3>2, <3>3 DEF E
  <2> QED
        BY <2>1, <2>3, <2>4
<1>14. ASSUME NEW w \in Windows, Kill(w) PROVE TypeInv'
  <2>1. killed' \in [Windows -> BOOLEAN]
        BY <1>14 DEF Kill
  <2>2. /\ child' \in [Windows -> ChildStates]
        /\ UNCHANGED <<epoch, active, commit, unsent, events, buffer, host, loaded, spec, noticed>>
        BY <1>14 DEF Kill
  <2> HIDE DEF HostStates, ChildStates
  <2> QED
        BY <2>1, <2>2
<1>15. ASSUME NEW w \in Windows, SeeExit(w) PROVE TypeInv'
      BY <1>15 DEF SeeExit
<1>16. ASSUME NEW w \in Windows, Snapshot(w) PROVE TypeInv'
      BY <1>16 DEF Snapshot
<1>17. ASSUME NEW w \in Windows, SnapshotFails(w) PROVE TypeInv'
      BY <1>17 DEF SnapshotFails
<1>18. CASE UNCHANGED vars
      BY <1>18 DEF vars
<1> QED
      BY <1>1, <1>2, <1>3, <1>4, <1>5, <1>6, <1>7, <1>8, <1>9, <1>10, <1>11, <1>12,
         <1>13, <1>14, <1>15, <1>16, <1>17, <1>18
      DEF Next, Broker, Launch, Loop

(* It holds at the start. *)
LEMMA TypeInit == Init => TypeInv
BY DEF Init, TypeInv, TypeOK, NoNotice, HostStates, ChildStates

(* Whatever is announced, launched or recorded names an epoch that has been
   saved (Controller.CommitProfileSwitch saves state.json first). *)
THEOREM TypeCorrect == Spec => []TypeOK
<1>1. TypeInv => TypeOK
      BY DEF TypeInv
<1> QED
      BY <1>1, TypeInit, TypeStep, PTL DEF Spec

--------------------------------------------------------------------------------
(* A window is sent round the launch loop only by an epoch newer than its
   child's. *)
RelaunchIsDue == \A w \in Windows : host[w] = "relaunch" => spec[w] < epoch

(* Every step keeps that. *)
LEMMA RelaunchStep == TypeOK /\ RelaunchIsDue /\ [Next]_vars => RelaunchIsDue'
<1> SUFFICES ASSUME TypeOK, RelaunchIsDue, [Next]_vars, NEW v \in Windows,
                    host'[v] = "relaunch"
             PROVE spec'[v] < epoch'
    BY DEF RelaunchIsDue
<1> USE DEF TypeOK, RelaunchIsDue, switch, window
<1>1. CASE CommitSave
      BY <1>1 DEF CommitSave
<1>2. CASE UNCHANGED <<epoch, spec, host>>
      BY <1>2
<1>3. ASSUME NEW w \in Windows, PrepareDone(w) PROVE spec'[v] < epoch'
      BY <1>3 DEF PrepareDone
<1>4. ASSUME NEW w \in Windows, SeeExit(w) PROVE spec'[v] < epoch'
      BY <1>4 DEF SeeExit, IsNewer
<1>5. ASSUME NEW w \in Windows, Snapshot(w) PROVE spec'[v] < epoch'
      BY <1>5 DEF Snapshot, IsNewer
<1>6. ASSUME NEW w \in Windows, PrepareLoad(w) \/ LaunchFails(w) \/ SnapshotFails(w)
      PROVE spec'[v] < epoch'
      BY <1>6 DEF PrepareLoad, LaunchFails, SnapshotFails
<1> QED
      BY <1>1, <1>2, <1>3, <1>4, <1>5, <1>6
      DEF Next, Broker, Launch, Loop, CommitShutdown, CommitMark, CommitFails, CommitDone,
          Notify, Deliver, TakeHomeEvent, PollReload, Kill, ChildEnds, vars

(* A relaunch reads the epoch that state.json has by then, which is newer
   than the old child's: SessionRuntime.EnterCodex does not go round for
   nothing. *)
THEOREM ReloadsAdvance == Spec => EachReloadAdvances
<1> DEFINE A == \A w \in Windows :
                   host[w] = "relaunch" /\ host'[w] = "preparing" => loaded'[w] > spec[w]
<1>1. Init => RelaunchIsDue
      BY DEF Init, RelaunchIsDue
<1>2. TypeOK /\ RelaunchIsDue /\ [Next]_vars => A
  <2> SUFFICES ASSUME TypeOK, RelaunchIsDue, [Next]_vars, NEW w \in Windows,
                      host[w] = "relaunch", host'[w] = "preparing"
               PROVE loaded'[w] > spec[w]
      OBVIOUS
  <2> USE DEF TypeOK, RelaunchIsDue, switch, window
  <2>1. ASSUME NEW v \in Windows, PrepareLoad(v) PROVE loaded'[w] > spec[w]
        BY <2>1 DEF PrepareLoad
  <2>2. CASE UNCHANGED host
        BY <2>2
  <2>3. ASSUME NEW v \in Windows,
               PrepareDone(v) \/ LaunchFails(v) \/ SeeExit(v) \/ Snapshot(v) \/ SnapshotFails(v)
        PROVE FALSE
        BY <2>3 DEF PrepareDone, LaunchFails, SeeExit, Snapshot, SnapshotFails
  <2> QED
        BY <2>1, <2>2, <2>3
        DEF Next, Broker, Launch, Loop, CommitSave, CommitShutdown, CommitMark, CommitFails,
            CommitDone, Notify, Deliver, TakeHomeEvent, PollReload, Kill, ChildEnds, vars
<1>3. TypeOK /\ RelaunchIsDue /\ [Next]_vars => RelaunchIsDue'
      BY RelaunchStep
<1> QED
      BY <1>1, <1>2, <1>3, TypeCorrect, PTL DEF Spec, EachReloadAdvances

--------------------------------------------------------------------------------
(* NoLostNotice is about running children; what makes it inductive is that it
   holds of launches under way, and that notices come in the order of their
   epochs: a notice may only be replaced by a later one. *)
InOrder ==
    \A w \in Windows :
        /\ \A i, j \in 1 .. Len(events[w]) : i <= j => events[w][i] <= events[w][j]
        /\ \A i \in 1 .. Len(events[w]) : buffer[w] <= events[w][i]

LaunchesInformed ==
    \A w \in Windows :
        host[w] = "preparing" /\ loaded[w] < epoch /\ commit # "failed" =>
            Announced(w, loaded[w])

NoticeInv == TypeInv /\ InOrder /\ LaunchesInformed /\ NoLostNotice

(* What a connection's queue of notices loses and keeps when its first one
   is delivered. *)
LEMMA FirstAndRest ==
    ASSUME NEW S, NEW q \in Seq(S), q # <<>>
    PROVE /\ Len(q) \in Nat /\ Len(q) > 0 /\ Len(Tail(q)) = Len(q) - 1
          /\ \A i \in 1 .. Len(Tail(q)) : Tail(q)[i] = q[i + 1]
          /\ Head(q) = q[1] /\ q[1] \in S
<1>1. Len(q) \in Nat /\ Len(q) > 0
      OBVIOUS
<1>2. Len(Tail(q)) = Len(q) - 1 /\ (\A i \in 1 .. Len(Tail(q)) : Tail(q)[i] = q[i + 1])
      BY <1>1
<1>3. Head(q) = q[1] /\ q[1] \in S
      BY <1>1
<1> QED
      BY <1>1, <1>2, <1>3

(* broadcastReload sends what state.json holds, so the notices stay in
   order. *)
LEMMA OrderStep == TypeInv /\ InOrder /\ [Next]_vars => InOrder'
<1> SUFFICES ASSUME TypeInv, InOrder, [Next]_vars, NEW v \in Windows
             PROVE /\ \A i, j \in 1 .. Len(events'[v]) : i <= j => events'[v][i] <= events'[v][j]
                   /\ \A i \in 1 .. Len(events'[v]) : buffer'[v] <= events'[v][i]
    BY DEF InOrder
<1> USE DEF TypeInv, TypeOK, InOrder, switch, window, NoNotice
<1>1. CASE events'[v] = events[v] /\ (buffer'[v] = buffer[v] \/ buffer'[v] = 0)
      BY <1>1
<1>2. ASSUME Notify(v)
      PROVE /\ \A i, j \in 1 .. Len(events'[v]) : i <= j => events'[v][i] <= events'[v][j]
            /\ \A i \in 1 .. Len(events'[v]) : buffer'[v] <= events'[v][i]
  <2> DEFINE q == events[v]
  <2>1. q \in Seq(1 .. epoch) /\ buffer[v] \in 0 .. epoch /\ epoch \in Nat
        OBVIOUS
  <2>2. events'[v] = Append(q, epoch) /\ buffer'[v] = buffer[v]
        BY <1>2 DEF Notify
  <2>3. /\ Len(Append(q, epoch)) = Len(q) + 1
        /\ Append(q, epoch)[Len(q) + 1] = epoch
        /\ \A i \in 1 .. Len(q) : Append(q, epoch)[i] = q[i] /\ q[i] \in 1 .. epoch
        BY <2>1
  <2>4. /\ \A i, j \in 1 .. Len(q) : i <= j => q[i] <= q[j]
        /\ \A i \in 1 .. Len(q) : buffer[v] <= q[i]
        OBVIOUS
  <2>5. Len(q) \in Nat
        BY <2>1
  <2> HIDE DEF q
  <2> HIDE DEF TypeInv, TypeOK, InOrder
  <2>6. \A i \in 1 .. Len(q) + 1 : i \in 1 .. Len(q) \/ i = Len(q) + 1
        BY <2>5
  <2>7. ASSUME NEW i \in 1 .. Len(q) + 1, NEW j \in 1 .. Len(q) + 1, i <= j
        PROVE Append(q, epoch)[i] <= Append(q, epoch)[j]
        BY <2>1, <2>3, <2>4, <2>5, <2>6, <2>7
  <2>8. ASSUME NEW i \in 1 .. Len(q) + 1 PROVE buffer[v] <= Append(q, epoch)[i]
        BY <2>1, <2>3, <2>4, <2>6
  <2> QED
        BY <2>2, <2>3, <2>7, <2>8
<1>3. ASSUME Deliver(v)
      PROVE /\ \A i, j \in 1 .. Len(events'[v]) : i <= j => events'[v][i] <= events'[v][j]
            /\ \A i \in 1 .. Len(events'[v]) : buffer'[v] <= events'[v][i]
  <2> DEFINE q == events[v]
  <2>1. q \in Seq(1 .. epoch) /\ q # <<>>
        BY <1>3 DEF Deliver
  <2>2. events'[v] = Tail(q) /\ buffer'[v] = Head(q)
        BY <1>3 DEF Deliver
  <2>3. /\ Len(Tail(q)) = Len(q) - 1 /\ Head(q) = q[1] /\ Len(q) \in Nat
        /\ \A i \in 1 .. Len(Tail(q)) : Tail(q)[i] = q[i + 1]
        BY <2>1, FirstAndRest
  <2>4. \A i, j \in 1 .. Len(q) : i <= j => q[i] <= q[j]
        OBVIOUS
  <2> HIDE DEF q
  <2>5. ASSUME NEW i \in 1 .. Len(Tail(q)), NEW j \in 1 .. Len(Tail(q)), i <= j
        PROVE Tail(q)[i] <= Tail(q)[j]
        BY <2>3, <2>4, <2>5
  <2>6. ASSUME NEW i \in 1 .. Len(Tail(q)) PROVE Head(q) <= Tail(q)[i]
    <3>1. 1 \in 1 .. Len(q) /\ i + 1 \in 1 .. Len(q) /\ 1 <= i + 1
          BY <2>3
    <3> QED
          BY <2>3, <2>4, <3>1
  <2> QED
        BY <2>2, <2>5, <2>6
<1>4. CASE UNCHANGED <<events, buffer>>
      BY <1>1, <1>4
<1>5. ASSUME NEW w \in Windows, Notify(w) \/ Deliver(w), w # v
      PROVE events'[v] = events[v] /\ buffer'[v] = buffer[v]
      BY <1>5 DEF Notify, Deliver
<1>6. ASSUME NEW w \in Windows, TakeHomeEvent(w) \/ PollReload(w)
      PROVE events'[v] = events[v] /\ (buffer'[v] = buffer[v] \/ buffer'[v] = 0)
      BY <1>6 DEF TakeHomeEvent, PollReload
<1>7. ASSUME NEW w \in Windows,
             \/ PrepareLoad(w) \/ PrepareDone(w) \/ LaunchFails(w) \/ Kill(w) \/ ChildEnds(w)
             \/ SeeExit(w) \/ Snapshot(w) \/ SnapshotFails(w)
      PROVE UNCHANGED <<events, buffer>>
      BY <1>7 DEF PrepareLoad, PrepareDone, LaunchFails, Kill, ChildEnds, SeeExit, Snapshot,
                  SnapshotFails
<1> QED
      BY <1>1, <1>2, <1>3, <1>4, <1>5, <1>6, <1>7
      DEF Next, Broker, Launch, Loop, CommitSave, CommitShutdown, CommitMark, CommitFails,
          CommitDone, vars

(* A window that is launching or running its child does not lose a notice of
   an epoch after its own, unless it goes Home or round the launch loop. *)
LEMMA AnnouncedStep ==
    ASSUME TypeInv, InOrder, [Next]_vars, commit' # "failed",
           NEW v \in Windows, NEW e \in Nat, Announced(v, e),
           host[v] \in {"preparing", "codex"}, host[v] = "codex" => e = spec[v]
    PROVE Announced(v, e)'
<1> USE DEF TypeInv, TypeOK, Announced, switch, window, NoNotice
<1>1. CASE CommitSave
      BY <1>1 DEF CommitSave
<1>2. CASE CommitShutdown
      BY <1>2 DEF CommitShutdown
<1>3. CASE CommitMark
      BY <1>3 DEF CommitMark
<1>4. CASE CommitFails
      BY <1>4 DEF CommitFails
<1>5. CASE CommitDone
      BY <1>5 DEF CommitDone
<1>6. ASSUME NEW w \in Windows, Notify(w) PROVE Announced(v, e)'
  <2>1. CASE w # v
        BY <1>6, <2>1 DEF Notify
  <2>2. CASE w = v
    <3> DEFINE q == events[v]
    <3>1. q \in Seq(1 .. epoch) /\ epoch \in Nat
          OBVIOUS
    <3>2. events'[v] = Append(q, epoch)
          BY <1>6, <2>2 DEF Notify
    <3>3. /\ Len(q) \in Nat /\ Len(Append(q, epoch)) = Len(q) + 1
          /\ Append(q, epoch)[Len(q) + 1] = epoch
          /\ \A i \in 1 .. Len(q) : Append(q, epoch)[i] = q[i]
          BY <3>1
    <3>4. CASE epoch > e
      <4>1. Len(q) + 1 \in 1 .. Len(events'[v]) /\ events'[v][Len(q) + 1] > e
            BY <3>2, <3>3, <3>4
      <4> QED
            BY <4>1
    <3>5. CASE \E i \in 1 .. Len(q) : q[i] > e
      <4>1. PICK i \in 1 .. Len(q) : q[i] > e
            BY <3>5
      <4>2. i \in 1 .. Len(events'[v]) /\ events'[v][i] > e
            BY <3>2, <3>3, <4>1
      <4> QED
            BY <4>2
    <3>6. CASE noticed[v] > e \/ buffer[v] > e
          BY <1>6, <3>6 DEF Notify
    <3> QED
          BY <3>4, <3>5, <3>6
  <2> QED
        BY <2>1, <2>2
<1>7. ASSUME NEW w \in Windows, Deliver(w) PROVE Announced(v, e)'
  <2>1. CASE w # v
        BY <1>7, <2>1 DEF Deliver
  <2>2. CASE w = v
    <3> DEFINE q == events[v]
    <3>1. q \in Seq(1 .. epoch) /\ q # <<>>
          BY <1>7, <2>2 DEF Deliver
    <3>2. events'[v] = Tail(q) /\ buffer'[v] = q[1]
          BY <1>7, <2>2 DEF Deliver
    <3>3. /\ Len(q) \in Nat /\ Len(q) > 0 /\ Len(Tail(q)) = Len(q) - 1
          /\ \A i \in 1 .. Len(Tail(q)) : Tail(q)[i] = q[i + 1]
          /\ q[1] \in 1 .. epoch
          BY <3>1, FirstAndRest
    <3>4. CASE buffer[v] > e
      <4>1. buffer[v] <= q[1] /\ buffer[v] \in 0 .. epoch
            BY <3>3 DEF InOrder
      <4>2. buffer'[v] > e
            BY <3>2, <3>3, <3>4, <4>1
      <4> QED
            BY <4>2
    <3>5. CASE \E i \in 1 .. Len(q) : q[i] > e
      <4>1. PICK i \in 1 .. Len(q) : q[i] > e
            BY <3>5
      <4>2. CASE i = 1
            BY <3>2, <4>1, <4>2
      <4>3. CASE i # 1
        <5>1. i - 1 \in 1 .. Len(Tail(q)) /\ (i - 1) + 1 = i
              BY <3>3, <4>3
        <5>2. Tail(q)[i - 1] = q[i]
              BY <3>3, <5>1
        <5> QED
              BY <3>2, <4>1, <5>1, <5>2
      <4> QED
            BY <4>2, <4>3
    <3>6. CASE noticed[v] > e \/ (commit \in {"saved", "starting"} /\ epoch > e)
               \/ (commit = "marked" /\ v \in unsent /\ epoch > e)
          BY <1>7, <3>6 DEF Deliver
    <3> QED
          BY <3>4, <3>5, <3>6
  <2> QED
        BY <2>1, <2>2
<1>8. ASSUME NEW w \in Windows, TakeHomeEvent(w) PROVE Announced(v, e)'
      BY <1>8 DEF TakeHomeEvent
<1>9. ASSUME NEW w \in Windows, PrepareLoad(w) PROVE Announced(v, e)'
      BY <1>9 DEF PrepareLoad
<1>10. ASSUME NEW w \in Windows, PrepareDone(w) PROVE Announced(v, e)'
      BY <1>10 DEF PrepareDone
<1>11. ASSUME NEW w \in Windows, PollReload(w) PROVE Announced(v, e)'
      BY <1>11 DEF PollReload, IsNewer
<1>12. CASE UNCHANGED <<epoch, commit, unsent, events, buffer, noticed>>
      BY <1>12
<1> QED
      BY <1>1, <1>2, <1>3, <1>4, <1>5, <1>6, <1>7, <1>8, <1>9, <1>10, <1>11, <1>12
      DEF Next, Broker, Launch, Loop, LaunchFails, Kill, ChildEnds, SeeExit, Snapshot,
          SnapshotFails, vars

(* No window is left on an old epoch without a notice, unless the last commit
   failed: not one that was between launch.prepare's read and its child's
   start when the switch committed, and not one whose buffer was full. *)
THEOREM NoticesReachWindows == Spec => []NoLostNotice
<1>1. Init => NoticeInv
  <2> SUFFICES ASSUME Init PROVE InOrder /\ LaunchesInformed /\ NoLostNotice
      BY TypeInit DEF NoticeInv
  <2> QED
      BY DEF Init, InOrder, LaunchesInformed, NoLostNotice
<1>2. NoticeInv /\ [Next]_vars => NoticeInv'
  <2> SUFFICES ASSUME NoticeInv, [Next]_vars PROVE NoticeInv'
      OBVIOUS
  <2>1. TypeInv' /\ InOrder'
        BY TypeStep, OrderStep DEF NoticeInv
  <2>2. ASSUME NEW v \in Windows, NEW e \in 0 .. epoch, e < epoch', e = epoch
        PROVE Announced(v, e)'
    <3>1. CASE CommitSave
          BY <2>2, <3>1 DEF CommitSave, Announced, NoticeInv, TypeInv, TypeOK
    <3>2. CASE epoch' = epoch
          BY <2>2, <3>2 DEF NoticeInv, TypeInv, TypeOK
    <3> QED
          BY <3>1, <3>2
          DEF Next, Broker, Launch, Loop, CommitShutdown, CommitMark, CommitFails, CommitDone,
              Notify, Deliver, TakeHomeEvent, PrepareLoad, PrepareDone, LaunchFails,
              PollReload, Kill, ChildEnds, SeeExit, Snapshot, SnapshotFails, vars, switch
  <2>3. ASSUME NEW v \in Windows, NEW e \in 0 .. epoch, e < epoch', commit' # "failed",
               \/ host[v] = "preparing" /\ e = loaded[v]
               \/ host[v] = "codex" /\ e = spec[v]
        PROVE Announced(v, e)'
    <3>1. e \in Nat /\ epoch \in Nat
          BY DEF NoticeInv, TypeInv, TypeOK
    <3>2. CASE e = epoch
          BY <2>2, <2>3, <3>2
    <3>3. CASE e < epoch /\ commit # "failed"
      <4>1. Announced(v, e)
            BY <2>3, <3>3 DEF NoticeInv, LaunchesInformed, NoLostNotice
      <4> QED
            BY <2>3, <3>1, <4>1, AnnouncedStep DEF NoticeInv
    <3>4. CASE commit = "failed"
      <4>1. CASE CommitSave
            BY <2>3, <3>1, <4>1 DEF CommitSave, Announced, NoticeInv, TypeInv, TypeOK
      <4>2. CASE commit' = commit
            BY <2>3, <3>4, <4>2
      <4> QED
            BY <3>4, <4>1, <4>2
            DEF Next, Broker, Launch, Loop, CommitShutdown, CommitMark, CommitFails,
                CommitDone, Notify, Deliver, TakeHomeEvent, PrepareLoad, PrepareDone,
                LaunchFails, PollReload, Kill, ChildEnds, SeeExit, Snapshot, SnapshotFails,
                vars, switch
    <3> QED
          BY <3>1, <3>2, <3>3, <3>4
  <2>4. ASSUME NEW v \in Windows, host'[v] = "preparing", loaded'[v] < epoch'
        PROVE host[v] = "preparing" /\ loaded'[v] = loaded[v]
        BY <2>4
        DEF Next, Broker, Launch, Loop, CommitSave, CommitShutdown, CommitMark,
                CommitFails, CommitDone, Notify, Deliver, TakeHomeEvent, PrepareLoad,
                PrepareDone, LaunchFails, PollReload, Kill, ChildEnds, SeeExit, Snapshot,
                SnapshotFails, vars, window, switch, NoticeInv, TypeInv, TypeOK
  <2>5. ASSUME NEW v \in Windows, host'[v] = "codex"
        PROVE \/ host[v] = "preparing" /\ spec'[v] = loaded[v]
              \/ host[v] = "codex" /\ spec'[v] = spec[v]
        BY <2>5
        DEF Next, Broker, Launch, Loop, CommitSave, CommitShutdown, CommitMark,
                CommitFails, CommitDone, Notify, Deliver, TakeHomeEvent, PrepareLoad,
                PrepareDone, LaunchFails, PollReload, Kill, ChildEnds, SeeExit, Snapshot,
                SnapshotFails, vars, window, switch, NoticeInv, TypeInv, TypeOK
  <2>6. LaunchesInformed'
    <3> SUFFICES ASSUME NEW v \in Windows, host'[v] = "preparing", loaded'[v] < epoch',
                        commit' # "failed"
                 PROVE Announced(v, loaded[v])'
        BY DEF LaunchesInformed
    <3>1. PICK e \in 0 .. epoch : e = loaded[v]
          BY DEF NoticeInv, TypeInv, TypeOK
    <3>2. host[v] = "preparing" /\ loaded'[v] = e
          BY <2>4, <3>1
    <3>3. Announced(v, e)'
          BY <2>3, <3>1, <3>2
    <3> QED
          BY <3>2, <3>3 DEF Announced
  <2>7. NoLostNotice'
    <3> SUFFICES ASSUME NEW v \in Windows, host'[v] = "codex", spec'[v] < epoch',
                        commit' # "failed"
                 PROVE Announced(v, spec[v])'
        BY DEF NoLostNotice
    <3>1. PICK e \in 0 .. epoch : e = spec'[v]
          BY <2>5 DEF NoticeInv, TypeInv, TypeOK
    <3>2. Announced(v, e)'
          BY <2>3, <2>5, <3>1
    <3> QED
          BY <3>1, <3>2 DEF Announced
  <2> QED
        BY <2>1, <2>6, <2>7 DEF NoticeInv
<1>3. NoticeInv => NoLostNotice
      BY DEF NoticeInv
<1> QED
      BY <1>1, <1>2, <1>3, PTL DEF Spec
--------------------------------------------------------------------------------
(* The Home screen of a window, between its launches *)

(* Requests have their type; a snapshot on its way is one the broker could
   have given, no longer than its list is now, and names one of its own
   profiles; profile.select names one of the broker's. *)
SlotStates ==
    [is : {"free"} \cup Calls \cup Messages, arg : 0..MaxProfiles \cup {1}, got : Snapshots]

Sound(r, profiles) ==
    /\ r.got.profiles <= profiles /\ r.got.selected <= r.got.profiles
    /\ r.is = "select" => r.arg <= profiles

RequestsSound ==
    /\ request \in [Slots -> SlotStates]
    /\ \A s \in Slots : Sound(request[s], broker.profiles)

BrokerSound ==
    /\ broker \in Snapshots /\ broker.selected <= broker.profiles
    /\ changes \in 0..MaxChanges /\ faults \in 0..MaxFaults

(* The screen: its list is not longer than the broker's, because profiles are
   only added, and the cursor is within it. *)
ScreenSound ==
    /\ shown \in Snapshots /\ shown.profiles <= broker.profiles
    /\ cursor \in Nat
    /\ IF shown.profiles = 0 THEN cursor = 0 ELSE cursor < shown.profiles

RestSound ==
    /\ at \in Places
    /\ armed = IF at \in Screens THEN Timers ELSE {}
    /\ notices \subseteq {"switch", "reload"}
    /\ lost \subseteq Slots

HomeInv == BrokerSound /\ RequestsSound /\ ScreenSound /\ RestSound

LEMMA HomeTyped == HomeInv => HomeTypeOK
BY DEF HomeInv, BrokerSound, RequestsSound, ScreenSound, RestSound, HomeTypeOK, SlotStates

LEMMA FreeSlot == Free \in SlotStates /\ Free.got.profiles = 0 /\ Free.got.selected = 0
BY BoundsAssumption DEF SlotStates, Free, Empty, Snapshots, NobodysSwitch

LEMMA HomeInvInit == HomeInit => HomeInv
<1> SUFFICES ASSUME HomeInit PROVE HomeInv
  OBVIOUS
<1>1. PICK n \in 0..MaxProfiles : broker = [Empty EXCEPT !.profiles = n, !.selected = n]
  BY DEF HomeInit
<1>2. broker = [profiles |-> n, selected |-> n, pending |-> "none", clear |-> FALSE]
  BY <1>1 DEF Empty, NobodysSwitch
<1>3. Empty \in Snapshots /\ Empty.profiles = 0 /\ Empty.selected = 0
  BY BoundsAssumption DEF Empty, Snapshots, NobodysSwitch
<1>4. changes = 0 /\ faults = 0 /\ shown = Empty /\ cursor = 0
  BY DEF HomeInit
<1>5. BrokerSound /\ broker.profiles \in Nat
  BY <1>2, <1>4, BoundsAssumption DEF BrokerSound, Snapshots, NobodysSwitch
<1>6. RequestsSound
  <2>1. PICK s \in Slots : request = [q \in Slots |-> IF q = s THEN [Free EXCEPT !.is = "snapshot"]
                                                               ELSE Free]
    BY DEF HomeInit
  <2> DEFINE first == [Free EXCEPT !.is = "snapshot"]
  <2>2. first \in SlotStates /\ first.got = Free.got /\ first.is = "snapshot"
    BY FreeSlot DEF SlotStates, Calls
  <2>3. Free.is = "free"
    BY DEF Free
  <2> HIDE DEF first
  <2>4. \A q \in Slots : request[q] \in SlotStates /\ Sound(request[q], broker.profiles)
    BY <1>5, <2>1, <2>2, <2>3, FreeSlot DEF Sound, first
  <2> QED
    BY <2>1, <2>4 DEF RequestsSound
<1>7. ScreenSound
  BY <1>3, <1>4, <1>5 DEF ScreenSound
<1>8. RestSound
  BY DEF RestSound, HomeInit, Places, Screens
<1> QED
  BY <1>5, <1>6, <1>7, <1>8 DEF HomeInv

(* A slot that takes another sound state leaves the requests sound, as long as
   the broker's list is not shorter. *)
LEMMA SlotChanges ==
    ASSUME HomeInv, broker.profiles <= broker'.profiles, broker'.profiles \in Nat,
           NEW s \in Slots, NEW r \in SlotStates, Sound(r, broker'.profiles),
           request' = [request EXCEPT ![s] = r]
    PROVE  RequestsSound'
<1>1. request' \in [Slots -> SlotStates]
  BY DEF HomeInv, RequestsSound
<1>2. ASSUME NEW q \in Slots PROVE Sound(request'[q], broker'.profiles)
  <2>1. CASE q = s
    BY <2>1 DEF HomeInv, RequestsSound
  <2>2. CASE q # s
    <3>1. request'[q] = request[q] /\ request[q] \in SlotStates /\ Sound(request[q], broker.profiles)
      BY <2>2 DEF HomeInv, RequestsSound
    <3>2. broker.profiles \in Nat
      BY DEF HomeInv, BrokerSound, Snapshots
    <3>3. request[q].got.profiles \in Nat /\ (request[q].arg \in Nat)
      BY <3>1, BoundsAssumption DEF SlotStates, Snapshots
    <3> QED
      BY <3>1, <3>2, <3>3 DEF Sound
  <2> QED
    BY <2>1, <2>2
<1> QED
  BY <1>1, <1>2 DEF RequestsSound

LEMMA AskKeeps ==
    ASSUME HomeInv, UNCHANGED broker,
           NEW call \in Calls, NEW arg \in 0..MaxProfiles \cup {1},
           call = "select" => arg <= broker.profiles, Ask(call, arg)
    PROVE  RequestsSound'
<1> DEFINE r == [Free EXCEPT !.is = call, !.arg = arg]
<1>1. PICK s \in Slots : request' = [request EXCEPT ![s] = r]
  BY DEF Ask
<1>2. broker.profiles \in Nat
  BY BoundsAssumption DEF HomeInv, BrokerSound, Snapshots
<1>3. r \in SlotStates /\ r.got = Free.got /\ r.is = call /\ r.arg = arg
  BY FreeSlot DEF SlotStates
<1> HIDE DEF r
<1>4. Sound(r, broker'.profiles)
  BY <1>2, <1>3, FreeSlot DEF Sound
<1>5. broker.profiles <= broker'.profiles /\ broker'.profiles \in Nat
  BY <1>2
<1> QED
  BY <1>1, <1>3, <1>4, <1>5, SlotChanges

LEMMA TakeKeeps ==
    ASSUME HomeInv, UNCHANGED broker, NEW s \in Slots, Take(s)
    PROVE  RequestsSound'
<1> DEFINE r == Free
<1>1. broker.profiles \in Nat
  BY BoundsAssumption DEF HomeInv, BrokerSound, Snapshots
<1>2. r \in SlotStates
  BY FreeSlot
<1>3. Sound(r, broker'.profiles)
  BY <1>1, FreeSlot DEF Sound, Free
<1>4. broker.profiles <= broker'.profiles /\ broker'.profiles \in Nat
  BY <1>1
<1>5. request' = [request EXCEPT ![s] = r]
  BY DEF Take
<1> HIDE DEF r
<1> QED
  BY <1>2, <1>3, <1>4, <1>5, SlotChanges

LEMMA BecomesKeeps ==
    ASSUME HomeInv, broker.profiles <= broker'.profiles, broker'.profiles \in Nat,
           NEW s \in Slots, NEW m \in {"snapshot", "updated", "failed"}, Becomes(s, m)
    PROVE  RequestsSound'
<1> DEFINE old == request[s]
           r == [old EXCEPT !.is = m]
<1>1. old \in SlotStates /\ Sound(old, broker.profiles)
  BY DEF HomeInv, RequestsSound
<1>2. broker.profiles \in Nat
  BY BoundsAssumption DEF HomeInv, BrokerSound, Snapshots
<1> HIDE DEF old
<1>3. r \in SlotStates
  BY <1>1 DEF SlotStates, Calls, Messages
<1>4. r.got = old.got /\ r.is # "select" /\ old.got.profiles \in Nat
  BY <1>1, BoundsAssumption DEF SlotStates, Snapshots
<1>5. Sound(r, broker'.profiles)
  BY <1>1, <1>2, <1>4 DEF Sound, old
<1>6. request' = [request EXCEPT ![s] = r]
  BY DEF Becomes, old
<1> HIDE DEF r
<1> QED
  BY <1>3, <1>5, <1>6, SlotChanges

LEMMA UnchangedKeeps ==
    ASSUME HomeInv
    PROVE  /\ UNCHANGED outside => BrokerSound'
           /\ UNCHANGED <<broker, request>> => RequestsSound'
           /\ UNCHANGED <<broker, shown, cursor>> => ScreenSound'
           /\ UNCHANGED <<at, armed, notices, lost>> => RestSound'
BY DEF HomeInv, BrokerSound, RequestsSound, Sound, ScreenSound, RestSound, outside

(* A program that has quit or been left for another screen. *)
LEMMA QuitKeeps ==
    ASSUME HomeInv, NEW where \in {"codex", "login", "gone"}, Quit(where)
    PROVE  HomeInv'
<1>1. BrokerSound' /\ RequestsSound' /\ ScreenSound'
  BY UnchangedKeeps DEF Quit, outside
<1>2. RestSound'
  BY DEF HomeInv, RestSound, Quit, Places, Screens
<1> QED
  BY <1>1, <1>2 DEF HomeInv

LEMMA GoToKeeps ==
    ASSUME HomeInv, at \in Screens, NEW screen \in Screens, GoTo(screen)
    PROVE  HomeInv'
<1>1. BrokerSound' /\ RequestsSound' /\ ScreenSound'
  BY UnchangedKeeps DEF GoTo, outside, view
<1>2. RestSound'
  BY DEF HomeInv, RestSound, GoTo, view, Places, Screens
<1> QED
  BY <1>1, <1>2 DEF HomeInv

(* Space asks for a profile of the broker's, because the cursor is on one that
   is shown. *)
LEMMA SelectKeeps == HomeInv /\ Select => HomeInv'
<1> SUFFICES ASSUME HomeInv, Select PROVE HomeInv'
  OBVIOUS
<1>1. BrokerSound' /\ ScreenSound' /\ RestSound' /\ UNCHANGED broker
  BY UnchangedKeeps DEF Select, outside, view
<1>2. /\ cursor \in Nat /\ shown.profiles # 0 /\ cursor < shown.profiles
      /\ shown.profiles <= broker.profiles
  BY DEF HomeInv, ScreenSound, Select
<1>3. shown.profiles \in 0..MaxProfiles /\ broker.profiles \in 0..MaxProfiles
  BY DEF HomeInv, ScreenSound, BrokerSound, Snapshots
<1>4. cursor + 1 \in 0..MaxProfiles /\ cursor + 1 <= broker.profiles
  BY <1>2, <1>3, BoundsAssumption 
<1>5. Ask("select", cursor + 1) /\ "select" \in Calls
  BY DEF Select, Calls
<1>6. RequestsSound'
  BY <1>1, <1>4, <1>5, AskKeeps
<1> QED
  BY <1>1, <1>6 DEF HomeInv

LEMMA KeysKeep == HomeInv /\ Keys => HomeInv'
<1> SUFFICES ASSUME HomeInv, Keys PROVE HomeInv'
  OBVIOUS
<1>1. CASE OpenScreen
  BY <1>1, GoToKeeps DEF OpenScreen, Screens
<1>2. CASE BackHome
  <2>1. BrokerSound' /\ ScreenSound' /\ UNCHANGED broker
    BY <1>2, UnchangedKeeps DEF BackHome, outside, view
  <2>2. RestSound'
    BY <1>2 DEF HomeInv, RestSound, BackHome, view, Places, Screens
  <2>3. RequestsSound'
    BY <1>2, <2>1, AskKeeps, BoundsAssumption DEF BackHome, Calls
  <2> QED
    BY <2>1, <2>2, <2>3 DEF HomeInv
<1>3. CASE LinkProfile \/ Continue \/ QuitKey
  BY <1>3, QuitKeeps DEF LinkProfile, Continue, QuitKey
<1>4. CASE ToggleSetting
  <2>1. BrokerSound' /\ ScreenSound' /\ RestSound' /\ UNCHANGED broker
    BY <1>4, UnchangedKeeps DEF ToggleSetting, outside, view
  <2>2. \E arg \in 0..MaxProfiles \cup {1} : Ask("set", arg)
    BY <1>4, BoundsAssumption DEF ToggleSetting
  <2>3. RequestsSound'
    BY <2>1, <2>2, AskKeeps DEF Calls
  <2> QED
    BY <2>1, <2>3 DEF HomeInv
<1>5. CASE EndPending \/ Refresh
  <2>1. BrokerSound' /\ ScreenSound' /\ RestSound' /\ UNCHANGED broker
    BY <1>5, UnchangedKeeps DEF EndPending, Refresh, outside, view
  <2>2. Ask("end", 0) \/ Ask("snapshot", 0)
    BY <1>5 DEF EndPending, Refresh
  <2>3. RequestsSound'
    BY <2>1, <2>2, AskKeeps, BoundsAssumption DEF Calls
  <2> QED
    BY <2>1, <2>3 DEF HomeInv
<1>6. CASE Up \/ Down
  <2>1. /\ UNCHANGED <<broker, shown>>
        /\ \/ cursor > 0 /\ cursor' = cursor - 1
           \/ cursor + 1 < shown.profiles /\ cursor' = cursor + 1
    BY <1>6 DEF Up, Down, outside
  <2>2. BrokerSound' /\ RequestsSound' /\ RestSound'
    BY <1>6, UnchangedKeeps DEF Up, Down, outside
  <2>3. ScreenSound'
    BY <2>1, BoundsAssumption DEF HomeInv, ScreenSound, Snapshots
  <2> QED
    BY <2>2, <2>3 DEF HomeInv
<1> QED
  BY <1>1, <1>2, <1>3, <1>4, <1>5, <1>6, SelectKeeps DEF Keys

(* The loop of runHost and the timers. *)
LEMMA LoopKeeps ==
    HomeInv /\ (Run \/ TakeReload \/ Tick \/ Poll) => HomeInv'
<1> SUFFICES ASSUME HomeInv PROVE
      Run \/ TakeReload \/ Tick \/ Poll => HomeInv'
  OBVIOUS
<1>1. ASSUME UNCHANGED broker, Ask("snapshot", 0) PROVE RequestsSound'
  BY <1>1, AskKeeps, BoundsAssumption DEF Calls
<1>2. CASE Run
  <2>1. UNCHANGED outside /\ Ask("snapshot", 0)
    BY <1>2 DEF Run
  <2>2. BrokerSound' /\ RequestsSound'
    BY <1>1, <2>1, UnchangedKeeps DEF outside
  <2>3. RestSound'
    BY <1>2 DEF HomeInv, RestSound, Run, Places, Screens
  <2>4. Empty \in Snapshots /\ Empty.profiles = 0
    BY BoundsAssumption DEF Empty, Snapshots, NobodysSwitch
  <2>5. shown' = Empty /\ cursor' = 0
    BY <1>2 DEF Run
  <2>6. broker.profiles \in Nat /\ broker' = broker
    BY <2>1, BoundsAssumption DEF HomeInv, BrokerSound, Snapshots, outside
  <2>7. ScreenSound'
    BY <2>4, <2>5, <2>6 DEF ScreenSound
  <2> QED
    BY <2>2, <2>3, <2>7 DEF HomeInv
<1>3. CASE TakeReload
  <2>1. BrokerSound' /\ RequestsSound' /\ ScreenSound'
    BY <1>3, UnchangedKeeps DEF TakeReload, outside, view
  <2>2. RestSound'
    BY <1>3 DEF HomeInv, RestSound, TakeReload, view
  <2> QED
    BY <2>1, <2>2 DEF HomeInv
<1>4. CASE Tick \/ Poll
  <2>1. UNCHANGED outside /\ UNCHANGED view /\ Ask("snapshot", 0)
    BY <1>4 DEF Tick, Poll
  <2>2. BrokerSound' /\ RequestsSound' /\ ScreenSound'
    BY <1>1, <2>1, UnchangedKeeps DEF outside, view
  <2>3. RestSound'
    BY <1>4 DEF HomeInv, RestSound, Tick, Poll, view
  <2> QED
    BY <2>2, <2>3 DEF HomeInv
<1> QED
  BY <1>2, <1>3, <1>4

(* Messages: what is shown next was got from the broker. *)
LEMMA MessageKeeps ==
    ASSUME HomeInv, NEW s \in Slots, Message(s)
    PROVE  HomeInv'
<1>1. UNCHANGED outside /\ Take(s)
  BY DEF Message, Show, SettingsUpdated, ShowError, Drop
<1>2. BrokerSound' /\ RequestsSound'
  BY <1>1, TakeKeeps, UnchangedKeeps DEF outside
<1>3. RestSound'
  BY DEF HomeInv, RestSound, Message, Show, SettingsUpdated, ShowError,
         Drop, view
<1> DEFINE got == request[s].got
<1>4. got \in Snapshots /\ got.profiles <= broker.profiles /\ got.selected <= got.profiles
  BY DEF HomeInv, RequestsSound, SlotStates, Sound
<1>5. got.profiles \in Nat /\ got.selected \in Nat /\ broker' = broker
  BY <1>1, <1>4, BoundsAssumption DEF Snapshots, outside
<1>6. ScreenSound'
  <2>1. CASE Show(s)
    <3>1. shown' = got /\ cursor' = Synced(got)
      BY <2>1 DEF Show
    <3>2. cursor \in Nat
      BY DEF HomeInv, ScreenSound
    <3> HIDE DEF got
    <3>3. /\ Synced(got) \in Nat
          /\ IF got.profiles = 0 THEN Synced(got) = 0 ELSE Synced(got) < got.profiles
      BY <1>4, <1>5, <3>2 DEF Synced
    <3> QED
      BY <1>4, <1>5, <3>1, <3>3 DEF ScreenSound
  <2>2. CASE SettingsUpdated(s)
    <3>1. shown \in Snapshots /\ UNCHANGED <<broker, cursor>>
      BY <1>5, <2>2 DEF HomeInv, ScreenSound, SettingsUpdated
    <3>2. \E b \in BOOLEAN : shown' = [shown EXCEPT !.clear = b]
      BY <2>2 DEF SettingsUpdated
    <3>3. shown' \in Snapshots /\ shown'.profiles = shown.profiles
      BY <3>1, <3>2 DEF Snapshots
    <3> QED
      BY <3>1, <3>3 DEF HomeInv, ScreenSound
  <2>3. CASE ShowError(s) \/ Drop(s)
    BY <1>5, <2>3, UnchangedKeeps DEF ShowError, Drop, view
  <2> QED
    BY <2>1, <2>2, <2>3 DEF Message
<1> QED
  BY <1>2, <1>3, <1>6 DEF HomeInv

(* A list that only grows, or stays. *)
LEMMA GrowthKeeps ==
    ASSUME HomeInv, broker' \in Snapshots, broker.profiles <= broker'.profiles
    PROVE  /\ UNCHANGED request => RequestsSound'
           /\ UNCHANGED <<shown, cursor>> => ScreenSound'
<1>1. broker.profiles \in Nat /\ broker'.profiles \in Nat
  BY BoundsAssumption DEF HomeInv, BrokerSound, Snapshots
<1>2. ASSUME UNCHANGED request PROVE RequestsSound'
  <2>1. ASSUME NEW s \in Slots PROVE Sound(request[s], broker'.profiles)
    <3>1. request[s] \in SlotStates /\ Sound(request[s], broker.profiles)
      BY DEF HomeInv, RequestsSound
    <3>2. request[s].got.profiles \in Nat /\ request[s].arg \in Nat
      BY <3>1, BoundsAssumption DEF SlotStates, Snapshots
    <3> QED
      BY <1>1, <3>1, <3>2 DEF Sound
  <2> QED
    BY <1>2, <2>1 DEF HomeInv, RequestsSound
<1>3. ASSUME UNCHANGED <<shown, cursor>> PROVE ScreenSound'
  <2>1. shown.profiles \in Nat
    BY BoundsAssumption DEF HomeInv, ScreenSound, Snapshots
  <2> QED
    BY <1>1, <1>3, <2>1 DEF HomeInv, ScreenSound
<1> QED
  BY <1>2, <1>3

LEMMA AnswerKeeps ==
    ASSUME HomeInv, NEW s \in Slots,
           AnswerSnapshot(s) \/ Refuse(s) \/ Fail(s)
    PROVE  HomeInv'
<1>1. UNCHANGED broker /\ UNCHANGED view
  BY DEF AnswerSnapshot, Refuse, Fail, outside
<1>2. BrokerSound'
  BY BoundsAssumption DEF HomeInv, BrokerSound, AnswerSnapshot, Refuse, Fail, outside
<1>3. ScreenSound'
  BY <1>1, UnchangedKeeps DEF view
<1>4. RestSound'
  BY UnchangedKeeps DEF AnswerSnapshot, Refuse, Fail, view
<1>5. broker.profiles <= broker'.profiles /\ broker'.profiles \in Nat
  BY <1>1, BoundsAssumption DEF HomeInv, BrokerSound, Snapshots
<1>6. RequestsSound'
  <2>1. CASE AnswerSnapshot(s)
    <3> DEFINE r == [is |-> "got", arg |-> 0, got |-> broker]
    <3>1. r \in SlotStates
      BY BoundsAssumption DEF HomeInv, BrokerSound, SlotStates, Messages
    <3>2. Sound(r, broker'.profiles)
      BY <1>1, <1>5 DEF HomeInv, BrokerSound, Sound
    <3>3. request' = [request EXCEPT ![s] = r]
      BY <2>1 DEF AnswerSnapshot
    <3> HIDE DEF r
    <3> QED
      BY <1>5, <3>1, <3>2, <3>3, SlotChanges
  <2>2. CASE Refuse(s) \/ Fail(s)
    BY <1>5, <2>2, BecomesKeeps DEF Refuse, Fail
  <2> QED
    BY <2>1, <2>2
<1> QED
  BY <1>2, <1>3, <1>4, <1>6 DEF HomeInv

LEMMA ExecuteKeeps ==
    ASSUME HomeInv, NEW s \in Slots, Execute(s)
    PROVE  HomeInv'
<1> DEFINE r == request[s]
           n == broker.profiles
<1>1. r \in SlotStates /\ Sound(r, n)
  BY DEF HomeInv, RequestsSound
<1>2. broker \in Snapshots /\ n \in 0..MaxProfiles /\ broker.selected <= n
  BY DEF HomeInv, BrokerSound, Snapshots
<1>3. /\ \E p \in 0..n, w \in {"mine", "theirs", "none"}, b \in BOOLEAN :
            broker' = [profiles |-> n, selected |-> p, pending |-> w, clear |-> b]
  <2>1. broker = [profiles |-> n, selected |-> broker.selected,
                  pending |-> broker.pending, clear |-> broker.clear]
    BY <1>2 DEF Snapshots
  <2>2. /\ broker.selected \in 0..n /\ broker.clear \in BOOLEAN
        /\ broker.pending \in {"mine", "theirs", "none"}
    BY <1>2, BoundsAssumption DEF Snapshots, NobodysSwitch
  <2>3. broker' \in After(s)
    BY DEF Execute
  <2>4. CASE r.is = "select"
    <3>1. r.arg \in 0..n
      BY <1>1, <1>2, <2>4, BoundsAssumption DEF Sound, SlotStates
    <3>2. \/ broker' = [broker EXCEPT !.selected = r.arg, !.pending = "none"]
          \/ broker' = [broker EXCEPT !.pending = "mine"]
      BY <2>3, <2>4 DEF After, NobodysSwitch
    <3> QED
      BY <1>2, <2>1, <2>2, <3>1, <3>2 DEF Snapshots
  <2>5. CASE r.is = "end"
    <3>1. \/ broker' = [broker EXCEPT !.pending = "none"]
          \/ \E p \in 1..n : broker' = [broker EXCEPT !.pending = "none", !.selected = p]
      BY <2>3, <2>5 DEF After, NobodysSwitch
    <3>2. 1..n \subseteq 0..n
      BY <1>2
    <3> QED
      BY <1>2, <2>1, <2>2, <3>1, <3>2 DEF Snapshots
  <2>6. CASE r.is = "set"
    <3>1. \E b \in BOOLEAN : broker' = [broker EXCEPT !.clear = b]
      BY <2>3, <2>6 DEF After
    <3> QED
      BY <1>2, <2>1, <2>2, <3>1 DEF Snapshots
  <2>7. r.is \in {"select", "end", "set"}
    BY <2>3 DEF After
  <2> QED
    BY <2>4, <2>5, <2>6, <2>7
<1>4. /\ broker' \in Snapshots /\ broker'.profiles = n /\ broker'.selected <= n
  BY <1>2, <1>3, BoundsAssumption DEF Snapshots, NobodysSwitch
<1>5. n <= broker'.profiles /\ broker'.profiles \in Nat
  BY <1>2, <1>4, BoundsAssumption 
<1>6. BrokerSound'
  <2>1. changes \in 0..MaxChanges /\ faults \in 0..MaxFaults
    BY DEF HomeInv, BrokerSound
  <2>2. changes' \in 0..MaxChanges /\ faults' \in 0..MaxFaults
    BY <2>1, BoundsAssumption DEF Execute
  <2> QED
    BY <1>4, <2>2 DEF BrokerSound
<1>7. RequestsSound'
  BY <1>5, BecomesKeeps DEF Execute
<1>8. ScreenSound'
  BY <1>4, <1>5, GrowthKeeps DEF Execute, view
<1>9. RestSound'
  BY DEF HomeInv, RestSound, Execute, Tells, view
<1> QED
  BY <1>6, <1>7, <1>8, <1>9 DEF HomeInv

LEMMA OthersKeep ==
    ASSUME HomeInv, ProfileAdded \/ SettingChanged \/ OtherSwitch
    PROVE  HomeInv'
<1> DEFINE n == broker.profiles
<1>1. broker \in Snapshots /\ n \in 0..MaxProfiles /\ broker.selected \in 0..n
  BY BoundsAssumption DEF HomeInv, BrokerSound, Snapshots
<1>2. UNCHANGED <<faults, at, shown, cursor, armed, request, lost>>
      /\ changes < MaxChanges /\ changes' = changes + 1
  BY DEF ProfileAdded, SettingChanged, OtherSwitch, OtherChange, view
<1>3. broker = [profiles |-> n, selected |-> broker.selected,
                pending |-> broker.pending, clear |-> broker.clear]
      /\ broker.clear \in BOOLEAN /\ broker.pending \in {"mine", "theirs", "none"}
  BY <1>1 DEF Snapshots, NobodysSwitch
<1>4. \E k \in {i \in {n, n + 1} : i <= MaxProfiles} : \E p \in 0..k :
        \E w \in {"mine", "theirs", "none"}, b \in BOOLEAN :
            broker' = [profiles |-> k, selected |-> p, pending |-> w, clear |-> b]
  <2>1. n <= MaxProfiles /\ n \in Nat
    BY <1>1, BoundsAssumption 
  <2>2. CASE ProfileAdded
    <3>1. PICK p \in (IF broker.selected = 0 THEN {0, n + 1} ELSE {broker.selected}) :
            broker' = [broker EXCEPT !.profiles = n + 1, !.selected = p]
      BY <2>2 DEF ProfileAdded
    <3>2. n + 1 <= MaxProfiles
      <4>1. n < MaxProfiles
        BY <2>2 DEF ProfileAdded
      <4>2. n \in Nat /\ MaxProfiles \in Nat
        BY <2>1, BoundsAssumption 
      <4> HIDE DEF n
      <4> QED
        BY <4>1, <4>2
    <3>3. p \in 0..(n + 1)
      BY <1>1, <2>1, <3>1
    <3>4. broker' = [profiles |-> n + 1, selected |-> p,
                     pending |-> broker.pending, clear |-> broker.clear]
      BY <1>3, <3>1
    <3> QED
      BY <1>3, <3>2, <3>3, <3>4
  <2>3. CASE SettingChanged
    <3>1. broker' = [profiles |-> n, selected |-> broker.selected,
                     pending |-> broker.pending, clear |-> ~broker.clear]
      BY <1>3, <2>3 DEF SettingChanged
    <3> QED
      BY <1>1, <1>3, <2>1, <3>1
  <2>4. CASE OtherSwitch
    <3>1. \/ \E p \in 1..n : broker' = [broker EXCEPT !.selected = p, !.pending = "none"]
          \/ \E w \in {"theirs", "none"} : broker' = [broker EXCEPT !.pending = w]
      <4>1. CASE \E p \in 1..n : broker' = [broker EXCEPT !.selected = p, !.pending = "none"]
        BY <4>1
      <4>2. CASE broker' = [broker EXCEPT !.pending = IF broker.pending = "none" THEN "theirs" ELSE "none"]
        BY <4>2
      <4> QED
        BY <2>4, <4>1, <4>2 DEF OtherSwitch, NobodysSwitch
    <3>2. \E p \in 0..n, w \in {"mine", "theirs", "none"} :
            broker' = [profiles |-> n, selected |-> p, pending |-> w, clear |-> broker.clear]
      <4>1. 1..n \subseteq 0..n
        BY <2>1
      <4>2. ASSUME NEW p \in 1..n, broker' = [broker EXCEPT !.selected = p, !.pending = "none"]
            PROVE  broker' = [profiles |-> n, selected |-> p, pending |-> "none", clear |-> broker.clear]
        BY <1>3, <4>2
      <4>3. ASSUME NEW w \in {"theirs", "none"}, broker' = [broker EXCEPT !.pending = w]
            PROVE  broker' = [profiles |-> n, selected |-> broker.selected, pending |-> w,
                              clear |-> broker.clear]
        BY <1>3, <4>3
      <4> QED
        BY <1>1, <3>1, <4>1, <4>2, <4>3
    <3> QED
      BY <1>3, <2>1, <3>2
  <2> QED
    BY <2>2, <2>3, <2>4
<1>5. /\ broker' \in Snapshots /\ n <= broker'.profiles
      /\ broker'.selected <= broker'.profiles
  BY <1>1, <1>4, BoundsAssumption DEF Snapshots, NobodysSwitch
<1>6. BrokerSound'
  BY <1>2, <1>5, BoundsAssumption DEF HomeInv, BrokerSound
<1>7. RequestsSound' /\ ScreenSound'
  BY <1>2, <1>5, GrowthKeeps
<1>8. RestSound'
  BY <1>2 DEF HomeInv, RestSound, ProfileAdded, SettingChanged, OtherSwitch, Tells
<1> QED
  BY <1>6, <1>7, <1>8 DEF HomeInv

LEMMA HomeInvStep ==
    ASSUME HomeInv, [HomeNext]_HomeVars
    PROVE  HomeInv'
<1>1. CASE HomeNext
  BY <1>1, LoopKeeps, KeysKeep, OthersKeep, MessageKeeps, AnswerKeeps, ExecuteKeeps DEF HomeNext
<1>2. CASE UNCHANGED HomeVars
  <2>1. UNCHANGED outside /\ UNCHANGED view /\ UNCHANGED <<at, notices, request, lost>>
    BY <1>2 DEF HomeVars, outside, view
  <2> QED
    BY <2>1, UnchangedKeeps DEF HomeInv, outside, view
<1> QED
  BY <1>1, <1>2

(* For any number of profiles and of requests under way that answer in any
   order, fail or outlive their program: types, both timers armed on every
   screen, and a cursor that is on a profile the screen shows. *)
THEOREM HomeTypeCorrect == HomeSpec => []HomeTypeOK
<1>1. HomeInit => HomeInv
  BY HomeInvInit
<1>2. HomeInv /\ [HomeNext]_HomeVars => HomeInv'
  BY HomeInvStep
<1>3. HomeInv => HomeTypeOK
  BY HomeTyped
<1> QED
  BY <1>1, <1>2, <1>3, PTL DEF HomeSpec
================================================================================
