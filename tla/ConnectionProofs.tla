---------------------------- MODULE ConnectionProofs ---------------------------
(***************************************************************************)
(* The two ends of a realtime connection.  The server's, Presence: the     *)
(* epochs do what the disconnect's delayed task trusts them for, whatever  *)
(* connections of the member come and go, and a task that a later one      *)
(* overtook before it had looked at the epoch never finds the member gone  *)
(* for good.  The client's, Reconnect: _webSocketGate keeps the attempts   *)
(* to connect apart, however many reconnect loops have stacked up, and     *)
(* with it no attempt ever takes the place of a connection the server has  *)
(* accepted.  Each is proved for its own specification: neither mentions   *)
(* the other.                                                              *)
(***************************************************************************)
EXTENDS Presence, Reconnect, FiniteSetTheorems, TLAPS

Statuses == {"online", "busy", "offline"}

\* A connection's task, by what it remembers.
ConnectionTasks ==
         [at : {"out", "over"}]
    \cup [at : {"checked", "registered", "advanced", "welcomed", "live", "lost", "over"},
          wasOnline : BOOLEAN, cancelled : BOOLEAN]
    \cup [at : {"set", "live", "lost", "over"}, status : Statuses]
    \cup [at : {"reported", "changed", "live", "lost", "over"},
          before : BOOLEAN, now : BOOLEAN]
    \cup [at : {"dated", "over"}, epoch : Nat]

Early == {"asleep", "awake", "absent"}
Late  == {"current", "finished", "cleared", "quiet", "closed"}

\* A disconnect's delayed task, once there is one.
Delayed == [at : Early \cup Late, epoch : Nat, doomed : BOOLEAN]

Watchers == [at : {"away", "registered", "here"}] \cup [at : {"read"}, status : Statuses]

Typed ==
    /\ conns \subseteq Connections
    /\ epoch \in Nat
    /\ grace \in BOOLEAN /\ playing \in BOOLEAN
    /\ task \in [Connections -> ConnectionTasks]
    /\ delayed \in [Connections -> Delayed \cup {Nothing}]
    /\ observer \in [Observers -> Watchers]
    /\ shown \in [Observers -> Statuses]

\* A socket in hub.conns belongs to a task that has registered and has not yet
\* left its loop.
Registered ==
    \A k \in conns : task[k].at \notin {"out", "checked", "lost", "dated", "over"}

\* An epoch that a task remembers is at most the present one, it is older once
\* another connection has advanced it, and only a task that was not overtaken
\* gets past the check.
Dated ==
    \A k \in Connections :
        /\ task[k].at = "dated" => task[k].epoch <= epoch
        /\ delayed[k] # Nothing =>
              /\ delayed[k].epoch <= epoch
              /\ delayed[k].at \in Early /\ delayed[k].doomed => delayed[k].epoch < epoch
              /\ delayed[k].at \in Late => ~delayed[k].doomed

\* The connections that have advanced the epoch, and those that have superseded
\* it when they ended.
Advanced   == {k \in Connections : task[k].at \notin {"out", "checked", "registered"}}
Superseded == {k \in Connections : task[k].at \in {"dated", "over"}}

Counted == epoch <= Cardinality(Advanced) + Cardinality(Superseded)

EpochInv == Typed /\ Registered /\ Dated /\ Counted

-----------------------------------------------------------------------------
(* The induction step. *)

\* No step makes a task or an observer hold anything but what its point needs.
LEMMA TypedStep ==
    ASSUME Typed, [Next]_vars PROVE Typed'
  <1>1. ASSUME NEW k \in Connections, Arrives(k) PROVE Typed'
    BY <1>1 DEF Arrives, server, others, Typed, ConnectionTasks, Delayed, Early,
       Late, Nothing, Statuses, Watchers
  <1>2. ASSUME NEW k \in Connections, Register(k) PROVE Typed'
    BY <1>2 DEF Register, Goes, others, Typed, ConnectionTasks, Delayed, Early,
       Late, Nothing, Statuses, Watchers
  <1>3. ASSUME NEW k \in Connections, AdvanceEpoch(k) PROVE Typed'
    <2>1. /\ epoch' = epoch + 1
          /\ task[k].at = "registered"
          /\ task' = [task EXCEPT ![k].at = "advanced"]
          /\ UNCHANGED <<conns, grace, playing, observer, shown>>
      BY <1>3 DEF AdvanceEpoch, Goes, others
    <2>2. ASSUME NEW j \in Connections PROVE delayed'[j] \in Delayed \cup {Nothing}
      BY <1>3 DEF AdvanceEpoch, Typed, Delayed, Early, Late, Nothing
    <2>3. delayed' \in [Connections -> Delayed \cup {Nothing}]
      BY <1>3, <2>2 DEF AdvanceEpoch
    <2>4. task' \in [Connections -> ConnectionTasks]
      BY <2>1 DEF Typed, ConnectionTasks
    <2> QED
      BY <2>1, <2>3, <2>4 DEF Typed
  <1>4. ASSUME NEW k \in Connections, CancelGrace(k) PROVE Typed'
    <2>1. /\ task' = [task EXCEPT ![k] = [@ EXCEPT !.at = "welcomed", !.cancelled = grace]]
          /\ task[k].at = "advanced"
          /\ grace' \in BOOLEAN
          /\ UNCHANGED <<conns, epoch, playing, delayed, observer, shown>>
      BY <1>4 DEF CancelGrace, others
    <2>2. task[k] \in [at : {"advanced"}, wasOnline : BOOLEAN, cancelled : BOOLEAN]
      BY <2>1 DEF Typed, ConnectionTasks
    <2>3. [task[k] EXCEPT !.at = "welcomed", !.cancelled = grace] \in ConnectionTasks
      BY <2>2 DEF Typed, ConnectionTasks
    <2> QED
      BY <2>1, <2>3 DEF Typed
  <1>5. ASSUME NEW k \in Connections, Announce(k) PROVE Typed'
    BY <1>5 DEF Announce, Goes, Broadcast, server, others, Typed,
       ConnectionTasks, Delayed, Early, Late, Nothing, Statuses, Watchers
  <1>6. ASSUME NEW k \in Connections, SetStatus(k) PROVE Typed'
    BY <1>6 DEF SetStatus, Spend, others, Typed, ConnectionTasks, Delayed,
       Early, Late, Nothing, Statuses, Watchers
  <1>7. ASSUME NEW k \in Connections, TellStatus(k) PROVE Typed'
    BY <1>7 DEF TellStatus, Goes, Broadcast, server, Typed, ConnectionTasks,
       Delayed, Early, Late, Nothing, Statuses, Watchers
  <1>8. ASSUME NEW k \in Connections, ReadActivity(k) PROVE Typed'
    BY <1>8 DEF ReadActivity, Spend, server, others, Typed, ConnectionTasks,
       Delayed, Early, Late, Nothing, Statuses, Watchers
  <1>9. ASSUME NEW k \in Connections, SetActivity(k) PROVE Typed'
    BY <1>9 DEF SetActivity, Goes, others, Typed, ConnectionTasks, Delayed,
       Early, Late, Nothing, Statuses, Watchers
  <1>10. ASSUME NEW k \in Connections, RecordPlaytime(k) PROVE Typed'
    BY <1>10 DEF RecordPlaytime, Goes, others, Typed, ConnectionTasks, Delayed,
       Early, Late, Nothing, Statuses, Watchers
  <1>11. ASSUME NEW k \in Connections, Unregister(k) PROVE Typed'
    BY <1>11 DEF Unregister, Goes, others, Typed, ConnectionTasks, Delayed,
       Early, Late, Nothing, Statuses, Watchers
  <1>12. ASSUME NEW k \in Connections, SupersedeEpoch(k) PROVE Typed'
    BY <1>12 DEF SupersedeEpoch, others, Typed, ConnectionTasks, Delayed, Early,
       Late, Nothing, Statuses, Watchers
  <1>13. ASSUME NEW k \in Connections, BeginGrace(k) PROVE Typed'
    BY <1>13 DEF BeginGrace, Goes, others, Typed, ConnectionTasks, Delayed,
       Early, Late, Nothing, Statuses, Watchers
  <1>14. ASSUME NEW k \in Connections, GraceElapses(k) PROVE Typed'
    BY <1>14 DEF GraceElapses, Wakes, server, others, Typed, ConnectionTasks,
       Delayed, Early, Late, Nothing, Statuses, Watchers
  <1>15. ASSUME NEW k \in Connections, CheckOnline(k) PROVE Typed'
    BY <1>15 DEF CheckOnline, Returns, server, others, Typed, ConnectionTasks,
       Delayed, Early, Late, Nothing, Statuses, Watchers
  <1>16. ASSUME NEW k \in Connections, CheckEpoch(k) PROVE Typed'
    BY <1>16 DEF CheckEpoch, Returns, server, others, Typed, ConnectionTasks,
       Delayed, Early, Late, Nothing, Statuses, Watchers
  <1>17. ASSUME NEW k \in Connections, FinishGrace(k) PROVE Typed'
    <2>1. grace' \in BOOLEAN
      BY <1>17 DEF FinishGrace
    <2> QED
      BY <1>17, <2>1 DEF FinishGrace, Returns, others, Typed, ConnectionTasks,
         Delayed, Early, Late, Nothing, Statuses, Watchers
  <1>18. ASSUME NEW k \in Connections, ClearActivity(k) PROVE Typed'
    <2>1. playing' \in BOOLEAN
      BY <1>18 DEF ClearActivity
    <2> QED
      BY <1>18, <2>1 DEF ClearActivity, Wakes, others, Typed, ConnectionTasks,
         Delayed, Early, Late, Nothing, Statuses, Watchers
  <1>19. ASSUME NEW k \in Connections, ClearStatus(k) PROVE Typed'
    BY <1>19 DEF ClearStatus, Wakes, others, Typed, ConnectionTasks, Delayed,
       Early, Late, Nothing, Statuses, Watchers
  <1>20. ASSUME NEW k \in Connections, CloseGameSessions(k) PROVE Typed'
    BY <1>20 DEF CloseGameSessions, Wakes, others, Typed, ConnectionTasks,
       Delayed, Early, Late, Nothing, Statuses, Watchers
  <1>21. ASSUME NEW k \in Connections, TellOffline(k) PROVE Typed'
    BY <1>21 DEF TellOffline, Broadcast, server, Typed, ConnectionTasks,
       Delayed, Early, Late, Nothing, Statuses, Watchers
  <1>22. ASSUME NEW o \in Observers, Observes(o) PROVE Typed'
    BY <1>22 DEF Observes, ObserverRegisters, ObserverReads, ObserverShows,
       server, tasks, Typed, ConnectionTasks, Delayed, Early, Late, Nothing,
       Statuses, Watchers, StatusFor
  <1>23. CASE Restart
    BY <1>23 DEF Restart, Typed, ConnectionTasks, Delayed, Early, Late, Nothing,
       Statuses, Watchers
  <1>24. CASE UNCHANGED vars
    BY <1>24 DEF vars, server, tasks, others, Typed, ConnectionTasks, Delayed,
       Early, Late, Nothing, Statuses, Watchers
  <1> QED
    BY <1>1, <1>2, <1>3, <1>4, <1>5, <1>6, <1>7, <1>8, <1>9, <1>10, <1>11,
       <1>12, <1>13, <1>14, <1>15, <1>16, <1>17, <1>18, <1>19, <1>20, <1>21,
       <1>22, <1>23, <1>24 DEF Next, TaskStep, DelayedStep

\* Only a connection that advances the epoch makes a remembered one older, and
\* it dooms the tasks that have yet to look at it.
LEMMA DatedStep ==
    ASSUME Typed, Registered, Dated, [Next]_vars PROVE Registered' /\ Dated'
  <1>1. ASSUME NEW k \in Connections, Arrives(k) PROVE Registered' /\ Dated'
    BY <1>1 DEF Arrives, server, others, Typed, ConnectionTasks, Delayed, Early,
       Late, Nothing, Registered, Dated
  <1>2. ASSUME NEW k \in Connections, Register(k) PROVE Registered' /\ Dated'
    BY <1>2 DEF Register, Goes, others, Typed, ConnectionTasks, Delayed, Early,
       Late, Nothing, Registered, Dated
  <1>3. ASSUME NEW k \in Connections, AdvanceEpoch(k) PROVE Registered' /\ Dated'
    <2>1. /\ epoch' = epoch + 1
          /\ task[k].at = "registered"
          /\ task' = [task EXCEPT ![k].at = "advanced"]
          /\ UNCHANGED <<conns, grace, playing, observer, shown>>
      BY <1>3 DEF AdvanceEpoch, Goes, others
    <2>2. ASSUME NEW j \in Connections, delayed'[j] # Nothing
          PROVE  /\ delayed[j] # Nothing
                 /\ delayed'[j].epoch = delayed[j].epoch
                 /\ delayed'[j].at = delayed[j].at
                 /\ delayed[j].at \in Late => delayed'[j].doomed = delayed[j].doomed
      BY <1>3, <2>2 DEF AdvanceEpoch, Typed, Delayed, Early, Late, Nothing
    <2>3. \A j \in Connections : delayed[j] # Nothing => delayed[j].epoch \in Nat
      BY DEF Typed, Delayed
    <2>4. \A j \in Connections : task[j].at = "dated" => task[j].epoch \in Nat
      BY DEF Typed, ConnectionTasks
    <2>5. \A j \in Connections :
             /\ task'[j].at = "dated" => task[j].at = "dated" /\ task'[j] = task[j]
             /\ task'[j].at \in {"out", "checked", "lost", "dated", "over"}
                   => task'[j].at = task[j].at
      BY <2>1 DEF Typed, ConnectionTasks
    <2>6. Registered'
      BY <2>1, <2>5 DEF Registered, Typed
    <2> QED
      BY <2>1, <2>2, <2>3, <2>4, <2>5, <2>6 DEF Dated, Typed, Late
  <1>4. ASSUME NEW k \in Connections, CancelGrace(k) PROVE Registered' /\ Dated'
    BY <1>4 DEF CancelGrace, others, Typed, ConnectionTasks, Delayed, Early,
       Late, Nothing, Registered, Dated
  <1>5. ASSUME NEW k \in Connections, Announce(k) PROVE Registered' /\ Dated'
    BY <1>5 DEF Announce, Goes, Broadcast, server, others, Typed,
       ConnectionTasks, Delayed, Early, Late, Nothing, Registered, Dated
  <1>6. ASSUME NEW k \in Connections, SetStatus(k) PROVE Registered' /\ Dated'
    BY <1>6 DEF SetStatus, Spend, others, Typed, ConnectionTasks, Delayed,
       Early, Late, Nothing, Registered, Dated
  <1>7. ASSUME NEW k \in Connections, TellStatus(k) PROVE Registered' /\ Dated'
    BY <1>7 DEF TellStatus, Goes, Broadcast, server, Typed, ConnectionTasks,
       Delayed, Early, Late, Nothing, Registered, Dated
  <1>8. ASSUME NEW k \in Connections, ReadActivity(k) PROVE Registered' /\ Dated'
    BY <1>8 DEF ReadActivity, Spend, server, others, Typed, ConnectionTasks,
       Delayed, Early, Late, Nothing, Registered, Dated
  <1>9. ASSUME NEW k \in Connections, SetActivity(k) PROVE Registered' /\ Dated'
    BY <1>9 DEF SetActivity, Goes, others, Typed, ConnectionTasks, Delayed,
       Early, Late, Nothing, Registered, Dated
  <1>10. ASSUME NEW k \in Connections, RecordPlaytime(k) PROVE Registered' /\ Dated'
    BY <1>10 DEF RecordPlaytime, Goes, others, Typed, ConnectionTasks, Delayed,
       Early, Late, Nothing, Registered, Dated
  <1>11. ASSUME NEW k \in Connections, Unregister(k) PROVE Registered' /\ Dated'
    BY <1>11 DEF Unregister, Goes, others, Typed, ConnectionTasks, Delayed,
       Early, Late, Nothing, Registered, Dated
  <1>12. ASSUME NEW k \in Connections, SupersedeEpoch(k) PROVE Registered' /\ Dated'
    BY <1>12 DEF SupersedeEpoch, others, Typed, ConnectionTasks, Delayed, Early,
       Late, Nothing, Registered, Dated
  <1>13. ASSUME NEW k \in Connections, BeginGrace(k) PROVE Registered' /\ Dated'
    BY <1>13 DEF BeginGrace, Goes, others, Typed, ConnectionTasks, Delayed,
       Early, Late, Nothing, Registered, Dated
  <1>14. ASSUME NEW k \in Connections, GraceElapses(k) PROVE Registered' /\ Dated'
    BY <1>14 DEF GraceElapses, Wakes, server, others, Typed, ConnectionTasks,
       Delayed, Early, Late, Nothing, Registered, Dated
  <1>15. ASSUME NEW k \in Connections, CheckOnline(k) PROVE Registered' /\ Dated'
    BY <1>15 DEF CheckOnline, Returns, server, others, Typed, ConnectionTasks,
       Delayed, Early, Late, Nothing, Registered, Dated
  <1>16. ASSUME NEW k \in Connections, CheckEpoch(k) PROVE Registered' /\ Dated'
    BY <1>16 DEF CheckEpoch, Returns, server, others, Typed, ConnectionTasks,
       Delayed, Early, Late, Nothing, Registered, Dated
  <1>17. ASSUME NEW k \in Connections, FinishGrace(k) PROVE Registered' /\ Dated'
    BY <1>17 DEF FinishGrace, Returns, others, Typed, ConnectionTasks, Delayed,
       Early, Late, Nothing, Registered, Dated
  <1>18. ASSUME NEW k \in Connections, ClearActivity(k) PROVE Registered' /\ Dated'
    BY <1>18 DEF ClearActivity, Wakes, others, Typed, ConnectionTasks, Delayed,
       Early, Late, Nothing, Registered, Dated
  <1>19. ASSUME NEW k \in Connections, ClearStatus(k) PROVE Registered' /\ Dated'
    BY <1>19 DEF ClearStatus, Wakes, others, Typed, ConnectionTasks, Delayed,
       Early, Late, Nothing, Registered, Dated
  <1>20. ASSUME NEW k \in Connections, CloseGameSessions(k) PROVE Registered' /\ Dated'
    BY <1>20 DEF CloseGameSessions, Wakes, others, Typed, ConnectionTasks,
       Delayed, Early, Late, Nothing, Registered, Dated
  <1>21. ASSUME NEW k \in Connections, TellOffline(k) PROVE Registered' /\ Dated'
    BY <1>21 DEF TellOffline, Broadcast, server, Typed, ConnectionTasks,
       Delayed, Early, Late, Nothing, Registered, Dated
  <1>22. ASSUME NEW o \in Observers, Observes(o) PROVE Registered' /\ Dated'
    BY <1>22 DEF Observes, ObserverRegisters, ObserverReads, ObserverShows,
       server, tasks, Typed, ConnectionTasks, Delayed, Early, Late, Nothing,
       Registered, Dated
  <1>23. CASE Restart
    BY <1>23 DEF Restart, Typed, ConnectionTasks, Delayed, Early, Late, Nothing,
       Registered, Dated
  <1>24. CASE UNCHANGED vars
    BY <1>24 DEF vars, server, tasks, others, Typed, ConnectionTasks, Delayed,
       Early, Late, Nothing, Registered, Dated
  <1> QED
    BY <1>1, <1>2, <1>3, <1>4, <1>5, <1>6, <1>7, <1>8, <1>9, <1>10, <1>11,
       <1>12, <1>13, <1>14, <1>15, <1>16, <1>17, <1>18, <1>19, <1>20, <1>21,
       <1>22, <1>23, <1>24 DEF Next, TaskStep, DelayedStep

-----------------------------------------------------------------------------
(* Counting the epochs. *)

\* There are finitely many connections, so both sets can be counted.
LEMMA Countable ==
    /\ IsFiniteSet(Advanced) /\ Cardinality(Advanced) \in Nat
    /\ Cardinality(Advanced) <= Cardinality(Connections)
    /\ IsFiniteSet(Superseded) /\ Cardinality(Superseded) \in Nat
    /\ Cardinality(Superseded) <= Cardinality(Connections)
    /\ Cardinality(Connections) \in Nat
  <1>1. Advanced \subseteq Connections /\ Superseded \subseteq Connections
    BY DEF Advanced, Superseded
  <1> QED
    BY <1>1, PresenceAssumption, FS_Subset, FS_CardinalityType

\* The same of the next state.
LEMMA CountableNext ==
    /\ IsFiniteSet(Advanced') /\ Cardinality(Advanced') \in Nat
    /\ IsFiniteSet(Superseded') /\ Cardinality(Superseded') \in Nat
  <1>1. Advanced' \subseteq Connections /\ Superseded' \subseteq Connections
    BY DEF Advanced, Superseded
  <1> QED
    BY <1>1, PresenceAssumption, FS_Subset, FS_CardinalityType

\* A task never goes back, so as long as the epoch stays the count covers it.
LEMMA Growing ==
    ASSUME Typed, Counted, epoch' = epoch,
           Advanced \subseteq Advanced', Superseded \subseteq Superseded'
    PROVE  Counted'
  <1>1. /\ Cardinality(Advanced) <= Cardinality(Advanced')
        /\ Cardinality(Superseded) <= Cardinality(Superseded')
    BY CountableNext, FS_Subset
  <1> QED
    BY <1>1, Countable, CountableNext DEF Counted, Typed

\* A server that starts again has counted nothing.
LEMMA NoEpochs ==
    ASSUME epoch' = 0 PROVE Counted'
  BY CountableNext DEF Counted

\* Every advance and every supersession of the epoch is counted once.
LEMMA CountedStep ==
    ASSUME Typed, Counted, [Next]_vars PROVE Counted'
  <1>1. ASSUME NEW k \in Connections, Arrives(k) PROVE Counted'
    BY <1>1 DEF Arrives, server, others, Typed, ConnectionTasks, Advanced,
       Superseded, Counted
  <1>2. ASSUME NEW k \in Connections, Register(k) PROVE Counted'
    BY <1>2 DEF Register, Goes, others, Typed, ConnectionTasks, Advanced,
       Superseded, Counted
  <1>3. ASSUME NEW k \in Connections, AdvanceEpoch(k) PROVE Counted'
    <2>1. k \in Advanced' \ Advanced /\ Advanced' = Advanced \cup {k}
      BY <1>3 DEF AdvanceEpoch, Goes, Typed, ConnectionTasks, Advanced
    <2>2. Superseded' = Superseded
      BY <1>3 DEF AdvanceEpoch, Goes, Typed, ConnectionTasks, Superseded
    <2>3. Cardinality(Advanced') = Cardinality(Advanced) + 1
      BY <2>1, Countable, FS_AddElement
    <2> QED
      BY <1>3, <2>2, <2>3, Countable DEF AdvanceEpoch, Counted, Typed
  <1>4. ASSUME NEW k \in Connections, CancelGrace(k) PROVE Counted'
    BY <1>4 DEF CancelGrace, others, Typed, ConnectionTasks, Advanced,
       Superseded, Counted
  <1>5. ASSUME NEW k \in Connections, Announce(k) PROVE Counted'
    BY <1>5 DEF Announce, Goes, server, others, Typed, ConnectionTasks,
       Advanced, Superseded, Counted
  <1>6. ASSUME NEW k \in Connections, SetStatus(k) PROVE Counted'
    BY <1>6, Growing DEF SetStatus, Typed, ConnectionTasks, Advanced, Superseded
  <1>7. ASSUME NEW k \in Connections, TellStatus(k) PROVE Counted'
    BY <1>7 DEF TellStatus, Goes, server, Typed, ConnectionTasks, Advanced,
       Superseded, Counted
  <1>8. ASSUME NEW k \in Connections, ReadActivity(k) PROVE Counted'
    <2>1. PICK t : task' = [task EXCEPT ![k] = t] /\ t.at = "reported" /\ task[k].at = "live"
      BY <1>8 DEF ReadActivity
    <2> QED
      BY <1>8, <2>1, Growing DEF ReadActivity, server, Typed, Advanced,
         Superseded
  <1>9. ASSUME NEW k \in Connections, SetActivity(k) PROVE Counted'
    BY <1>9 DEF SetActivity, Goes, others, Typed, ConnectionTasks, Advanced,
       Superseded, Counted
  <1>10. ASSUME NEW k \in Connections, RecordPlaytime(k) PROVE Counted'
    BY <1>10 DEF RecordPlaytime, Goes, others, Typed, ConnectionTasks, Advanced,
       Superseded, Counted
  <1>11. ASSUME NEW k \in Connections, Unregister(k) PROVE Counted'
    BY <1>11, Growing DEF Unregister, Goes, Typed, ConnectionTasks, Advanced,
       Superseded
  <1>12. ASSUME NEW k \in Connections, SupersedeEpoch(k) PROVE Counted'
    <2>1. k \in Superseded' \ Superseded /\ Superseded' = Superseded \cup {k}
      BY <1>12 DEF SupersedeEpoch, Typed, ConnectionTasks, Superseded
    <2>2. Advanced' = Advanced
      BY <1>12 DEF SupersedeEpoch, Typed, ConnectionTasks, Advanced
    <2>3. Cardinality(Superseded') = Cardinality(Superseded) + 1
      BY <2>1, Countable, FS_AddElement
    <2> QED
      BY <1>12, <2>2, <2>3, Countable DEF SupersedeEpoch, Counted, Typed
  <1>13. ASSUME NEW k \in Connections, BeginGrace(k) PROVE Counted'
    BY <1>13 DEF BeginGrace, Goes, others, Typed, ConnectionTasks, Advanced,
       Superseded, Counted
  <1>14. ASSUME NEW k \in Connections, GraceElapses(k) PROVE Counted'
    BY <1>14 DEF GraceElapses, Wakes, server, others, Typed, ConnectionTasks,
       Advanced, Superseded, Counted
  <1>15. ASSUME NEW k \in Connections, CheckOnline(k) PROVE Counted'
    BY <1>15 DEF CheckOnline, Returns, server, others, Typed, ConnectionTasks,
       Advanced, Superseded, Counted
  <1>16. ASSUME NEW k \in Connections, CheckEpoch(k) PROVE Counted'
    BY <1>16 DEF CheckEpoch, Returns, server, others, Typed, ConnectionTasks,
       Advanced, Superseded, Counted
  <1>17. ASSUME NEW k \in Connections, FinishGrace(k) PROVE Counted'
    BY <1>17 DEF FinishGrace, Returns, others, Typed, ConnectionTasks, Advanced,
       Superseded, Counted
  <1>18. ASSUME NEW k \in Connections, ClearActivity(k) PROVE Counted'
    BY <1>18 DEF ClearActivity, Wakes, others, Typed, ConnectionTasks, Advanced,
       Superseded, Counted
  <1>19. ASSUME NEW k \in Connections, ClearStatus(k) PROVE Counted'
    BY <1>19 DEF ClearStatus, Wakes, others, Typed, ConnectionTasks, Advanced,
       Superseded, Counted
  <1>20. ASSUME NEW k \in Connections, CloseGameSessions(k) PROVE Counted'
    BY <1>20 DEF CloseGameSessions, Wakes, others, Typed, ConnectionTasks,
       Advanced, Superseded, Counted
  <1>21. ASSUME NEW k \in Connections, TellOffline(k) PROVE Counted'
    BY <1>21 DEF TellOffline, server, Typed, ConnectionTasks, Advanced,
       Superseded, Counted
  <1>22. ASSUME NEW o \in Observers, Observes(o) PROVE Counted'
    BY <1>22 DEF Observes, ObserverRegisters, ObserverReads, ObserverShows,
       server, tasks, Typed, ConnectionTasks, Advanced, Superseded, Counted
  <1>23. CASE Restart
    BY <1>23, NoEpochs DEF Restart
  <1>24. CASE UNCHANGED vars
    BY <1>24 DEF vars, server, tasks, others, Typed, ConnectionTasks, Advanced,
       Superseded, Counted
  <1> QED
    BY <1>1, <1>2, <1>3, <1>4, <1>5, <1>6, <1>7, <1>8, <1>9, <1>10, <1>11,
       <1>12, <1>13, <1>14, <1>15, <1>16, <1>17, <1>18, <1>19, <1>20, <1>21,
       <1>22, <1>23, <1>24 DEF Next, TaskStep, DelayedStep

-----------------------------------------------------------------------------
(* The invariant. *)

LEMMA EpochInit == Init => EpochInv
  <1> SUFFICES ASSUME Init PROVE EpochInv
    OBVIOUS
  <1>1. Typed
    BY DEF Init, Typed, ConnectionTasks, Watchers, Statuses
  <1>2. Registered /\ Dated
    BY DEF Init, Registered, Dated, Nothing
  <1>3. Counted
    BY Countable DEF Init, Counted
  <1> QED
    BY <1>1, <1>2, <1>3 DEF EpochInv

LEMMA EpochStep == EpochInv /\ [Next]_vars => EpochInv'
  BY TypedStep, DatedStep, CountedStep DEF EpochInv

LEMMA EpochAlways == Spec => []EpochInv
  BY EpochInit, EpochStep, PTL DEF Spec

\* The types of Presence: the epoch advances at most twice for every connection,
\* a socket in hub.conns is one whose task is between its registration and its
\* end, and no delayed task remembers an epoch that has not been given out.
THEOREM PresenceType == Spec => []TypeOK
  <1>1. EpochInv => TypeOK
    <2> SUFFICES ASSUME EpochInv PROVE TypeOK
      OBVIOUS
    <2>1. epoch <= 2 * Cardinality(Connections)
      BY Countable DEF EpochInv, Counted, Typed
    <2> QED
      BY <2>1 DEF EpochInv, Typed, Registered, Dated, TypeOK, Statuses
  <1> QED
    BY <1>1, EpochAlways, PTL

\* presence_epochs keeps a disconnect's task from acting once a later connection
\* has advanced the epoch, however many connections and however they cross.
THEOREM OvertakenTaskReturns == Spec => []ComebackCancels
  <1>1. EpochInv => ComebackCancels
    BY DEF EpochInv, Dated, Typed, Late, Nothing, Finished, ComebackCancels
  <1> QED
    BY <1>1, EpochAlways, PTL
-----------------------------------------------------------------------------
(* The client's end. *)

\* The UI's handler is none of the loops, so what a loop does leaves it where it is.
LEMMA UiIsNoLoop == Ui \notin Loops
  BY DEF Ui, Loops

\* Where a task of the client may be.
Places == {"off", "gate", "dial", "hello", "tell", "won", "failed", "check",
           "sleep", "leave", "last", "closing"}

ClientTyped ==
    /\ at \in [Tasks -> Places]
    /\ socket \in {"none", "dialing", "open", "closed"}
    /\ link \in {"none", "fresh", "ok", "dead"}
    /\ attempt \in 0..FarAttempt
    /\ connectionState \in {"connected", "reconnecting", "disconnected"}

\* One task at most holds the gate, and only that one makes the socket dial.
Alone ==
    /\ \A s, t \in Tasks : at[s] \in InGate /\ at[t] \in InGate => s = t
    /\ socket = "dialing" <=> \E t \in Tasks : at[t] = "dial"

\* The handler that is about to disconnect has let go of the session, and it is
\* the same handler that would bring a new one.
LoggedOut == at[Ui] = "closing" => ~token

GateInv == ClientTyped /\ Alone /\ LoggedOut

\* BeginReconnect wakes one loop that was off, or none.
LEMMA Begins ==
    ASSUME NEW now, BeginReconnect(now)
    PROVE  /\ connectionState' \in {connectionState, "reconnecting"}
           /\ \/ at' = now
              \/ \E l \in Loops :
                     now[l] = "off" /\ at' = [now EXCEPT ![l] = "check"]
  BY DEF BeginReconnect

\* Only a task that finds the gate free takes it, and only the holder leaves the
\* dial or gives the gate back.
LEMMA GateStep ==
    ASSUME GateInv, [SocketNext]_socketVars PROVE GateInv'
  <1>1. ASSUME NEW t \in Tasks, AlreadyOpen(t) PROVE GateInv'
    BY <1>1, UiIsNoLoop DEF AlreadyOpen, GateFree, Connected, peer, Says,
       ClientTyped, Alone, LoggedOut, GateInv, Places, InGate, Tasks, FarAttempt
  <1>2. ASSUME NEW t \in Tasks, Dial(t) PROVE GateInv'
    BY <1>2, UiIsNoLoop DEF Dial, Passes, GateFree, view, peer, ClientTyped,
       Alone, LoggedOut, GateInv, Places, InGate, Tasks
  <1>3. ASSUME NEW t \in Tasks, Answered(t) PROVE GateInv'
    BY <1>3, UiIsNoLoop DEF Answered, Passes, view, peer, ClientTyped, Alone,
       LoggedOut, GateInv, Places, InGate, Tasks
  <1>4. ASSUME NEW t \in Tasks, Unanswered(t) PROVE GateInv'
    BY <1>4, UiIsNoLoop DEF Unanswered, Passes, Throws, view, peer, ClientTyped,
       Alone, LoggedOut, GateInv, Places, InGate, Tasks
  <1>5. ASSUME NEW t \in Tasks, NoHello(t) PROVE GateInv'
    BY <1>5, UiIsNoLoop DEF NoHello, Passes, Throws, own, view, peer,
       ClientTyped, Alone, LoggedOut, GateInv, Places, InGate, Tasks
  <1>6. ASSUME NEW t \in Tasks, Hello(t) PROVE GateInv'
    BY <1>6, UiIsNoLoop DEF Hello, Passes, own, view, peer, ClientTyped, Alone,
       LoggedOut, GateInv, Places, InGate, Tasks
  <1>7. ASSUME NEW t \in Tasks, HelloFails(t) PROVE GateInv'
    <2>1. /\ at[t] = "hello"
          /\ socket' = "closed"
          /\ UNCHANGED <<token, link, attempt>>
          /\ BeginReconnect([at EXCEPT ![t] = Throws(t)])
      BY <1>7 DEF HelloFails
    <2>2. Throws(t) \in {"off", "failed"}
      BY DEF Throws
    <2>3. t \notin Loops \/ Throws(t) = "failed"
      BY UiIsNoLoop DEF Throws
    <2>4. \/ at' = [at EXCEPT ![t] = Throws(t)]
          \/ \E l \in Loops : at' = [[at EXCEPT ![t] = Throws(t)] EXCEPT ![l] = "check"]
      BY <2>1, Begins
    <2>5. /\ connectionState' \in {connectionState, "reconnecting"}
          /\ \A s \in Tasks : at'[s] = at[s] \/ at'[s] \in {"off", "failed", "check"}
          /\ at'[t] \in {"off", "failed", "check"}
          /\ at' \in [Tasks -> Places]
      BY <2>1, <2>2, <2>3, <2>4, Begins DEF GateInv, ClientTyped, Places, Tasks
    <2>6. \A s \in Tasks : at[s] # "dial"
      BY <2>1 DEF GateInv, Alone, InGate
    <2> QED
      BY <2>1, <2>5, <2>6, UiIsNoLoop DEF GateInv, ClientTyped, Alone,
         LoggedOut, InGate, Tasks
  <1>8. ASSUME NEW t \in Tasks, Tell(t) PROVE GateInv'
    BY <1>8, UiIsNoLoop DEF Tell, Connected, peer, Says, ClientTyped, Alone,
       LoggedOut, GateInv, Places, InGate, Tasks, FarAttempt
  <1>9. ASSUME NEW l \in Loops, Check(l) PROVE GateInv'
    BY <1>9, UiIsNoLoop DEF Check, Passes, view, peer, ClientTyped, Alone,
       LoggedOut, GateInv, Places, InGate, Tasks, FarAttempt
  <1>10. ASSUME NEW l \in Loops, Wake(l) PROVE GateInv'
    BY <1>10, UiIsNoLoop DEF Wake, Passes, own, view, peer, ClientTyped, Alone,
       LoggedOut, GateInv, Places, InGate, Tasks
  <1>11. ASSUME NEW l \in Loops, Retry(l) PROVE GateInv'
    BY <1>11, UiIsNoLoop DEF Retry, Passes, Says, own, peer, ClientTyped, Alone,
       LoggedOut, GateInv, Places, InGate, Tasks
  <1>12. ASSUME NEW l \in Loops, Leave(l) PROVE GateInv'
    BY <1>12, UiIsNoLoop DEF Leave, Passes, view, peer, ClientTyped, Alone,
       LoggedOut, GateInv, Places, InGate, Tasks
  <1>13. ASSUME NEW l \in Loops, LastWord(l) PROVE GateInv'
    BY <1>13, UiIsNoLoop DEF LastWord, Passes, Says, own, view, peer,
       ClientTyped, Alone, LoggedOut, GateInv, Places, InGate, Tasks
  <1>14. CASE ReceiveFails
    BY <1>14, Begins, UiIsNoLoop DEF ReceiveFails, Closed, peer, ClientTyped,
       Alone, LoggedOut, GateInv, Places, InGate, Tasks
  <1>15. CASE Sends
    BY <1>15, Begins, UiIsNoLoop DEF Sends, Send, SendFails, peer, Closed,
       ClientTyped, Alone, LoggedOut, GateInv, Places, InGate, Tasks
  <1>16. CASE Syncs
    BY <1>16, Begins, UiIsNoLoop DEF Syncs, Send, SendFails, peer, Closed,
       ClientTyped, Alone, LoggedOut, GateInv, Places, InGate, Tasks
  <1>17. CASE Visit
    BY <1>17, UiIsNoLoop DEF Visit, Passes, own, view, peer, ClientTyped, Alone,
       LoggedOut, GateInv, Places, InGate, Tasks
  <1>18. CASE Logout
    BY <1>18, UiIsNoLoop DEF Logout, Passes, own, view, peer, ClientTyped,
       Alone, LoggedOut, GateInv, Places, InGate, Tasks
  <1>19. CASE Disconnect
    BY <1>19, UiIsNoLoop DEF Disconnect, Passes, GateFree, view, peer,
       ClientTyped, Alone, LoggedOut, GateInv, Places, InGate, Tasks
  <1>20. CASE Drop
    BY <1>20, UiIsNoLoop DEF Drop, Cut, own, view, peer, ClientTyped, Alone,
       LoggedOut, GateInv, Places, InGate, Tasks
  <1>21. CASE HelloTimeout
    BY <1>21, UiIsNoLoop DEF HelloTimeout, GateFree, Cut, own, view, peer,
       ClientTyped, Alone, LoggedOut, GateInv, Places, InGate, Tasks
  <1>22. CASE Outage
    BY <1>22, UiIsNoLoop DEF Outage, Cut, own, view, ClientTyped, Alone,
       LoggedOut, GateInv, Places, InGate, Tasks
  <1>23. CASE Refuse
    BY <1>23, UiIsNoLoop DEF Refuse, own, view, ClientTyped, Alone, LoggedOut,
       GateInv, Places, InGate, Tasks
  <1>24. CASE Recover
    BY <1>24, UiIsNoLoop DEF Recover, own, view, ClientTyped, Alone, LoggedOut,
       GateInv, Places, InGate, Tasks
  <1>25. CASE UNCHANGED socketVars
    BY <1>25 DEF socketVars, own, view, peer, ClientTyped, Alone, LoggedOut,
       GateInv, Places, InGate, Tasks
  <1> QED
    BY <1>1, <1>2, <1>3, <1>4, <1>5, <1>6, <1>7, <1>8, <1>9, <1>10, <1>11,
       <1>12, <1>13, <1>14, <1>15, <1>16, <1>17, <1>18, <1>19, <1>20, <1>21,
       <1>22, <1>23, <1>24, <1>25 DEF SocketNext, ConnectStep, LoopStep

LEMMA GateInit == SocketInit => GateInv
  BY UiIsNoLoop DEF SocketInit, GateInv, ClientTyped, Alone, LoggedOut, Places,
     InGate, Tasks, FarAttempt

LEMMA GateAlways == SocketSpec => []GateInv
  BY GateInit, GateStep, PTL DEF SocketSpec

\* The types of Reconnect: at most one task is between taking _webSocketGate and
\* giving it back, and the socket dials only while that task awaits the dial.
THEOREM ReconnectType == SocketSpec => []SocketTypeOK
  <1>1. GateInv => SocketTypeOK
    BY DEF GateInv, ClientTyped, Alone, SocketTypeOK
  <1> QED
    BY <1>1, GateAlways, PTL

\* The attempts of any number of loops and of the UI leave a connection that the
\* server has accepted alone, as long as the session is there.
THEOREM AttemptsKeepLiveSocket == SocketSpec => LiveSocketIsKept
  <1>1. ASSUME GateInv, [SocketNext]_socketVars,
               socket = "open", link = "ok", socket' # "open"
        PROVE  ~token
    <2>1. ASSUME NEW t \in Tasks, ConnectStep(t) PROVE FALSE
      <3>1. at[t] # "dial"
        BY <1>1 DEF GateInv, Alone
      <3> QED
        BY <1>1, <2>1, <3>1 DEF ConnectStep, AlreadyOpen, Dial, Answered,
           Unanswered, NoHello, Hello, HelloFails, Tell, Passes, own
    <2>2. ASSUME NEW l \in Loops, LoopStep(l) PROVE FALSE
      BY <1>1, <2>2 DEF LoopStep, Check, Wake, Retry, Leave, LastWord, own
    <2>3. CASE ReceiveFails \/ Sends \/ Syncs
      BY <1>1, <2>3 DEF ReceiveFails, Sends, Syncs, Send, SendFails
    <2>4. CASE Disconnect
      BY <1>1, <2>4 DEF Disconnect, Passes, GateInv, LoggedOut
    <2>5. CASE \/ Visit \/ Logout \/ Drop \/ HelloTimeout \/ Outage \/ Refuse \/ Recover
               \/ UNCHANGED socketVars
      BY <1>1, <2>5 DEF Visit, Logout, Drop, HelloTimeout, Outage, Refuse,
         Recover, own, socketVars
    <2> QED
      BY <1>1, <2>1, <2>2, <2>3, <2>4, <2>5 DEF SocketNext
  <1> QED
    BY <1>1, GateAlways, PTL DEF SocketSpec, LiveSocketIsKept
=============================================================================
