--------------------------- MODULE PlaybackProofs ---------------------------
(***************************************************************************)
(* Theorems about Playback, for every number of requests, items and        *)
(* periods: its types first, then one inductive invariant, and from it the *)
(* invariants the runs check and the refinement of PlaybackContract.       *)
(***************************************************************************)
EXTENDS Playback, SequenceTheorems, TLAPS

\* Labels between the entry of a MiniaudioPlayer::Stop and its return.
InPlayerStop(t) == pc[t] \in {"stopFlags", "stopDevice", "quiesce"}

\* The GUI is inside Play.
InPlay ==
  \/ pc["gui"] \in {"playCancel", "playCommit"}
  \/ InPlayerStop("gui") /\ ret["gui"] = "playCommit"

\* Play was entered below the bound on requests.
PlayHasRoom == InPlay => generation < MaxRequests

\* Between Take and the next take the worker's context is a request.
JobIsRequest == pc["worker"] \notin {"take", "exited"} => job \in Requests

\* Where a player stop of the GUI returns.
ReturnLabels ==
  /\ ret["gui"] \in {"idle", "playCommit", "endStop", "endShutStop"}
  /\ pc["gui"] = "stopContext" => ret["gui"] \in {"endStop", "endShutStop"}

TypeInv == TypeOK /\ PlayHasRoom /\ ReturnLabels /\ JobIsRequest

-----------------------------------------------------------------------------
\* The members of the sets of labels, threads and states, as facts that do
\* not need the sets expanded.
LEMMA Members ==
  /\ {"gui", "closer", "worker", "device"} \subseteq Threads
  /\ "gui" \in Threads /\ "closer" \in Threads
  /\ "worker" \in Threads /\ "device" \in Threads
  /\ {"Idle", "Generating", "Playing", "Paused", "Stopping", "Error"} \subseteq States
  /\ {"idle", "gate", "render", "playCancel", "playCommit", "pauseContext",
      "pausePlayer", "resumeContext", "resumePlayer", "stopContext", "endStop",
      "shutStop", "endShutStop", "discard", "barrier", "join", "closed",
      "stopFlags", "stopDevice", "quiesce", "take", "ready", "setState",
      "setStateApply", "row", "prepare", "prepared", "ensure", "install",
      "start", "drain", "interval", "finish", "finishApply", "report",
      "exited"} \subseteq Labels
BY DEF Threads, States, Labels

LEMMA InitTypeInv == Init => TypeInv
<1> SUFFICES ASSUME Init PROVE TypeInv
  OBVIOUS
<1>1. <<>> \in Batches
  BY PlaybackAssumption DEF Batches
<1>2. ServiceTypes
  <2>1. generation \in 0..MaxRequests
    BY PlaybackAssumption DEF PlaybackAssumption, Init
  <2>2. current \in (Requests \cup {None}) \X Nat
    BY DEF Init, None
  <2> QED
    BY <2>1, <2>2, Members DEF Init, ServiceTypes
<1>3. ContextTypes
  BY <1>1 DEF Init, ContextTypes
<1>4. QueueTypes /\ JobTypes
  <2>1. QueueTypes
    BY DEF Init, QueueTypes
  <2>2. JobTypes
    BY DEF Init, JobTypes, None
  <2> QED
    BY <2>1, <2>2
<1>5. PlayerTypes
  <2>1. cursor \in 0..Periods
    BY PlaybackAssumption DEF PlaybackAssumption, Init
  <2> QED
    BY <2>1 DEF Init, PlayerTypes
<1>6. ControlTypes
  BY Members DEF Init, ControlTypes
<1>7. SeenTypes
  BY DEF Init, SeenTypes, None
<1>8. pc["gui"] = "idle" /\ pc["worker"] = "take" /\ ret["gui"] = "idle"
  BY DEF Init, Threads
<1> QED
  BY <1>2, <1>3, <1>4, <1>5, <1>6, <1>7, <1>8
  DEF TypeInv, TypeOK, PlayHasRoom, ReturnLabels, JobIsRequest, InPlay, InPlayerStop

\* What a step leaves alone keeps its type.
LEMMA Frame ==
  ASSUME TypeInv
  PROVE  /\ UNCHANGED svcVars => ServiceTypes'
         /\ UNCHANGED ctxVars => ContextTypes'
         /\ UNCHANGED queueVars => QueueTypes'
         /\ UNCHANGED jobVars => JobTypes'
         /\ UNCHANGED <<implVars, deviceVars>> => PlayerTypes'
         /\ UNCHANGED seenVars => SeenTypes'
<1> USE DEF TypeInv, TypeOK
<1>1. UNCHANGED svcVars => ServiceTypes'
  BY DEF svcVars, ServiceTypes
<1>2. UNCHANGED ctxVars => ContextTypes'
  BY DEF ctxVars, ContextTypes
<1>3. UNCHANGED queueVars => QueueTypes'
  BY DEF queueVars, QueueTypes
<1>6. UNCHANGED jobVars => JobTypes'
  BY DEF jobVars, JobTypes
<1>4. UNCHANGED <<implVars, deviceVars>> => PlayerTypes'
  BY DEF implVars, deviceVars, PlayerTypes
<1>5. UNCHANGED seenVars => SeenTypes'
  BY DEF seenVars, SeenTypes
<1> QED
  BY <1>1, <1>2, <1>3, <1>4, <1>5, <1>6

LEMMA NextTypeInv == TypeInv /\ [Next]_vars => TypeInv'
<1> SUFFICES ASSUME TypeInv, [Next]_vars PROVE TypeInv'
  OBVIOUS
<1> USE DEF TypeInv, TypeOK
<1>1. CASE PlayEnter
  <2>1. ServiceTypes'
    BY <1>1, Members, PlaybackAssumption DEF PlayEnter, Replaces,
       ServiceTypes, svcVars, Lock, Unlock, None, PlaybackAssumption
  <2>2. ControlTypes'
    BY <1>1, Members DEF PlayEnter, Replaces, ControlTypes, Goto,
       CallPlayerStop
  <2>3. PlayHasRoom' /\ ReturnLabels'
    BY <1>1, Members DEF PlayEnter, Replaces, PlayHasRoom, ReturnLabels,
       InPlay, InPlayerStop, ControlTypes, Goto, CallPlayerStop, svcVars
  <2>4. JobIsRequest'
    BY <1>1, Members DEF PlayEnter, Replaces, JobIsRequest, ControlTypes,
       Goto, CallPlayerStop, jobVars
  <2> QED
    BY <1>1, Frame, <2>1, <2>2, <2>3, <2>4 DEF PlayEnter, Replaces
<1>2. CASE PlayCancel
  <2>1. ContextTypes'
    BY <1>2 DEF PlayCancel, CancelActive, ContextTypes, ctxVars
  <2>2. ControlTypes'
    BY <1>2, Members DEF PlayCancel, CancelActive, ControlTypes, Goto,
       CallPlayerStop
  <2>3. PlayHasRoom' /\ ReturnLabels'
    BY <1>2, Members DEF PlayCancel, CancelActive, PlayHasRoom, ReturnLabels,
       InPlay, InPlayerStop, ControlTypes, Goto, CallPlayerStop, svcVars
  <2>4. JobIsRequest'
    BY <1>2, Members DEF PlayCancel, CancelActive, JobIsRequest, ControlTypes,
       Goto, CallPlayerStop, jobVars
  <2> QED
    BY <1>2, Frame, <2>1, <2>2, <2>3, <2>4 DEF PlayCancel, CancelActive
<1>3. ASSUME NEW batch \in Batches, PlayCommit(batch) PROVE TypeInv'
  <2>1. ServiceTypes'
    BY <1>3, Members, PlaybackAssumption DEF PlayCommit, ServiceTypes,
       svcVars, Lock, Unlock, None, Requests, JobTypes, PlayHasRoom, InPlay,
       PlaybackAssumption
  <2>2. ContextTypes'
    BY <1>3 DEF PlayCommit, ContextTypes, ctxVars, ServiceTypes
  <2>3. QueueTypes'
    <3>1. generation + 1 \in Requests
      BY <1>3, PlaybackAssumption
      DEF PlaybackAssumption, PlayCommit, ServiceTypes, PlayHasRoom, InPlay, Requests
    <3>2. Append(tasks, generation + 1) \in Seq(Requests)
      BY <3>1, AppendProperties DEF QueueTypes
    <3> QED
      BY <1>3, <3>2 DEF PlayCommit, QueueTypes
  <2>4. ControlTypes'
    BY <1>3, Members DEF PlayCommit, ControlTypes, Goto, CallPlayerStop
  <2>5. PlayHasRoom' /\ ReturnLabels'
    BY <1>3, Members DEF PlayCommit, PlayHasRoom, ReturnLabels, InPlay,
       InPlayerStop, ControlTypes, Goto, CallPlayerStop, svcVars
  <2>6. JobIsRequest'
    BY <1>3, Members DEF PlayCommit, JobIsRequest, ControlTypes, Goto,
       CallPlayerStop, jobVars
  <2> QED
    BY <1>3, Frame, <2>1, <2>2, <2>3, <2>4, <2>5, <2>6 DEF PlayCommit
<1>4. CASE PauseEnter
  <2>1. ServiceTypes'
    BY <1>4, Members, PlaybackAssumption DEF PauseEnter, ServiceTypes,
       svcVars, Lock, Unlock, None, PlaybackAssumption
  <2>2. ControlTypes'
    BY <1>4, Members DEF PauseEnter, ControlTypes, Goto, CallPlayerStop
  <2>3. PlayHasRoom' /\ ReturnLabels'
    BY <1>4, Members DEF PauseEnter, PlayHasRoom, ReturnLabels, InPlay,
       InPlayerStop, ControlTypes, Goto, CallPlayerStop, svcVars
  <2>4. JobIsRequest'
    BY <1>4, Members DEF PauseEnter, JobIsRequest, ControlTypes, Goto,
       CallPlayerStop, jobVars
  <2> QED
    BY <1>4, Frame, <2>1, <2>2, <2>3, <2>4 DEF PauseEnter
<1>5. CASE PauseContext
  <2>1. ServiceTypes'
    BY <1>5, Members, PlaybackAssumption DEF PauseContext, ServiceTypes,
       svcVars, Lock, Unlock, None, JobTypes, PlayHasRoom, InPlay,
       PlaybackAssumption
  <2>2. ContextTypes'
    BY <1>5 DEF PauseContext, ContextTypes, ctxVars
  <2>3. ControlTypes'
    BY <1>5, Members DEF PauseContext, ControlTypes, Goto, CallPlayerStop
  <2>4. PlayHasRoom' /\ ReturnLabels'
    BY <1>5, Members DEF PauseContext, PlayHasRoom, ReturnLabels, InPlay,
       InPlayerStop, ControlTypes, Goto, CallPlayerStop, svcVars
  <2>5. JobIsRequest'
    BY <1>5, Members DEF PauseContext, JobIsRequest, ControlTypes, Goto,
       CallPlayerStop, jobVars
  <2> QED
    BY <1>5, Frame, <2>1, <2>2, <2>3, <2>4, <2>5 DEF PauseContext
<1>6. CASE PausePlayer
  <2>1. ServiceTypes'
    BY <1>6, Members, PlaybackAssumption DEF PausePlayer, ServiceTypes,
       svcVars, Lock, Unlock, None, PlaybackAssumption
  <2>2. PlayerTypes'
    BY <1>6 DEF PausePlayer, PlayerTypes, implVars, deviceVars
  <2>3. ControlTypes'
    BY <1>6, Members DEF PausePlayer, ControlTypes, Goto, CallPlayerStop
  <2>4. PlayHasRoom' /\ ReturnLabels'
    BY <1>6, Members DEF PausePlayer, PlayHasRoom, ReturnLabels, InPlay,
       InPlayerStop, ControlTypes, Goto, CallPlayerStop, svcVars
  <2>5. JobIsRequest'
    BY <1>6, Members DEF PausePlayer, JobIsRequest, ControlTypes, Goto,
       CallPlayerStop, jobVars
  <2> QED
    BY <1>6, Frame, <2>1, <2>2, <2>3, <2>4, <2>5 DEF PausePlayer
<1>7. CASE ResumeEnter
  <2>1. ServiceTypes'
    BY <1>7, Members, PlaybackAssumption DEF ResumeEnter, ServiceTypes,
       svcVars, Lock, Unlock, None, PlaybackAssumption
  <2>2. ControlTypes'
    BY <1>7, Members DEF ResumeEnter, ControlTypes, Goto, CallPlayerStop
  <2>3. PlayHasRoom' /\ ReturnLabels'
    BY <1>7, Members DEF ResumeEnter, PlayHasRoom, ReturnLabels, InPlay,
       InPlayerStop, ControlTypes, Goto, CallPlayerStop, svcVars
  <2>4. JobIsRequest'
    BY <1>7, Members DEF ResumeEnter, JobIsRequest, ControlTypes, Goto,
       CallPlayerStop, jobVars
  <2> QED
    BY <1>7, Frame, <2>1, <2>2, <2>3, <2>4 DEF ResumeEnter
<1>8. CASE ResumeContext
  <2>1. ServiceTypes'
    BY <1>8, Members, PlaybackAssumption DEF ResumeContext, ServiceTypes,
       svcVars, Lock, Unlock, None, PlaybackAssumption
  <2>2. ContextTypes'
    BY <1>8 DEF ResumeContext, ContextTypes, ctxVars
  <2>3. ControlTypes'
    BY <1>8, Members DEF ResumeContext, ControlTypes, Goto, CallPlayerStop
  <2>4. PlayHasRoom' /\ ReturnLabels'
    BY <1>8, Members DEF ResumeContext, PlayHasRoom, ReturnLabels, InPlay,
       InPlayerStop, ControlTypes, Goto, CallPlayerStop, svcVars
  <2>5. JobIsRequest'
    BY <1>8, Members DEF ResumeContext, JobIsRequest, ControlTypes, Goto,
       CallPlayerStop, jobVars
  <2> QED
    BY <1>8, Frame, <2>1, <2>2, <2>3, <2>4, <2>5 DEF ResumeContext
<1>9. CASE ResumePlayer
  <2>1. ServiceTypes'
    BY <1>9, Members, PlaybackAssumption DEF ResumePlayer, PlayerResume,
       ServiceTypes, svcVars, Lock, Unlock, None, PlaybackAssumption
  <2>2. PlayerTypes'
    BY <1>9 DEF ResumePlayer, PlayerResume, PlayerTypes, implVars, deviceVars
  <2>3. ControlTypes'
    BY <1>9, Members DEF ResumePlayer, PlayerResume, ControlTypes, Goto,
       CallPlayerStop
  <2>4. PlayHasRoom' /\ ReturnLabels'
    BY <1>9, Members DEF ResumePlayer, PlayerResume, PlayHasRoom,
       ReturnLabels, InPlay, InPlayerStop, ControlTypes, Goto, CallPlayerStop,
       svcVars
  <2>5. JobIsRequest'
    BY <1>9, Members DEF ResumePlayer, PlayerResume, JobIsRequest,
       ControlTypes, Goto, CallPlayerStop, jobVars
  <2> QED
    BY <1>9, Frame, <2>1, <2>2, <2>3, <2>4, <2>5 DEF ResumePlayer,
       PlayerResume
<1>10. ASSUME NEW t \in {"gui", "closer"}, StopEnter(t) PROVE TypeInv'
  <2>1. ServiceTypes'
    BY <1>10, Members, PlaybackAssumption DEF StopEnter, ServiceTypes,
       svcVars, Lock, Unlock, None, PlaybackAssumption
  <2>2. ControlTypes'
    BY <1>10, Members DEF StopEnter, ControlTypes, Goto, CallPlayerStop
  <2>3. PlayHasRoom' /\ ReturnLabels'
    BY <1>10, Members DEF StopEnter, PlayHasRoom, ReturnLabels, InPlay,
       InPlayerStop, ControlTypes, Goto, CallPlayerStop, svcVars
  <2>4. JobIsRequest'
    BY <1>10, Members DEF StopEnter, JobIsRequest, ControlTypes, Goto,
       CallPlayerStop, jobVars
  <2> QED
    BY <1>10, Frame, <2>1, <2>2, <2>3, <2>4 DEF StopEnter
<1>11. ASSUME NEW t \in {"gui", "closer"}, StopContext(t) PROVE TypeInv'
  <2>1. ServiceTypes'
    BY <1>11, Members, PlaybackAssumption DEF StopContext, ServiceTypes,
       svcVars, Lock, Unlock, None, PlaybackAssumption
  <2>2. ContextTypes'
    BY <1>11 DEF StopContext, ContextTypes, ctxVars
  <2>3. ControlTypes'
    BY <1>11, Members DEF StopContext, ControlTypes, Goto, CallPlayerStop
  <2>4. PlayHasRoom' /\ ReturnLabels'
    BY <1>11, Members DEF StopContext, PlayHasRoom, ReturnLabels, InPlay,
       InPlayerStop, ControlTypes, Goto, CallPlayerStop, svcVars
  <2>5. JobIsRequest'
    BY <1>11, Members DEF StopContext, JobIsRequest, ControlTypes, Goto,
       CallPlayerStop, jobVars
  <2> QED
    BY <1>11, Frame, <2>1, <2>2, <2>3, <2>4, <2>5 DEF StopContext
<1>12. ASSUME NEW t \in {"gui", "closer"}, StopReturn(t) PROVE TypeInv'
  <2>1. ServiceTypes'
    BY <1>12, Members, PlaybackAssumption DEF StopReturn, ServiceTypes,
       svcVars, Lock, Unlock, None, PlaybackAssumption
  <2>2. ControlTypes'
    BY <1>12, Members DEF StopReturn, ControlTypes, Goto, CallPlayerStop
  <2>3. PlayHasRoom' /\ ReturnLabels'
    BY <1>12, Members DEF StopReturn, PlayHasRoom, ReturnLabels, InPlay,
       InPlayerStop, ControlTypes, Goto, CallPlayerStop, svcVars
  <2>4. JobIsRequest'
    BY <1>12, Members DEF StopReturn, JobIsRequest, ControlTypes, Goto,
       CallPlayerStop, jobVars
  <2> QED
    BY <1>12, Frame, <2>1, <2>2, <2>3, <2>4 DEF StopReturn
<1>13. ASSUME NEW t \in {"gui", "closer", "worker"}, StopFlags(t) PROVE TypeInv'
  <2>1. PlayerTypes'
    BY <1>13, Members DEF StopFlags, PlayerTypes, implVars, deviceVars
  <2>2. ControlTypes'
    BY <1>13, Members DEF StopFlags, ControlTypes, Goto, CallPlayerStop
  <2>3. PlayHasRoom' /\ ReturnLabels'
    BY <1>13, Members DEF StopFlags, PlayHasRoom, ReturnLabels, InPlay,
       InPlayerStop, ControlTypes, Goto, CallPlayerStop, svcVars
  <2>4. JobIsRequest'
    BY <1>13, Members DEF StopFlags, JobIsRequest, ControlTypes, Goto,
       CallPlayerStop, jobVars
  <2> QED
    BY <1>13, Frame, <2>1, <2>2, <2>3, <2>4 DEF StopFlags
<1>14. ASSUME NEW t \in {"gui", "closer", "worker"}, StopDevice(t) PROVE TypeInv'
  <2>1. PlayerTypes'
    BY <1>14, Members DEF StopDevice, PlayerTypes, implVars, deviceVars
  <2>2. ControlTypes'
    BY <1>14, Members DEF StopDevice, ControlTypes, Goto, CallPlayerStop
  <2>3. PlayHasRoom' /\ ReturnLabels'
    BY <1>14, Members DEF StopDevice, PlayHasRoom, ReturnLabels, InPlay,
       InPlayerStop, ControlTypes, Goto, CallPlayerStop, svcVars
  <2>4. JobIsRequest'
    BY <1>14, Members DEF StopDevice, JobIsRequest, ControlTypes, Goto,
       CallPlayerStop, jobVars
  <2> QED
    BY <1>14, Frame, <2>1, <2>2, <2>3, <2>4 DEF StopDevice
<1>15. ASSUME NEW t \in {"gui", "closer", "worker"}, DeviceStopped(t) PROVE TypeInv'
  <2>1. PlayerTypes'
    BY <1>15, Members DEF DeviceStopped, PlayerTypes, implVars, deviceVars
  <2>2. ControlTypes'
    BY <1>15, Members DEF DeviceStopped, ControlTypes, Goto, CallPlayerStop
  <2>3. PlayHasRoom' /\ ReturnLabels'
    BY <1>15, Members DEF DeviceStopped, PlayHasRoom, ReturnLabels, InPlay,
       InPlayerStop, ControlTypes, Goto, CallPlayerStop, svcVars
  <2>4. JobIsRequest'
    BY <1>15, Members DEF DeviceStopped, JobIsRequest, ControlTypes, Goto,
       CallPlayerStop, jobVars
  <2> QED
    BY <1>15, Frame, <2>1, <2>2, <2>3, <2>4 DEF DeviceStopped
<1>16. ASSUME NEW t \in {"gui", "closer"}, SetShutdown(t) PROVE TypeInv'
  <2>1. ServiceTypes'
    BY <1>16, Members, PlaybackAssumption DEF SetShutdown, ServiceTypes,
       svcVars, Lock, Unlock, None, PlaybackAssumption
  <2>2. ControlTypes'
    BY <1>16, Members DEF SetShutdown, ControlTypes, Goto, CallPlayerStop
  <2>3. PlayHasRoom' /\ ReturnLabels'
    BY <1>16, Members DEF SetShutdown, PlayHasRoom, ReturnLabels, InPlay,
       InPlayerStop, ControlTypes, Goto, CallPlayerStop, svcVars
  <2>4. JobIsRequest'
    BY <1>16, Members DEF SetShutdown, JobIsRequest, ControlTypes, Goto,
       CallPlayerStop, jobVars
  <2> QED
    BY <1>16, Frame, <2>1, <2>2, <2>3, <2>4 DEF SetShutdown
<1>17. ASSUME NEW t \in {"gui", "closer"}, DiscardPending(t) PROVE TypeInv'
  <2>1. QueueTypes'
    BY <1>17, EmptySeq DEF DiscardPending, RequestStop, QueueTypes, queueVars
  <2>2. ControlTypes'
    BY <1>17, Members DEF DiscardPending, RequestStop, ControlTypes, Goto,
       CallPlayerStop
  <2>3. PlayHasRoom' /\ ReturnLabels'
    BY <1>17, Members DEF DiscardPending, RequestStop, PlayHasRoom,
       ReturnLabels, InPlay, InPlayerStop, ControlTypes, Goto, CallPlayerStop,
       svcVars
  <2>4. JobIsRequest'
    BY <1>17, Members DEF DiscardPending, RequestStop, JobIsRequest,
       ControlTypes, Goto, CallPlayerStop, jobVars
  <2> QED
    BY <1>17, Frame, <2>1, <2>2, <2>3, <2>4 DEF DiscardPending, RequestStop
<1>18. CASE ShutdownReset
  <2>1. ServiceTypes'
    BY <1>18, Members, PlaybackAssumption DEF ShutdownReset, ResetService,
       Joined, ServiceTypes, svcVars, Lock, Unlock, None, PlaybackAssumption
  <2>2. ControlTypes'
    BY <1>18, Members DEF ShutdownReset, ResetService, Joined, ControlTypes,
       Goto, CallPlayerStop
  <2>3. PlayHasRoom' /\ ReturnLabels'
    BY <1>18, Members DEF ShutdownReset, ResetService, Joined, PlayHasRoom,
       ReturnLabels, InPlay, InPlayerStop, ControlTypes, Goto, CallPlayerStop,
       svcVars
  <2>4. JobIsRequest'
    BY <1>18, Members DEF ShutdownReset, ResetService, Joined, JobIsRequest,
       ControlTypes, Goto, CallPlayerStop, jobVars
  <2> QED
    BY <1>18, Frame, <2>1, <2>2, <2>3, <2>4 DEF ShutdownReset, ResetService,
       Joined
<1>19. CASE Take
  <2>1. QueueTypes'
    BY <1>19, HeadTailProperties DEF Take, QueueTypes, queueVars
  <2>2. JobTypes'
    BY <1>19, HeadTailProperties DEF Take, JobTypes, jobVars, QueueTypes
  <2>3. ControlTypes'
    BY <1>19, Members DEF Take, ControlTypes, Goto, CallPlayerStop
  <2>4. PlayHasRoom' /\ ReturnLabels'
    BY <1>19, Members DEF Take, PlayHasRoom, ReturnLabels, InPlay,
       InPlayerStop, ControlTypes, Goto, CallPlayerStop, svcVars
  <2>5. JobIsRequest'
    BY <1>19, Members, HeadTailProperties DEF Take, JobIsRequest,
       ControlTypes, Goto, CallPlayerStop, jobVars, QueueTypes
  <2> QED
    BY <1>19, Frame, <2>1, <2>2, <2>3, <2>4, <2>5 DEF Take
<1>20. CASE WorkerExit
  <2>1. ControlTypes'
    BY <1>20, Members DEF WorkerExit, ControlTypes, Goto, CallPlayerStop
  <2>2. PlayHasRoom' /\ ReturnLabels'
    BY <1>20, Members DEF WorkerExit, PlayHasRoom, ReturnLabels, InPlay,
       InPlayerStop, ControlTypes, Goto, CallPlayerStop, svcVars
  <2>3. JobIsRequest'
    BY <1>20, Members DEF WorkerExit, JobIsRequest, ControlTypes, Goto,
       CallPlayerStop, jobVars
  <2> QED
    BY <1>20, Frame, <2>1, <2>2, <2>3 DEF WorkerExit
<1>21. CASE ReadyForItem
  <2>1. JobTypes'
    BY <1>21 DEF ReadyForItem, Leave, LeaveWith, JobTypes, jobVars
  <2>2. ControlTypes'
    BY <1>21, Members DEF ReadyForItem, Leave, LeaveWith, ControlTypes, Goto,
       CallPlayerStop
  <2>3. PlayHasRoom' /\ ReturnLabels'
    BY <1>21, Members DEF ReadyForItem, Leave, LeaveWith, PlayHasRoom,
       ReturnLabels, InPlay, InPlayerStop, ControlTypes, Goto, CallPlayerStop,
       svcVars
  <2>4. JobIsRequest'
    BY <1>21, Members DEF ReadyForItem, Leave, LeaveWith, JobIsRequest,
       ControlTypes, Goto, CallPlayerStop, jobVars
  <2> QED
    BY <1>21, Frame, <2>1, <2>2, <2>3, <2>4 DEF ReadyForItem, Leave, LeaveWith
<1>22. CASE SetStateEnter
  <2>1. ServiceTypes'
    BY <1>22, Members, PlaybackAssumption DEF SetStateEnter, Leave, LeaveWith,
       Replaced, ServiceTypes, svcVars, Lock, Unlock, None, PlaybackAssumption
  <2>2. JobTypes'
    BY <1>22 DEF SetStateEnter, Leave, LeaveWith, Replaced, JobTypes, jobVars
  <2>3. ControlTypes'
    BY <1>22, Members DEF SetStateEnter, Leave, LeaveWith, Replaced,
       ControlTypes, Goto, CallPlayerStop
  <2>4. PlayHasRoom' /\ ReturnLabels'
    BY <1>22, Members DEF SetStateEnter, Leave, LeaveWith, Replaced,
       PlayHasRoom, ReturnLabels, InPlay, InPlayerStop, ControlTypes, Goto,
       CallPlayerStop, svcVars
  <2>5. JobIsRequest'
    BY <1>22, Members DEF SetStateEnter, Leave, LeaveWith, Replaced,
       JobIsRequest, ControlTypes, Goto, CallPlayerStop, jobVars
  <2> QED
    BY <1>22, Frame, <2>1, <2>2, <2>3, <2>4, <2>5 DEF SetStateEnter, Leave,
       LeaveWith, Replaced
<1>23. CASE SetStateApply
  <2>1. ServiceTypes'
    BY <1>23, Members, PlaybackAssumption DEF SetStateApply, Leave, LeaveWith,
       Refused, ServiceTypes, svcVars, Lock, Unlock, None, JobTypes,
       PlaybackAssumption
  <2>2. JobTypes'
    BY <1>23 DEF SetStateApply, Leave, LeaveWith, Refused, JobTypes, jobVars
  <2>3. ControlTypes'
    BY <1>23, Members DEF SetStateApply, Leave, LeaveWith, Refused,
       ControlTypes, Goto, CallPlayerStop
  <2>4. PlayHasRoom' /\ ReturnLabels'
    BY <1>23, Members DEF SetStateApply, Leave, LeaveWith, Refused,
       PlayHasRoom, ReturnLabels, InPlay, InPlayerStop, ControlTypes, Goto,
       CallPlayerStop, svcVars
  <2>5. JobIsRequest'
    BY <1>23, Members DEF SetStateApply, Leave, LeaveWith, Refused,
       JobIsRequest, ControlTypes, Goto, CallPlayerStop, jobVars
  <2> QED
    BY <1>23, Frame, <2>1, <2>2, <2>3, <2>4, <2>5 DEF SetStateApply, Leave,
       LeaveWith, Refused
<1>24. CASE SetRow
  <2>1. ServiceTypes'
    BY <1>24, Members, PlaybackAssumption DEF SetRow, Leave, LeaveWith,
       Replaced, ServiceTypes, svcVars, Lock, Unlock, None, JobTypes,
       PlayHasRoom, InPlay, PlaybackAssumption
  <2>2. JobTypes'
    BY <1>24 DEF SetRow, Leave, LeaveWith, Replaced, JobTypes, jobVars
  <2>3. ControlTypes'
    BY <1>24, Members DEF SetRow, Leave, LeaveWith, Replaced, ControlTypes,
       Goto, CallPlayerStop
  <2>4. PlayHasRoom' /\ ReturnLabels'
    BY <1>24, Members DEF SetRow, Leave, LeaveWith, Replaced, PlayHasRoom,
       ReturnLabels, InPlay, InPlayerStop, ControlTypes, Goto, CallPlayerStop,
       svcVars
  <2>5. JobIsRequest'
    BY <1>24, Members DEF SetRow, Leave, LeaveWith, Replaced, JobIsRequest,
       ControlTypes, Goto, CallPlayerStop, jobVars
  <2> QED
    BY <1>24, Frame, <2>1, <2>2, <2>3, <2>4, <2>5 DEF SetRow, Leave,
       LeaveWith, Replaced
<1>25. CASE Prepare
  <2>1. JobTypes'
    BY <1>25 DEF Prepare, Leave, LeaveWith, JobTypes, jobVars
  <2>2. ControlTypes'
    BY <1>25, Members DEF Prepare, Leave, LeaveWith, ControlTypes, Goto,
       CallPlayerStop
  <2>3. PlayHasRoom' /\ ReturnLabels'
    BY <1>25, Members DEF Prepare, Leave, LeaveWith, PlayHasRoom,
       ReturnLabels, InPlay, InPlayerStop, ControlTypes, Goto, CallPlayerStop,
       svcVars
  <2>4. JobIsRequest'
    BY <1>25, Members DEF Prepare, Leave, LeaveWith, JobIsRequest,
       ControlTypes, Goto, CallPlayerStop, jobVars
  <2> QED
    BY <1>25, Frame, <2>1, <2>2, <2>3, <2>4 DEF Prepare, Leave, LeaveWith
<1>26. CASE ReadyToPlay
  <2>1. JobTypes'
    BY <1>26 DEF ReadyToPlay, Leave, LeaveWith, JobTypes, jobVars
  <2>2. ControlTypes'
    BY <1>26, Members DEF ReadyToPlay, Leave, LeaveWith, ControlTypes, Goto,
       CallPlayerStop
  <2>3. PlayHasRoom' /\ ReturnLabels'
    BY <1>26, Members DEF ReadyToPlay, Leave, LeaveWith, PlayHasRoom,
       ReturnLabels, InPlay, InPlayerStop, ControlTypes, Goto, CallPlayerStop,
       svcVars
  <2>4. JobIsRequest'
    BY <1>26, Members DEF ReadyToPlay, Leave, LeaveWith, JobIsRequest,
       ControlTypes, Goto, CallPlayerStop, jobVars
  <2> QED
    BY <1>26, Frame, <2>1, <2>2, <2>3, <2>4 DEF ReadyToPlay, Leave, LeaveWith
<1>27. CASE Interval
  <2>1. JobTypes'
    <3>1. failed' \in BOOLEAN
      BY <1>27 DEF Interval, Leave, LeaveWith, JobTypes
    <3>2. item' \in Nat
      BY <1>27 DEF Interval, JobTypes
    <3> QED
      BY <1>27, <3>1, <3>2 DEF Interval, JobTypes
  <2>2. ControlTypes'
    BY <1>27, Members DEF Interval, Leave, LeaveWith, ControlTypes, Goto,
       CallPlayerStop
  <2>3. PlayHasRoom' /\ ReturnLabels'
    BY <1>27, Members DEF Interval, Leave, LeaveWith, PlayHasRoom,
       ReturnLabels, InPlay, InPlayerStop, ControlTypes, Goto, CallPlayerStop,
       svcVars
  <2>4. JobIsRequest'
    BY <1>27, Members DEF Interval, Leave, LeaveWith, JobIsRequest,
       ControlTypes, Goto, CallPlayerStop, jobVars
  <2> QED
    BY <1>27, Frame, <2>1, <2>2, <2>3, <2>4 DEF Interval, Leave, LeaveWith
<1>28. CASE FinishEnter
  <2>1. ServiceTypes'
    BY <1>28, Members, PlaybackAssumption DEF FinishEnter, Replaced,
       ServiceTypes, svcVars, Lock, Unlock, None, PlaybackAssumption
  <2>2. ControlTypes'
    BY <1>28, Members DEF FinishEnter, Replaced, ControlTypes, Goto,
       CallPlayerStop
  <2>3. PlayHasRoom' /\ ReturnLabels'
    BY <1>28, Members DEF FinishEnter, Replaced, PlayHasRoom, ReturnLabels,
       InPlay, InPlayerStop, ControlTypes, Goto, CallPlayerStop, svcVars
  <2>4. JobIsRequest'
    BY <1>28, Members DEF FinishEnter, Replaced, JobIsRequest, ControlTypes,
       Goto, CallPlayerStop, jobVars
  <2> QED
    BY <1>28, Frame, <2>1, <2>2, <2>3, <2>4 DEF FinishEnter, Replaced
<1>29. CASE FinishApply
  <2>1. ServiceTypes'
    BY <1>29, Members, PlaybackAssumption DEF FinishApply, Reportable,
       ServiceTypes, svcVars, Lock, Unlock, None, Requests, JobTypes,
       PlayHasRoom, InPlay, PlaybackAssumption
  <2>2. ControlTypes'
    BY <1>29, Members DEF FinishApply, Reportable, ControlTypes, Goto,
       CallPlayerStop
  <2>3. PlayHasRoom' /\ ReturnLabels'
    BY <1>29, Members DEF FinishApply, Reportable, PlayHasRoom, ReturnLabels,
       InPlay, InPlayerStop, ControlTypes, Goto, CallPlayerStop, svcVars
  <2>4. JobIsRequest'
    BY <1>29, Members DEF FinishApply, Reportable, JobIsRequest, ControlTypes,
       Goto, CallPlayerStop, jobVars
  <2> QED
    BY <1>29, Frame, <2>1, <2>2, <2>3, <2>4 DEF FinishApply, Reportable
<1>30. CASE Report
  <2>1. SeenTypes'
    BY <1>30 DEF Report, SeenTypes, seenVars, PlayerTypes, JobTypes,
       JobIsRequest
  <2>2. ControlTypes'
    BY <1>30, Members DEF Report, ControlTypes, Goto, CallPlayerStop
  <2>3. PlayHasRoom' /\ ReturnLabels'
    BY <1>30, Members DEF Report, PlayHasRoom, ReturnLabels, InPlay,
       InPlayerStop, ControlTypes, Goto, CallPlayerStop, svcVars
  <2>4. JobIsRequest'
    BY <1>30, Members DEF Report, JobIsRequest, ControlTypes, Goto,
       CallPlayerStop, jobVars
  <2> QED
    BY <1>30, Frame, <2>1, <2>2, <2>3, <2>4 DEF Report
<1>31. CASE RejectAudio
  <2>1. JobTypes'
    BY <1>31 DEF RejectAudio, LeaveWith, JobTypes, jobVars
  <2>2. ControlTypes'
    BY <1>31, Members DEF RejectAudio, LeaveWith, ControlTypes, Goto,
       CallPlayerStop
  <2>3. PlayHasRoom' /\ ReturnLabels'
    BY <1>31, Members DEF RejectAudio, LeaveWith, PlayHasRoom, ReturnLabels,
       InPlay, InPlayerStop, ControlTypes, Goto, CallPlayerStop, svcVars
  <2>4. JobIsRequest'
    BY <1>31, Members DEF RejectAudio, LeaveWith, JobIsRequest, ControlTypes,
       Goto, CallPlayerStop, jobVars
  <2> QED
    BY <1>31, Frame, <2>1, <2>2, <2>3, <2>4 DEF RejectAudio, LeaveWith
<1>32. CASE EnsureDevice
  <2>1. JobTypes'
    BY <1>32 DEF EnsureDevice, LeaveWith, JobTypes, jobVars
  <2>2. ControlTypes'
    BY <1>32, Members DEF EnsureDevice, LeaveWith, ControlTypes, Goto,
       CallPlayerStop
  <2>3. PlayHasRoom' /\ ReturnLabels'
    BY <1>32, Members DEF EnsureDevice, LeaveWith, PlayHasRoom, ReturnLabels,
       InPlay, InPlayerStop, ControlTypes, Goto, CallPlayerStop, svcVars
  <2>4. JobIsRequest'
    BY <1>32, Members DEF EnsureDevice, LeaveWith, JobIsRequest, ControlTypes,
       Goto, CallPlayerStop, jobVars
  <2> QED
    BY <1>32, Frame, <2>1, <2>2, <2>3, <2>4 DEF EnsureDevice, LeaveWith
<1>33. CASE Gate
  <2>1. ContextTypes'
    BY <1>33, Members DEF Gate, HoldRequest, ContextTypes, ctxVars
  <2>2. ControlTypes'
    BY <1>33, Members DEF Gate, HoldRequest, ControlTypes, Goto,
       CallPlayerStop
  <2>3. PlayHasRoom' /\ ReturnLabels'
    BY <1>33, Members DEF Gate, HoldRequest, PlayHasRoom, ReturnLabels,
       InPlay, InPlayerStop, ControlTypes, Goto, CallPlayerStop, svcVars
  <2>4. JobIsRequest'
    BY <1>33, Members DEF Gate, HoldRequest, JobIsRequest, ControlTypes, Goto,
       CallPlayerStop, jobVars
  <2> QED
    BY <1>33, Frame, <2>1, <2>2, <2>3, <2>4 DEF Gate, HoldRequest
<1>34. CASE Install
  <2>1. ContextTypes'
    BY <1>34, Members DEF Install, HandoffPaused, ContextTypes, ctxVars
  <2>2. PlayerTypes'
    <3>1. cursor' \in 0..Periods
      BY <1>34, PlaybackAssumption DEF PlaybackAssumption, Install
    <3>2. paused[job] \in BOOLEAN /\ job \in Requests
      BY <1>34 DEF Install, ContextTypes, JobIsRequest
    <3> QED
      BY <1>34, <3>1, <3>2 DEF Install, HandoffPaused, PlayerTypes, deviceVars
  <2>3. ControlTypes'
    BY <1>34, Members DEF Install, HandoffPaused, ControlTypes, Goto,
       CallPlayerStop
  <2>4. PlayHasRoom' /\ ReturnLabels'
    BY <1>34, Members DEF Install, HandoffPaused, PlayHasRoom, ReturnLabels,
       InPlay, InPlayerStop, ControlTypes, Goto, CallPlayerStop, svcVars
  <2>5. JobIsRequest'
    BY <1>34, Members DEF Install, HandoffPaused, JobIsRequest, ControlTypes,
       Goto, CallPlayerStop, jobVars
  <2> QED
    BY <1>34, Frame, <2>1, <2>2, <2>3, <2>4, <2>5 DEF Install, HandoffPaused
<1>35. CASE StartDevice
  <2>1. JobTypes'
    BY <1>35 DEF StartDevice, LeaveWith, JobTypes, jobVars
  <2>2. PlayerTypes'
    BY <1>35 DEF StartDevice, LeaveWith, PlayerTypes, implVars, deviceVars
  <2>3. ControlTypes'
    BY <1>35, Members DEF StartDevice, LeaveWith, ControlTypes, Goto,
       CallPlayerStop
  <2>4. PlayHasRoom' /\ ReturnLabels'
    BY <1>35, Members DEF StartDevice, LeaveWith, PlayHasRoom, ReturnLabels,
       InPlay, InPlayerStop, ControlTypes, Goto, CallPlayerStop, svcVars
  <2>5. JobIsRequest'
    BY <1>35, Members DEF StartDevice, LeaveWith, JobIsRequest, ControlTypes,
       Goto, CallPlayerStop, jobVars
  <2> QED
    BY <1>35, Frame, <2>1, <2>2, <2>3, <2>4, <2>5 DEF StartDevice, LeaveWith
<1>36. CASE Drained
  <2>1. ControlTypes'
    BY <1>36, Members DEF Drained, ControlTypes, Goto, CallPlayerStop
  <2>2. PlayHasRoom' /\ ReturnLabels'
    BY <1>36, Members DEF Drained, PlayHasRoom, ReturnLabels, InPlay,
       InPlayerStop, ControlTypes, Goto, CallPlayerStop, svcVars
  <2>3. JobIsRequest'
    BY <1>36, Members DEF Drained, JobIsRequest, ControlTypes, Goto,
       CallPlayerStop, jobVars
  <2> QED
    BY <1>36, Frame, <2>1, <2>2, <2>3 DEF Drained
<1>37. CASE CallbackEnter
  <2>1. PlayerTypes'
    BY <1>37, PlaybackAssumption DEF CallbackEnter, PlayerTypes, implVars,
       deviceVars, JobTypes, ContextTypes, PlaybackAssumption
  <2>2. ControlTypes'
    BY <1>37, Members DEF CallbackEnter, ControlTypes, Goto, CallPlayerStop
  <2>3. PlayHasRoom' /\ ReturnLabels'
    BY <1>37, Members DEF CallbackEnter, PlayHasRoom, ReturnLabels, InPlay,
       InPlayerStop, ControlTypes, Goto, CallPlayerStop, svcVars
  <2>4. JobIsRequest'
    BY <1>37, Members DEF CallbackEnter, JobIsRequest, ControlTypes, Goto,
       CallPlayerStop, jobVars
  <2> QED
    BY <1>37, Frame, <2>1, <2>2, <2>3, <2>4 DEF CallbackEnter
<1>38. CASE CallbackGate
  <2>1. ContextTypes'
    BY <1>38, Members DEF CallbackGate, HoldRequest, ContextTypes, ctxVars
  <2>2. ControlTypes'
    BY <1>38, Members DEF CallbackGate, HoldRequest, ControlTypes, Goto,
       CallPlayerStop
  <2>3. PlayHasRoom' /\ ReturnLabels'
    BY <1>38, Members DEF CallbackGate, HoldRequest, PlayHasRoom,
       ReturnLabels, InPlay, InPlayerStop, ControlTypes, Goto, CallPlayerStop,
       svcVars
  <2>4. JobIsRequest'
    BY <1>38, Members DEF CallbackGate, HoldRequest, JobIsRequest,
       ControlTypes, Goto, CallPlayerStop, jobVars
  <2> QED
    BY <1>38, Frame, <2>1, <2>2, <2>3, <2>4 DEF CallbackGate, HoldRequest
<1>39. CASE CallbackRender
  <2>1. ContextTypes'
    BY <1>39, Members DEF CallbackRender, EndOfSamples, ContextTypes, ctxVars
  <2>2. PlayerTypes'
    <3>1. cursor' \in 0..Periods
      BY <1>39, PlaybackAssumption
      DEF PlaybackAssumption, CallbackRender, EndOfSamples, PlayerTypes
    <3>2. playing' \in BOOLEAN
      BY <1>39 DEF CallbackRender, PlayerTypes
    <3> QED
      BY <1>39, <3>1, <3>2 DEF CallbackRender, PlayerTypes, deviceVars
  <2>3. SeenTypes'
    BY <1>39 DEF CallbackRender, EndOfSamples, SeenTypes, seenVars,
       PlayerTypes, JobTypes, JobIsRequest
  <2>4. ControlTypes'
    BY <1>39, Members DEF CallbackRender, EndOfSamples, ControlTypes, Goto,
       CallPlayerStop
  <2>5. PlayHasRoom' /\ ReturnLabels'
    BY <1>39, Members DEF CallbackRender, EndOfSamples, PlayHasRoom,
       ReturnLabels, InPlay, InPlayerStop, ControlTypes, Goto, CallPlayerStop,
       svcVars
  <2>6. JobIsRequest'
    BY <1>39, Members DEF CallbackRender, EndOfSamples, JobIsRequest,
       ControlTypes, Goto, CallPlayerStop, jobVars
  <2> QED
    BY <1>39, Frame, <2>1, <2>2, <2>3, <2>4, <2>5, <2>6 DEF CallbackRender,
       EndOfSamples
<1>40. CASE UNCHANGED vars
  BY <1>40, Frame
  DEF vars, ControlTypes, PlayHasRoom, ReturnLabels, JobIsRequest, InPlay,
      InPlayerStop, svcVars, jobVars
<1> QED
  BY <1>1, <1>2, <1>3, <1>4, <1>5, <1>6, <1>7, <1>8, <1>9, <1>10, <1>11,
     <1>12, <1>13, <1>14, <1>15, <1>16, <1>17, <1>18, <1>19, <1>20, <1>21,
     <1>22, <1>23, <1>24, <1>25, <1>26, <1>27, <1>28, <1>29, <1>30, <1>31,
     <1>32, <1>33, <1>34, <1>35, <1>36, <1>37, <1>38, <1>39, <1>40
  DEF Next, GuiBegin, GuiContinue, CloserStep, WorkerAcquire, WorkerStep,
      DeviceStep, PlayerStop

(***************************************************************************)
(* Every variable keeps its type: in particular a request's id never runs  *)
(* past the bound, and the device never reads past the samples.            *)
(***************************************************************************)
THEOREM TypeCorrect == Spec => []TypeOK
BY InitTypeInv, NextTypeInv, PTL DEF Spec, TypeInv

-----------------------------------------------------------------------------
(* The safety of Playback: the inductive invariant.                        *)

\* The GUI, the closer and the worker hold mutex_ exactly between these labels.
GuiHolds ==
  \/ InPlayerStop("gui")
  \/ pc["gui"] \in {"playCancel", "playCommit", "pauseContext", "pausePlayer", "resumeContext",
                    "resumePlayer", "stopContext", "endStop", "endShutStop"}
CloserHolds ==
  \/ InPlayerStop("closer") /\ ret["closer"] = "endShutStop"
  \/ pc["closer"] \in {"stopContext", "endShutStop"}
WorkerHolds == pc["worker"] \in {"setStateApply", "finishApply"}

Exclusion ==
  /\ svcLock = "gui" <=> GuiHolds
  /\ svcLock = "closer" <=> CloserHolds
  /\ svcLock = "worker" <=> WorkerHolds

\* The labels a thread can be at, and where its player stops return.
ControlFlow ==
  /\ InPlayerStop("gui") => ret["gui"] \in {"playCommit", "endStop", "endShutStop"}
  /\ pc["closer"] \notin {"idle", "playCancel", "playCommit", "endStop"}
  /\ pc["closer"] = "stopContext" => ret["closer"] = "endShutStop"
  /\ InPlayerStop("closer") => ret["closer"] \in {"endShutStop", "closed"}
  /\ pc["worker"] \notin {"stopContext", "endStop", "endShutStop", "discard", "shutStop"}
  /\ InPlayerStop("worker") => ret["worker"] \in {"ensure", "interval"}
  /\ pc["worker"] = "stopFlags" => ret["worker"] = "ensure"
  /\ pc["device"] \in {"idle", "gate", "render"}

\* Between Install and the end of MiniaudioPlayer::Play.
Sounding ==
  \/ pc["worker"] = "drain"
  \/ pc["worker"] \in {"stopDevice", "quiesce"} /\ ret["worker"] = "interval"

\* The device runs for the worker's request only.
DeviceServesJob ==
  /\ Sounding \/ pc["worker"] = "start" => context = job
  /\ running \/ pc["device"] # "idle" => Sounding
  /\ pc["worker"] = "quiesce" => ~running
  /\ pc["device"] # "idle" => cbContext = job

\* The callback that renders holds its request's mutex, so that nobody has
\* canceled or paused the request since the callback looked.
RenderIsGuarded ==
  pc["device"] = "render" =>
    /\ reqLock[cbContext] = "device"
    /\ ~canceled[cbContext] /\ ~paused[cbContext]

\* The ids of a queue grow, from above low to at most high.
Ordered(q, low, high) ==
  /\ \A k \in 1..Len(q) : low < q[k] /\ q[k] <= high
  /\ \A k, l \in 1..Len(q) : k < l => q[k] < q[l]

\* What is queued was started after what the worker runs.
RequestsInOrder ==
  /\ active \in {None, generation}
  /\ job <= generation /\ context <= generation /\ heard[1] <= job
  /\ Ordered(tasks, job, generation)
  /\ \A r \in Requests : r > generation => ~canceled[r] /\ ~paused[r]

\* The worker has a request that Finish has not yet seen.
Working == pc["worker"] \notin {"take", "exited", "report"}

\* A request that is queued or worked on and not canceled is the active one.
UncanceledIsActive ==
  /\ Working /\ ~canceled[job] => active = job
  /\ \A k \in 1..Len(tasks) : ~canceled[tasks[k]] => active = tasks[k]
  /\ WorkerHolds => active = job

\* From setState to the interval the worker's item is one of its request's.
AtItem ==
  \/ InPlayerStop("worker")
  \/ pc["worker"] \in {"setState", "setStateApply", "row", "prepare", "prepared",
                       "ensure", "gate", "install", "start", "drain"}

ItemInRange ==
  /\ pc["worker"] = "ready" => item >= 1
  /\ AtItem => item \in 1..Len(items[job])
  /\ Working /\ heard[1] = job => heard[2] <= item

\* Play has canceled what it replaces and has not yet started its own.
Replacing ==
  \/ InPlayerStop("gui") /\ ret["gui"] = "playCommit"
  \/ pc["gui"] = "playCommit"

\* What state_ says of the active request, at every step but those of Play.
StateInv ==
  /\ Replacing => active = None \/ canceled[active]
  /\ ~Replacing =>
       IF active = None THEN state \in {"Idle", "Error"}
       ELSE IF canceled[active] THEN state = "Stopping"
       ELSE IF paused[active] THEN state = "Paused"
       ELSE state \in {"Generating", "Playing"}
  /\ state = "Paused" => pausedFrom \in {"Generating", "Playing"}

\* A control that waits for a request's mutex has a request, in the state
\* it was begun in.
ControlsHaveRequest ==
  /\ \A t \in {"gui", "closer"} : pc[t] = "stopContext" => active # None
  /\ pc["gui"] \in {"playCancel", "pauseContext", "pausePlayer", "resumeContext", "resumePlayer"} =>
       active # None
  /\ pc["gui"] \in {"pauseContext", "resumePlayer"} => state \in {"Generating", "Playing"}
  /\ pc["gui"] \in {"pausePlayer", "resumeContext"} => state = "Paused"

\* The player's flag follows the request's but inside Pause and Resume.
PauseInv ==
  playing /\ Live(context) /\ pc["gui"] \notin {"pausePlayer", "resumePlayer"} =>
    implPaused = paused[context]

\* A reported request is done with, and nothing cancels it afterwards.
ErrorInv ==
  /\ state = "Error" => active = None /\ lastError = generation
  /\ \A r \in reported : r # active /\ r <= generation /\ ~canceled[r]
  /\ pc["worker"] = "report" => job # active /\ ~canceled[job]

RowInv == active # None => current[1] = (IF items[active] = <<>> THEN None ELSE active)

\* The GUI is inside RequestShutdown.
InShutdown ==
  \/ pc["gui"] \in {"shutStop", "endShutStop", "discard"}
  \/ (InPlayerStop("gui") \/ pc["gui"] = "stopContext") /\ ret["gui"] = "endShutStop"

\* The closer is past the reset, in its last MiniaudioPlayer::Stop, or through.
AfterReset ==
  \/ InPlayerStop("closer") /\ ret["closer"] = "closed"
  \/ pc["closer"] = "closed"

\* No Play is under way once shutdown_ is set, so what the shutdown empties
\* and stops stays so.
ShutdownInv ==
  /\ closing \/ ~accepting \/ InShutdown \/ pc["closer"] # "barrier" => shutdown
  /\ InPlay => ~shutdown
  /\ pc["worker"] = "exited" => tasks = <<>> /\ ~accepting
  /\ AfterReset => pc["worker"] = "exited" /\ active = None /\ state = "Idle"
  /\ AfterReset /\ pc["closer"] # "stopFlags" => ~playing
  /\ AfterReset /\ pc["closer"] \notin {"stopFlags", "stopDevice"} => ~running
  /\ pc["closer"] = "closed" => pc["device"] = "idle"

Inv ==
  /\ Exclusion /\ ControlFlow /\ DeviceServesJob /\ RenderIsGuarded
  /\ RequestsInOrder /\ UncanceledIsActive /\ ItemInRange
  /\ StateInv /\ ControlsHaveRequest /\ PauseInv /\ ErrorInv /\ RowInv /\ ShutdownInv

-----------------------------------------------------------------------------
\* A request that Play appends keeps the queue in order.
LEMMA OrderedAppend ==
  ASSUME NEW q \in Seq(Nat), NEW low \in Nat, NEW high \in Nat, low <= high,
         Ordered(q, low, high)
  PROVE  Ordered(Append(q, high + 1), low, high + 1)
<1> DEFINE a == Append(q, high + 1)
<1>1. /\ Len(a) = Len(q) + 1 /\ Len(q) \in Nat
      /\ \A k \in 1..Len(q) : a[k] = q[k] /\ q[k] \in Nat
      /\ a[Len(q) + 1] = high + 1
  BY AppendProperties
<1>2. \A k \in 1..Len(a) : k \in 1..Len(q) \/ k = Len(q) + 1
  BY <1>1
<1> HIDE DEF a
<1>3. \A k \in 1..Len(a) : low < a[k] /\ a[k] <= high + 1
  BY <1>1, <1>2 DEF Ordered
<1>4. ASSUME NEW k \in 1..Len(a), NEW l \in 1..Len(a), k < l
      PROVE  a[k] < a[l]
  <2>1. k \in 1..Len(q)
    BY <1>1, <1>4
  <2>2. CASE l \in 1..Len(q)
    BY <1>1, <1>4, <2>1, <2>2 DEF Ordered
  <2>3. CASE l = Len(q) + 1
    BY <1>1, <2>1, <2>3 DEF Ordered
  <2> QED
    BY <1>2, <2>2, <2>3
<1> QED
  BY <1>3, <1>4 DEF a, Ordered

\* The elements of a queue after its head is taken.
LEMMA TailElements ==
  ASSUME NEW S, NEW q \in Seq(S), q # <<>>
  PROVE  /\ Head(q) = q[1] /\ 1 \in 1..Len(q) /\ Tail(q) \in Seq(S)
         /\ \A k \in 1..Len(Tail(q)) : k + 1 \in 1..Len(q) /\ Tail(q)[k] = q[k + 1]
<1> DEFINE t == Tail(q)
<1>1. /\ Len(q) \in Nat \ {0} /\ Len(t) = Len(q) - 1 /\ Head(q) = q[1] /\ t \in Seq(S)
      /\ \A k \in 1..Len(t) : t[k] = q[k + 1]
  BY HeadTailProperties, EmptySeq
<1> HIDE DEF t
<1>2. \A k \in 1..Len(t) : k + 1 \in 1..Len(q)
  BY <1>1
<1> QED
  BY <1>1, <1>2 DEF t

\* The request the worker takes is below what stays queued.
LEMMA OrderedTail ==
  ASSUME NEW q \in Seq(Nat), NEW low \in Nat, NEW high \in Nat,
         Ordered(q, low, high), q # <<>>
  PROVE  /\ low < Head(q) /\ Head(q) <= high
         /\ Ordered(Tail(q), Head(q), high)
<1> DEFINE t == Tail(q)
<1>1. /\ Head(q) = q[1] /\ 1 \in 1..Len(q) /\ Len(t) \in Nat
      /\ \A k \in 1..Len(q) : q[k] \in Nat
      /\ \A k \in 1..Len(t) : k + 1 \in 1..Len(q) /\ t[k] = q[k + 1]
  BY TailElements
<1> HIDE DEF t
<1>2. low < q[1] /\ q[1] <= high
  BY <1>1 DEF Ordered
<1>3. \A k \in 1..Len(t) : 1 < k + 1
  OBVIOUS
<1>4. \A k \in 1..Len(t) : q[1] < t[k] /\ t[k] <= high
  BY <1>1, <1>3 DEF Ordered
<1>5. ASSUME NEW k \in 1..Len(t), NEW l \in 1..Len(t), k < l
      PROVE  t[k] < t[l]
  <2>1. k + 1 < l + 1
    BY <1>5
  <2> QED
    BY <1>1, <1>5, <2>1 DEF Ordered
<1> QED
  BY <1>1, <1>2, <1>4, <1>5 DEF t, Ordered

\* Ids are natural numbers.
LEMMA RequestsAreNumbers ==
  ASSUME TypeInv
  PROVE  /\ tasks \in Seq(Nat) /\ generation \in Nat
         /\ job \in Nat /\ context \in Nat /\ heard[1] \in Nat
<1>1. tasks \in Seq(Nat)
  <2>1. tasks \in Seq(Requests) /\ Requests \subseteq Nat
    BY DEF TypeInv, TypeOK, QueueTypes, Requests
  <2> QED
    BY <2>1, SeqMonotonic
<1>2. generation \in Nat /\ job \in Nat /\ context \in Nat /\ heard[1] \in Nat
  BY DEF TypeInv, TypeOK, ServiceTypes, JobTypes, PlayerTypes, SeenTypes, Requests, None
<1> QED
  BY <1>1, <1>2

\* A request has no more items than the bound.
LEMMA BatchLength ==
  ASSUME NEW batch \in Batches
  PROVE  Len(batch) \in 0..MaxItems
<1>1. PICK n \in 0..MaxItems : batch \in [1..n -> BOOLEAN]
  BY DEF Batches
<1>2. batch \in Seq(BOOLEAN) /\ Len(batch) = n
  BY <1>1, SeqDef
<1> QED
  BY <1>2

-----------------------------------------------------------------------------
Gui == GuiBegin \/ GuiContinue
Worker == WorkerAcquire \/ WorkerStep
Commits == \E batch \in Batches : PlayCommit(batch)

\* Which steps write which variables.
LEMMA Writers ==
  ASSUME TypeInv, [Next]_vars
  PROVE
    /\ Gui \/ UNCHANGED <<pc["gui"], ret["gui"]>>
    /\ CloserStep \/ UNCHANGED <<pc["closer"], ret["closer"]>>
    /\ Worker \/ UNCHANGED <<pc["worker"], ret["worker"], jobVars, reported>>
    /\ DeviceStep \/ UNCHANGED <<pc["device"], cbContext, heard>>
    /\ Commits \/ UNCHANGED <<generation, items>>
    /\ Commits \/ FinishApply \/ ShutdownReset \/ UNCHANGED active
    /\ PlayCancel \/ StopContext("gui") \/ StopContext("closer") \/ UNCHANGED canceled
    /\ PauseContext \/ ResumeContext \/ StopContext("gui") \/ StopContext("closer") \/
          UNCHANGED paused
    /\ Gate \/ Install \/ CallbackGate \/ CallbackRender \/ UNCHANGED reqLock
    /\ Take \/ UNCHANGED job
    /\ Commits \/ Take \/ DiscardPending("gui") \/ DiscardPending("closer") \/ UNCHANGED
          tasks
    /\ Install \/ UNCHANGED context
    /\ StartDevice \/ (running' => running)
    /\ Install \/ (playing' => playing)
    /\ Install \/ PausePlayer \/ ResumePlayer \/ ~playing' \/ UNCHANGED implPaused
    /\ Commits \/ PauseContext \/ ResumeContext \/ StopEnter("gui") \/ StopContext("gui")
          \/ StopEnter("closer") \/ StopContext("closer") \/ ShutdownReset \/
          SetStateApply \/ FinishApply \/ UNCHANGED <<state, pausedFrom>>
    /\ Commits \/ FinishApply \/ UNCHANGED lastError
    /\ Commits \/ SetRow \/ UNCHANGED current
    /\ SetShutdown("gui") \/ SetShutdown("closer") \/ UNCHANGED shutdown
    /\ DiscardPending("gui") \/ DiscardPending("closer") \/ UNCHANGED <<accepting,
          closing>>
<1> USE DEF TypeInv, TypeOK, ControlTypes
<1>1. CASE PlayEnter
  <2>1. Gui
    BY <1>1 DEF Gui, GuiBegin, GuiContinue
  <2> QED
    BY <1>1, <2>1, Members DEF PlayEnter, Replaces, CallPlayerStop, Lock, Goto, svcVars,
       ctxVars, queueVars, jobVars, implVars, deviceVars, seenVars
<1>2. CASE PlayCancel
  <2>1. Gui
    BY <1>2 DEF Gui, GuiBegin, GuiContinue
  <2> QED
    BY <1>2, <2>1, Members DEF PlayCancel, CancelActive, CallPlayerStop, Goto, svcVars,
       ctxVars, queueVars, jobVars, implVars, deviceVars, seenVars
<1>3. CASE Commits
  <2>1. Gui
    BY <1>3 DEF Gui, GuiBegin, GuiContinue, Commits
  <2>2. UNCHANGED <<pc["closer"], ret["closer"], pc["worker"], ret["worker"], jobVars, reported,
                    pc["device"], cbContext, heard, canceled, paused, reqLock, context,
                    running, playing, implPaused, shutdown, accepting, closing>>
    BY <1>3, Members DEF Commits, PlayCommit, Unlock, Goto, svcVars, ctxVars, queueVars,
       jobVars, implVars, deviceVars, seenVars
  <2> QED
    BY <1>3, <2>1, <2>2 DEF jobVars
<1>4. CASE PauseEnter
  <2>1. Gui
    BY <1>4 DEF Gui, GuiBegin, GuiContinue
  <2> QED
    BY <1>4, <2>1, Members DEF PauseEnter, Lock, Goto, svcVars, ctxVars, queueVars,
       jobVars, implVars, deviceVars, seenVars
<1>5. CASE PauseContext
  <2>1. Gui
    BY <1>5 DEF Gui, GuiBegin, GuiContinue
  <2> QED
    BY <1>5, <2>1, Members DEF PauseContext, Goto, svcVars, ctxVars, queueVars, jobVars,
       implVars, deviceVars, seenVars
<1>6. CASE PausePlayer
  <2>1. Gui
    BY <1>6 DEF Gui, GuiBegin, GuiContinue
  <2> QED
    BY <1>6, <2>1, Members DEF PausePlayer, Unlock, Goto, svcVars, ctxVars, queueVars,
       jobVars, implVars, deviceVars, seenVars
<1>7. CASE ResumeEnter
  <2>1. Gui
    BY <1>7 DEF Gui, GuiBegin, GuiContinue
  <2> QED
    BY <1>7, <2>1, Members DEF ResumeEnter, Lock, Goto, svcVars, ctxVars, queueVars,
       jobVars, implVars, deviceVars, seenVars
<1>8. CASE ResumeContext
  <2>1. Gui
    BY <1>8 DEF Gui, GuiBegin, GuiContinue
  <2> QED
    BY <1>8, <2>1, Members DEF ResumeContext, Goto, svcVars, ctxVars, queueVars, jobVars,
       implVars, deviceVars, seenVars
<1>9. CASE ResumePlayer
  <2>1. Gui
    BY <1>9 DEF Gui, GuiBegin, GuiContinue
  <2> QED
    BY <1>9, <2>1, Members DEF ResumePlayer, PlayerResume, Unlock, Goto, svcVars, ctxVars,
       queueVars, jobVars, implVars, deviceVars, seenVars
<1>10. CASE StopEnter("gui")
  <2>1. Gui
    BY <1>10 DEF Gui, GuiBegin, GuiContinue, StopEnter
  <2> QED
    BY <1>10, <2>1, Members DEF StopEnter, Lock, Goto, svcVars, ctxVars, queueVars,
       jobVars, implVars, deviceVars, seenVars
<1>11. CASE StopContext("gui")
  <2>1. Gui
    BY <1>11 DEF Gui, GuiBegin, GuiContinue
  <2> QED
    BY <1>11, <2>1, Members DEF StopContext, Goto, svcVars, ctxVars, queueVars, jobVars,
       implVars, deviceVars, seenVars
<1>12. CASE StopReturn("gui")
  <2>1. Gui
    BY <1>12 DEF Gui, GuiBegin, GuiContinue
  <2> QED
    BY <1>12, <2>1, Members DEF StopReturn, Unlock, Goto, svcVars, ctxVars, queueVars,
       jobVars, implVars, deviceVars, seenVars
<1>13. CASE SetShutdown("gui")
  <2>1. Gui
    BY <1>13 DEF Gui, GuiBegin, GuiContinue
  <2> QED
    BY <1>13, <2>1, Members DEF SetShutdown, Goto, svcVars, ctxVars, queueVars, jobVars,
       implVars, deviceVars, seenVars
<1>14. CASE DiscardPending("gui")
  <2>1. Gui
    BY <1>14 DEF Gui, GuiBegin, GuiContinue
  <2> QED
    BY <1>14, <2>1, Members DEF DiscardPending, RequestStop, Goto, svcVars, ctxVars,
       queueVars, jobVars, implVars, deviceVars, seenVars
<1>15. CASE StopFlags("gui")
  <2>1. Gui
    BY <1>15 DEF Gui, GuiBegin, GuiContinue, PlayerStop
  <2> QED
    BY <1>15, <2>1, Members DEF StopFlags, Goto, svcVars, ctxVars, queueVars, jobVars,
       implVars, deviceVars, seenVars
<1>16. CASE StopDevice("gui")
  <2>1. Gui
    BY <1>16 DEF Gui, GuiBegin, GuiContinue, PlayerStop
  <2> QED
    BY <1>16, <2>1, Members DEF StopDevice, Goto, svcVars, ctxVars, queueVars, jobVars,
       implVars, deviceVars, seenVars
<1>17. CASE DeviceStopped("gui")
  <2>1. Gui
    BY <1>17 DEF Gui, GuiBegin, GuiContinue, PlayerStop
  <2> QED
    BY <1>17, <2>1, Members DEF DeviceStopped, Goto, svcVars, ctxVars, queueVars, jobVars,
       implVars, deviceVars, seenVars
<1>18. CASE SetShutdown("closer")
  <2>1. CloserStep
    BY <1>18 DEF CloserStep
  <2> QED
    BY <1>18, <2>1, Members DEF SetShutdown, Goto, svcVars, ctxVars, queueVars, jobVars,
       implVars, deviceVars, seenVars
<1>19. CASE StopEnter("closer")
  <2>1. CloserStep
    BY <1>19 DEF CloserStep
  <2> QED
    BY <1>19, <2>1, Members DEF StopEnter, Lock, Goto, svcVars, ctxVars, queueVars,
       jobVars, implVars, deviceVars, seenVars
<1>20. CASE StopContext("closer")
  <2>1. CloserStep
    BY <1>20 DEF CloserStep
  <2> QED
    BY <1>20, <2>1, Members DEF StopContext, Goto, svcVars, ctxVars, queueVars, jobVars,
       implVars, deviceVars, seenVars
<1>21. CASE StopReturn("closer")
  <2>1. CloserStep
    BY <1>21 DEF CloserStep
  <2> QED
    BY <1>21, <2>1, Members DEF StopReturn, Unlock, Goto, svcVars, ctxVars, queueVars,
       jobVars, implVars, deviceVars, seenVars
<1>22. CASE DiscardPending("closer")
  <2>1. CloserStep
    BY <1>22 DEF CloserStep
  <2> QED
    BY <1>22, <2>1, Members DEF DiscardPending, RequestStop, Goto, svcVars, ctxVars,
       queueVars, jobVars, implVars, deviceVars, seenVars
<1>23. CASE ShutdownReset
  <2>1. CloserStep
    BY <1>23 DEF CloserStep
  <2> QED
    BY <1>23, <2>1, Members DEF ShutdownReset, ResetService, Joined, CallPlayerStop, Goto,
       svcVars, ctxVars, queueVars, jobVars, implVars, deviceVars, seenVars
<1>24. CASE StopFlags("closer")
  <2>1. CloserStep
    BY <1>24 DEF CloserStep, PlayerStop
  <2> QED
    BY <1>24, <2>1, Members DEF StopFlags, Goto, svcVars, ctxVars, queueVars, jobVars,
       implVars, deviceVars, seenVars
<1>25. CASE StopDevice("closer")
  <2>1. CloserStep
    BY <1>25 DEF CloserStep, PlayerStop
  <2> QED
    BY <1>25, <2>1, Members DEF StopDevice, Goto, svcVars, ctxVars, queueVars, jobVars,
       implVars, deviceVars, seenVars
<1>26. CASE DeviceStopped("closer")
  <2>1. CloserStep
    BY <1>26 DEF CloserStep, PlayerStop
  <2> QED
    BY <1>26, <2>1, Members DEF DeviceStopped, Goto, svcVars, ctxVars, queueVars, jobVars,
       implVars, deviceVars, seenVars
<1>27. CASE SetStateEnter
  <2>1. Worker
    BY <1>27 DEF Worker, WorkerAcquire, WorkerStep
  <2> QED
    BY <1>27, <2>1, Members DEF SetStateEnter, Replaced, Leave, LeaveWith, Goto, svcVars,
       ctxVars, queueVars, jobVars, implVars, deviceVars, seenVars
<1>28. CASE SetRow
  <2>1. Worker
    BY <1>28 DEF Worker, WorkerAcquire, WorkerStep
  <2> QED
    BY <1>28, <2>1, Members DEF SetRow, Replaced, Leave, LeaveWith, Goto, svcVars,
       ctxVars, queueVars, jobVars, implVars, deviceVars, seenVars
<1>29. CASE FinishEnter
  <2>1. Worker
    BY <1>29 DEF Worker, WorkerAcquire, WorkerStep
  <2> QED
    BY <1>29, <2>1, Members DEF FinishEnter, Replaced, Goto, svcVars, ctxVars, queueVars,
       jobVars, implVars, deviceVars, seenVars
<1>30. CASE EnsureDevice
  <2>1. Worker
    BY <1>30 DEF Worker, WorkerAcquire, WorkerStep
  <2> QED
    BY <1>30, <2>1, Members DEF EnsureDevice, Leave, LeaveWith, Goto, svcVars, ctxVars,
       queueVars, jobVars, implVars, deviceVars, seenVars
<1>31. CASE StartDevice
  <2>1. Worker
    BY <1>31 DEF Worker, WorkerAcquire, WorkerStep
  <2> QED
    BY <1>31, <2>1, Members DEF StartDevice, Leave, LeaveWith, Goto, svcVars, ctxVars,
       queueVars, jobVars, implVars, deviceVars, seenVars
<1>32. CASE StopDevice("worker")
  <2>1. Worker
    BY <1>32 DEF Worker, WorkerAcquire, WorkerStep, PlayerStop
  <2> QED
    BY <1>32, <2>1, Members DEF StopDevice, Goto, svcVars, ctxVars, queueVars, jobVars,
       implVars, deviceVars, seenVars
<1>33. CASE Take
  <2>1. Worker
    BY <1>33 DEF Worker, WorkerAcquire, WorkerStep
  <2> QED
    BY <1>33, <2>1, Members DEF Take, Goto, svcVars, ctxVars, queueVars, jobVars,
       implVars, deviceVars, seenVars
<1>34. CASE WorkerExit
  <2>1. Worker
    BY <1>34 DEF Worker, WorkerAcquire, WorkerStep
  <2> QED
    BY <1>34, <2>1, Members DEF WorkerExit, Goto, svcVars, ctxVars, queueVars, jobVars,
       implVars, deviceVars, seenVars
<1>35. CASE ReadyForItem
  <2>1. Worker
    BY <1>35 DEF Worker, WorkerAcquire, WorkerStep
  <2> QED
    BY <1>35, <2>1, Members DEF ReadyForItem, Leave, LeaveWith, Goto, svcVars, ctxVars,
       queueVars, jobVars, implVars, deviceVars, seenVars
<1>36. CASE SetStateApply
  <2>1. Worker
    BY <1>36 DEF Worker, WorkerAcquire, WorkerStep
  <2> QED
    BY <1>36, <2>1, Members DEF SetStateApply, Refused, Leave, LeaveWith, CallPlayerStop,
       Unlock, Goto, svcVars, ctxVars, queueVars, jobVars, implVars, deviceVars, seenVars
<1>37. CASE Prepare
  <2>1. Worker
    BY <1>37 DEF Worker, WorkerAcquire, WorkerStep
  <2> QED
    BY <1>37, <2>1, Members DEF Prepare, Leave, LeaveWith, Goto, svcVars, ctxVars,
       queueVars, jobVars, implVars, deviceVars, seenVars
<1>38. CASE ReadyToPlay
  <2>1. Worker
    BY <1>38 DEF Worker, WorkerAcquire, WorkerStep
  <2> QED
    BY <1>38, <2>1, Members DEF ReadyToPlay, Leave, LeaveWith, Goto, svcVars, ctxVars,
       queueVars, jobVars, implVars, deviceVars, seenVars
<1>39. CASE Interval
  <2>1. Worker
    BY <1>39 DEF Worker, WorkerAcquire, WorkerStep
  <2> QED
    BY <1>39, <2>1, Members DEF Interval, Leave, LeaveWith, Goto, svcVars, ctxVars,
       queueVars, jobVars, implVars, deviceVars, seenVars
<1>40. CASE FinishApply
  <2>1. Worker
    BY <1>40 DEF Worker, WorkerAcquire, WorkerStep
  <2> QED
    BY <1>40, <2>1, Members DEF FinishApply, Reportable, Unlock, Goto, svcVars, ctxVars,
       queueVars, jobVars, implVars, deviceVars, seenVars
<1>41. CASE Report
  <2>1. Worker
    BY <1>41 DEF Worker, WorkerAcquire, WorkerStep
  <2> QED
    BY <1>41, <2>1, Members DEF Report, Goto, svcVars, ctxVars, queueVars, jobVars,
       implVars, deviceVars, seenVars
<1>42. CASE RejectAudio
  <2>1. Worker
    BY <1>42 DEF Worker, WorkerAcquire, WorkerStep
  <2> QED
    BY <1>42, <2>1, Members DEF RejectAudio, Leave, LeaveWith, Goto, svcVars, ctxVars,
       queueVars, jobVars, implVars, deviceVars, seenVars
<1>43. CASE StopFlags("worker")
  <2>1. Worker
    BY <1>43 DEF Worker, WorkerAcquire, WorkerStep, PlayerStop
  <2> QED
    BY <1>43, <2>1, Members DEF StopFlags, Goto, svcVars, ctxVars, queueVars, jobVars,
       implVars, deviceVars, seenVars
<1>44. CASE DeviceStopped("worker")
  <2>1. Worker
    BY <1>44 DEF Worker, WorkerAcquire, WorkerStep, PlayerStop
  <2> QED
    BY <1>44, <2>1, Members DEF DeviceStopped, Goto, svcVars, ctxVars, queueVars, jobVars,
       implVars, deviceVars, seenVars
<1>45. CASE Gate
  <2>1. Worker
    BY <1>45 DEF Worker, WorkerAcquire, WorkerStep
  <2> QED
    BY <1>45, <2>1, Members DEF Gate, HoldRequest, Goto, svcVars, ctxVars, queueVars,
       jobVars, implVars, deviceVars, seenVars
<1>46. CASE Install
  <2>1. Worker
    BY <1>46 DEF Worker, WorkerAcquire, WorkerStep
  <2> QED
    BY <1>46, <2>1, Members DEF Install, HandoffPaused, Goto, svcVars, ctxVars, queueVars,
       jobVars, implVars, deviceVars, seenVars
<1>47. CASE Drained
  <2>1. Worker
    BY <1>47 DEF Worker, WorkerAcquire, WorkerStep
  <2> QED
    BY <1>47, <2>1, Members DEF Drained, Goto, svcVars, ctxVars, queueVars, jobVars,
       implVars, deviceVars, seenVars
<1>48. CASE CallbackEnter
  <2>1. DeviceStep
    BY <1>48 DEF DeviceStep
  <2> QED
    BY <1>48, <2>1, Members DEF CallbackEnter, Goto, svcVars, ctxVars, queueVars, jobVars,
       implVars, deviceVars, seenVars
<1>49. CASE CallbackGate
  <2>1. DeviceStep
    BY <1>49 DEF DeviceStep
  <2> QED
    BY <1>49, <2>1, Members DEF CallbackGate, HoldRequest, Goto, svcVars, ctxVars,
       queueVars, jobVars, implVars, deviceVars, seenVars
<1>50. CASE CallbackRender
  <2>1. DeviceStep
    BY <1>50 DEF DeviceStep
  <2> QED
    BY <1>50, <2>1, Members DEF CallbackRender, EndOfSamples, Goto, svcVars, ctxVars,
       queueVars, jobVars, implVars, deviceVars, seenVars
<1>51. CASE UNCHANGED vars
  BY <1>51 DEF vars, svcVars, ctxVars, queueVars, jobVars, implVars, deviceVars, seenVars
<1> QED
  BY <1>1, <1>2, <1>3, <1>4, <1>5, <1>6, <1>7, <1>8, <1>9, <1>10, <1>11, <1>12, <1>13,
     <1>14, <1>15, <1>16, <1>17, <1>18, <1>19, <1>20, <1>21, <1>22, <1>23, <1>24, <1>25,
     <1>26, <1>27, <1>28, <1>29, <1>30, <1>31, <1>32, <1>33, <1>34, <1>35, <1>36, <1>37,
     <1>38, <1>39, <1>40, <1>41, <1>42, <1>43, <1>44, <1>45, <1>46, <1>47, <1>48, <1>49,
     <1>50, <1>51 DEF Next, GuiBegin, GuiContinue, CloserStep, WorkerAcquire, WorkerStep,
     DeviceStep, PlayerStop, Commits

\* mutex_ is taken by one thread and given back by the same.
LEMMA ExclusionKept ==
  ASSUME TypeInv, Exclusion, ControlFlow, [Next]_vars
  PROVE  Exclusion' /\ ControlFlow'
<1> USE DEF TypeInv, TypeOK, ControlTypes, Exclusion, ControlFlow, GuiHolds, CloserHolds,
      WorkerHolds, InPlayerStop, ReturnLabels, Nobody, Goto, svcVars, ctxVars, queueVars,
      jobVars, implVars, deviceVars, seenVars
<1>1. CASE PlayEnter
  BY <1>1, Members DEF PlayEnter, Replaces, CallPlayerStop, Lock
<1>2. CASE PlayCancel
  BY <1>2, Members DEF PlayCancel, CancelActive, CallPlayerStop
<1>3. ASSUME NEW batch \in Batches, PlayCommit(batch)
      PROVE  Exclusion' /\ ControlFlow'
  BY <1>3, Members DEF PlayCommit, Unlock
<1>4. CASE PauseEnter
  BY <1>4, Members DEF PauseEnter, Lock
<1>5. CASE PauseContext
  BY <1>5, Members DEF PauseContext
<1>6. CASE PausePlayer
  BY <1>6, Members DEF PausePlayer, Unlock
<1>7. CASE ResumeEnter
  BY <1>7, Members DEF ResumeEnter, Lock
<1>8. CASE ResumeContext
  BY <1>8, Members DEF ResumeContext
<1>9. CASE ResumePlayer
  BY <1>9, Members DEF ResumePlayer, PlayerResume, Unlock
<1>10. CASE StopEnter("gui")
  BY <1>10, Members DEF StopEnter, Lock
<1>11. CASE StopContext("gui")
  BY <1>11, Members DEF StopContext
<1>12. CASE StopReturn("gui")
  BY <1>12, Members DEF StopReturn, Unlock
<1>13. CASE SetShutdown("gui")
  BY <1>13, Members DEF SetShutdown
<1>14. CASE DiscardPending("gui")
  BY <1>14, Members DEF DiscardPending, RequestStop
<1>15. CASE StopFlags("gui")
  BY <1>15, Members DEF StopFlags
<1>16. CASE StopDevice("gui")
  BY <1>16, Members DEF StopDevice
<1>17. CASE DeviceStopped("gui")
  BY <1>17, Members DEF DeviceStopped
<1>18. CASE SetShutdown("closer")
  BY <1>18, Members DEF SetShutdown
<1>19. CASE StopEnter("closer")
  BY <1>19, Members DEF StopEnter, Lock
<1>20. CASE StopContext("closer")
  BY <1>20, Members DEF StopContext
<1>21. CASE StopReturn("closer")
  BY <1>21, Members DEF StopReturn, Unlock
<1>22. CASE DiscardPending("closer")
  BY <1>22, Members DEF DiscardPending, RequestStop
<1>23. CASE ShutdownReset
  BY <1>23, Members DEF ShutdownReset, ResetService, Joined, CallPlayerStop
<1>24. CASE StopFlags("closer")
  BY <1>24, Members DEF StopFlags
<1>25. CASE StopDevice("closer")
  BY <1>25, Members DEF StopDevice
<1>26. CASE DeviceStopped("closer")
  BY <1>26, Members DEF DeviceStopped
<1>27. CASE SetStateEnter
  BY <1>27, Members DEF SetStateEnter, Replaced, Leave, LeaveWith
<1>28. CASE SetRow
  BY <1>28, Members DEF SetRow, Replaced, Leave, LeaveWith
<1>29. CASE FinishEnter
  BY <1>29, Members DEF FinishEnter, Replaced
<1>30. CASE EnsureDevice
  BY <1>30, Members DEF EnsureDevice, Leave, LeaveWith
<1>31. CASE StartDevice
  BY <1>31, Members DEF StartDevice, Leave, LeaveWith
<1>32. CASE StopDevice("worker")
  BY <1>32, Members DEF StopDevice
<1>33. CASE Take
  BY <1>33, Members DEF Take
<1>34. CASE WorkerExit
  BY <1>34, Members DEF WorkerExit
<1>35. CASE ReadyForItem
  BY <1>35, Members DEF ReadyForItem, Leave, LeaveWith
<1>36. CASE SetStateApply
  BY <1>36, Members DEF SetStateApply, Refused, Leave, LeaveWith, CallPlayerStop, Unlock
<1>37. CASE Prepare
  BY <1>37, Members DEF Prepare, Leave, LeaveWith
<1>38. CASE ReadyToPlay
  BY <1>38, Members DEF ReadyToPlay, Leave, LeaveWith
<1>39. CASE Interval
  BY <1>39, Members DEF Interval, Leave, LeaveWith
<1>40. CASE FinishApply
  BY <1>40, Members DEF FinishApply, Reportable, Unlock
<1>41. CASE Report
  BY <1>41, Members DEF Report
<1>42. CASE RejectAudio
  BY <1>42, Members DEF RejectAudio, Leave, LeaveWith
<1>43. CASE StopFlags("worker")
  BY <1>43, Members DEF StopFlags
<1>44. CASE DeviceStopped("worker")
  BY <1>44, Members DEF DeviceStopped
<1>45. CASE Gate
  BY <1>45, Members DEF Gate, HoldRequest
<1>46. CASE Install
  BY <1>46, Members DEF Install, HandoffPaused
<1>47. CASE Drained
  BY <1>47, Members DEF Drained
<1>48. CASE CallbackEnter
  BY <1>48, Members DEF CallbackEnter
<1>49. CASE CallbackGate
  BY <1>49, Members DEF CallbackGate, HoldRequest
<1>50. CASE CallbackRender
  BY <1>50, Members DEF CallbackRender, EndOfSamples
<1>51. CASE UNCHANGED vars
  BY <1>51 DEF vars, svcVars, ctxVars, queueVars, jobVars, implVars, deviceVars, seenVars
<1> QED
  BY <1>1, <1>2, <1>3, <1>4, <1>5, <1>6, <1>7, <1>8, <1>9, <1>10, <1>11, <1>12, <1>13,
     <1>14, <1>15, <1>16, <1>17, <1>18, <1>19, <1>20, <1>21, <1>22, <1>23, <1>24, <1>25,
     <1>26, <1>27, <1>28, <1>29, <1>30, <1>31, <1>32, <1>33, <1>34, <1>35, <1>36, <1>37,
     <1>38, <1>39, <1>40, <1>41, <1>42, <1>43, <1>44, <1>45, <1>46, <1>47, <1>48, <1>49,
     <1>50, <1>51 DEF Next, Commits, Gui, GuiBegin, GuiContinue, CloserStep, Worker,
     WorkerAcquire, WorkerStep, DeviceStep, PlayerStop

\* The player's own Stop ends the callbacks of one item before the next is
\* installed.
LEMMA DeviceServesJobKept ==
  ASSUME TypeInv, ControlFlow, DeviceServesJob, [Next]_vars
  PROVE  DeviceServesJob'
<1> USE DEF TypeInv, TypeOK, ControlTypes, ControlFlow, DeviceServesJob, Sounding,
      InPlayerStop, Goto, svcVars, ctxVars, queueVars, jobVars, implVars, deviceVars,
      seenVars
<1>1. CASE SetStateEnter
  BY <1>1, Members DEF SetStateEnter, Replaced, Leave, LeaveWith
<1>2. CASE SetRow
  BY <1>2, Members DEF SetRow, Replaced, Leave, LeaveWith
<1>3. CASE FinishEnter
  BY <1>3, Members DEF FinishEnter, Replaced
<1>4. CASE EnsureDevice
  BY <1>4, Members DEF EnsureDevice, Leave, LeaveWith
<1>5. CASE StartDevice
  BY <1>5, Members DEF StartDevice, Leave, LeaveWith
<1>6. CASE StopDevice("worker")
  BY <1>6, Members DEF StopDevice
<1>7. CASE Take
  BY <1>7, Members DEF Take
<1>8. CASE WorkerExit
  BY <1>8, Members DEF WorkerExit
<1>9. CASE ReadyForItem
  BY <1>9, Members DEF ReadyForItem, Leave, LeaveWith
<1>10. CASE SetStateApply
  BY <1>10, Members DEF SetStateApply, Refused, Leave, LeaveWith, CallPlayerStop, Unlock
<1>11. CASE Prepare
  BY <1>11, Members DEF Prepare, Leave, LeaveWith
<1>12. CASE ReadyToPlay
  BY <1>12, Members DEF ReadyToPlay, Leave, LeaveWith
<1>13. CASE Interval
  BY <1>13, Members DEF Interval, Leave, LeaveWith
<1>14. CASE FinishApply
  BY <1>14, Members DEF FinishApply, Reportable, Unlock
<1>15. CASE Report
  BY <1>15, Members DEF Report
<1>16. CASE RejectAudio
  BY <1>16, Members DEF RejectAudio, Leave, LeaveWith
<1>17. CASE StopFlags("worker")
  BY <1>17, Members DEF StopFlags
<1>18. CASE DeviceStopped("worker")
  BY <1>18, Members DEF DeviceStopped
<1>19. CASE Gate
  BY <1>19, Members DEF Gate, HoldRequest
<1>20. CASE Install
  BY <1>20, Members DEF Install, HandoffPaused
<1>21. CASE Drained
  BY <1>21, Members DEF Drained
<1>22. CASE CallbackEnter
  BY <1>22, Members DEF CallbackEnter
<1>23. CASE CallbackGate
  BY <1>23, Members DEF CallbackGate, HoldRequest
<1>24. CASE CallbackRender
  BY <1>24, Members DEF CallbackRender, EndOfSamples
<1>25. CASE UNCHANGED <<pc["worker"], ret["worker"], pc["device"], cbContext, context,
            job>> /\ (running' => running)
  BY <1>25
<1> QED
  BY Writers, <1>1, <1>2, <1>3, <1>4, <1>5, <1>6, <1>7, <1>8, <1>9, <1>10, <1>11, <1>12,
     <1>13, <1>14, <1>15, <1>16, <1>17, <1>18, <1>19, <1>20, <1>21, <1>22, <1>23, <1>24,
     <1>25 DEF Worker, WorkerAcquire, WorkerStep, DeviceStep, PlayerStop

\* Whoever would cancel or pause the request waits for the callback.
LEMMA RenderIsGuardedKept ==
  ASSUME TypeInv, DeviceServesJob, RenderIsGuarded, [Next]_vars
  PROVE  RenderIsGuarded'
<1> USE DEF TypeInv, TypeOK, ControlTypes, ContextTypes, DeviceServesJob, Sounding,
      RenderIsGuarded, JobIsRequest, Nobody, Goto, svcVars, ctxVars, queueVars, jobVars,
      implVars, deviceVars, seenVars
<1>1. CASE PlayCancel
  BY <1>1, Members DEF PlayCancel, CancelActive, CallPlayerStop
<1>2. CASE PauseContext
  BY <1>2, Members DEF PauseContext
<1>3. CASE ResumeContext
  BY <1>3, Members DEF ResumeContext
<1>4. CASE StopContext("gui")
  BY <1>4, Members DEF StopContext
<1>5. CASE StopContext("closer")
  BY <1>5, Members DEF StopContext
<1>6. CASE Gate
  BY <1>6, Members DEF Gate, HoldRequest
<1>7. CASE Install
  BY <1>7, Members DEF Install, HandoffPaused
<1>8. CASE CallbackEnter
  BY <1>8, Members DEF CallbackEnter
<1>9. CASE CallbackGate
  BY <1>9, Members DEF CallbackGate, HoldRequest
<1>10. CASE CallbackRender
  BY <1>10, Members DEF CallbackRender, EndOfSamples
<1>11. CASE UNCHANGED <<pc["device"], reqLock, cbContext, canceled, paused>>
  BY <1>11
<1> QED
  BY Writers, <1>1, <1>2, <1>3, <1>4, <1>5, <1>6, <1>7, <1>8, <1>9, <1>10, <1>11 DEF
     DeviceStep

\* Play numbers requests upwards and the queue is first in, first out.
LEMMA RequestsInOrderKept ==
  ASSUME TypeInv, DeviceServesJob, RequestsInOrder, ControlsHaveRequest, [Next]_vars
  PROVE  RequestsInOrder'
<1> USE PlaybackAssumption DEF TypeInv, TypeOK, ControlTypes, ServiceTypes, ContextTypes,
      QueueTypes, JobTypes, PlayerTypes, SeenTypes, DeviceServesJob, Sounding,
      RequestsInOrder, ControlsHaveRequest, JobIsRequest, None, Requests, PlayHasRoom,
      InPlay, PlaybackAssumption, Goto, svcVars, ctxVars, queueVars, jobVars, implVars,
      deviceVars, seenVars
<1>1. ASSUME NEW batch \in Batches, PlayCommit(batch)
      PROVE  RequestsInOrder'
  <2>1. /\ generation' = generation + 1 /\ active' = generation + 1
        /\ tasks' = Append(tasks, generation + 1)
        /\ UNCHANGED <<job, context, heard, canceled, paused>>
    BY <1>1 DEF PlayCommit
  <2>2. tasks \in Seq(Nat) /\ job \in Nat /\ generation \in Nat /\ context \in Nat
    BY RequestsAreNumbers
  <2>3. Ordered(tasks', job', generation')
    BY <2>1, <2>2, OrderedAppend
  <2> QED
    BY <2>1, <2>2, <2>3
<1>2. CASE FinishApply
  BY <1>2, Members DEF FinishApply, Reportable, Unlock
<1>3. CASE ShutdownReset
  BY <1>3, Members DEF ShutdownReset, ResetService, Joined, CallPlayerStop
<1>4. CASE Take
  <2>1. /\ tasks # <<>> /\ job' = Head(tasks) /\ tasks' = Tail(tasks)
        /\ UNCHANGED <<active, generation, context, heard, canceled, paused>>
    BY <1>4 DEF Take
  <2>2. tasks \in Seq(Nat) /\ job \in Nat /\ generation \in Nat /\ heard[1] \in Nat
    BY RequestsAreNumbers
  <2>3. /\ job < job' /\ job' <= generation /\ job' \in Nat
        /\ Ordered(tasks', job', generation)
    BY <2>1, <2>2, OrderedTail, HeadTailProperties
  <2> QED
    BY <2>1, <2>2, <2>3
<1>5. CASE Install
  BY <1>5, Members DEF Install, HandoffPaused
<1>6. CASE DiscardPending("gui")
  BY <1>6, Members DEF DiscardPending, RequestStop, Ordered
<1>7. CASE DiscardPending("closer")
  BY <1>7, Members DEF DiscardPending, RequestStop, Ordered
<1>8. CASE PlayCancel
  BY <1>8, Members DEF PlayCancel, CancelActive, CallPlayerStop
<1>9. CASE PauseContext
  BY <1>9, Members DEF PauseContext
<1>10. CASE ResumeContext
  BY <1>10, Members DEF ResumeContext
<1>11. CASE StopContext("gui")
  BY <1>11, Members DEF StopContext
<1>12. CASE StopContext("closer")
  BY <1>12, Members DEF StopContext
<1>13. CASE CallbackEnter
  BY <1>13, Members DEF CallbackEnter
<1>14. CASE CallbackGate
  BY <1>14, Members DEF CallbackGate, HoldRequest
<1>15. CASE CallbackRender
  BY <1>15, Members DEF CallbackRender, EndOfSamples
<1>16. CASE UNCHANGED <<active, generation, job, context, heard, tasks, canceled, paused>>
  BY <1>16
<1> QED
  BY Writers, <1>1, <1>2, <1>3, <1>4, <1>5, <1>6, <1>7, <1>8, <1>9, <1>10, <1>11, <1>12,
     <1>13, <1>14, <1>15, <1>16 DEF Commits, DeviceStep

\* A request leaves active_request_ only canceled or finished.
LEMMA UncanceledIsActiveKept ==
  ASSUME TypeInv, ControlFlow, Exclusion, RequestsInOrder, UncanceledIsActive, StateInv,
           ShutdownInv, [Next]_vars
  PROVE  UncanceledIsActive'
<1> USE DEF TypeInv, TypeOK, ControlTypes, Ordered, ControlFlow, ServiceTypes,
      ContextTypes, QueueTypes, JobTypes, Exclusion, GuiHolds, WorkerHolds,
      RequestsInOrder, UncanceledIsActive, Working, StateInv, Replacing, ShutdownInv,
      JobIsRequest, None, Requests, PlayHasRoom, InPlay, InPlayerStop, Goto, svcVars,
      ctxVars, queueVars, jobVars, implVars, deviceVars, seenVars
<1>1. CASE SetStateEnter
  BY <1>1, Members DEF SetStateEnter, Replaced, Leave, LeaveWith
<1>2. CASE SetRow
  BY <1>2, Members DEF SetRow, Replaced, Leave, LeaveWith
<1>3. CASE FinishEnter
  BY <1>3, Members DEF FinishEnter, Replaced
<1>4. CASE EnsureDevice
  BY <1>4, Members DEF EnsureDevice, Leave, LeaveWith
<1>5. CASE StartDevice
  BY <1>5, Members DEF StartDevice, Leave, LeaveWith
<1>6. CASE StopDevice("worker")
  BY <1>6, Members DEF StopDevice
<1>7. CASE Take
  <2>1. /\ tasks # <<>> /\ job' = Head(tasks) /\ tasks' = Tail(tasks)
        /\ pc'["worker"] = "ready" /\ UNCHANGED <<active, canceled>>
    BY <1>7, Members DEF Take
  <2>2. \A k \in 1..Len(tasks') : ~canceled[tasks'[k]] => active = tasks'[k]
    BY <2>1, TailElements
  <2>3. ~canceled[job'] => active = job'
    BY <2>1, TailElements
  <2> QED
    BY <2>1, <2>2, <2>3
<1>8. CASE WorkerExit
  BY <1>8, Members DEF WorkerExit
<1>9. CASE ReadyForItem
  BY <1>9, Members DEF ReadyForItem, Leave, LeaveWith
<1>10. CASE SetStateApply
  BY <1>10, Members DEF SetStateApply, Refused, Leave, LeaveWith, CallPlayerStop, Unlock
<1>11. CASE Prepare
  BY <1>11, Members DEF Prepare, Leave, LeaveWith
<1>12. CASE ReadyToPlay
  BY <1>12, Members DEF ReadyToPlay, Leave, LeaveWith
<1>13. CASE Interval
  BY <1>13, Members DEF Interval, Leave, LeaveWith
<1>14. CASE FinishApply
  BY <1>14, Members DEF FinishApply, Reportable, Unlock
<1>15. CASE Report
  BY <1>15, Members DEF Report
<1>16. CASE RejectAudio
  BY <1>16, Members DEF RejectAudio, Leave, LeaveWith
<1>17. CASE StopFlags("worker")
  BY <1>17, Members DEF StopFlags
<1>18. CASE DeviceStopped("worker")
  BY <1>18, Members DEF DeviceStopped
<1>19. CASE Gate
  BY <1>19, Members DEF Gate, HoldRequest
<1>20. CASE Install
  BY <1>20, Members DEF Install, HandoffPaused
<1>21. CASE Drained
  BY <1>21, Members DEF Drained
<1>22. ASSUME NEW batch \in Batches, PlayCommit(batch)
      PROVE  UncanceledIsActive'
  BY <1>22, Members DEF PlayCommit, Unlock
<1>23. CASE PlayCancel
  BY <1>23, Members DEF PlayCancel, CancelActive, CallPlayerStop
<1>24. CASE StopContext("gui")
  BY <1>24, Members DEF StopContext
<1>25. CASE StopContext("closer")
  BY <1>25, Members DEF StopContext
<1>26. CASE ShutdownReset
  BY <1>26, Members DEF ShutdownReset, ResetService, Joined, CallPlayerStop
<1>27. CASE DiscardPending("gui")
  BY <1>27, Members DEF DiscardPending, RequestStop
<1>28. CASE DiscardPending("closer")
  BY <1>28, Members DEF DiscardPending, RequestStop
<1>29. CASE UNCHANGED <<pc["worker"], job, canceled, active, tasks>>
  BY <1>29
<1> QED
  BY Writers, <1>1, <1>2, <1>3, <1>4, <1>5, <1>6, <1>7, <1>8, <1>9, <1>10, <1>11, <1>12,
     <1>13, <1>14, <1>15, <1>16, <1>17, <1>18, <1>19, <1>20, <1>21, <1>22, <1>23, <1>24,
     <1>25, <1>26, <1>27, <1>28, <1>29 DEF Commits, Worker, WorkerAcquire, WorkerStep,
     PlayerStop

\* The worker's item moves forward within its request.
LEMMA ItemInRangeKept ==
  ASSUME TypeInv, RequestsInOrder, ItemInRange, [Next]_vars
  PROVE  ItemInRange'
<1> USE DEF TypeInv, TypeOK, ControlTypes, ServiceTypes, ContextTypes, QueueTypes,
      JobTypes, SeenTypes, RequestsInOrder, ItemInRange, AtItem, Working, InPlayerStop,
      JobIsRequest, None, Requests, PlayHasRoom, InPlay, Goto, svcVars, ctxVars,
      queueVars, jobVars, implVars, deviceVars, seenVars
<1>1. CASE SetStateEnter
  BY <1>1, Members DEF SetStateEnter, Replaced, Leave, LeaveWith
<1>2. CASE SetRow
  BY <1>2, Members DEF SetRow, Replaced, Leave, LeaveWith
<1>3. CASE FinishEnter
  BY <1>3, Members DEF FinishEnter, Replaced
<1>4. CASE EnsureDevice
  BY <1>4, Members DEF EnsureDevice, Leave, LeaveWith
<1>5. CASE StartDevice
  BY <1>5, Members DEF StartDevice, Leave, LeaveWith
<1>6. CASE StopDevice("worker")
  BY <1>6, Members DEF StopDevice
<1>7. CASE Take
  <2>1. /\ tasks # <<>> /\ job' = Head(tasks) /\ item' = 1
        /\ pc'["worker"] = "ready" /\ UNCHANGED heard
    BY <1>7, Members DEF Take
  <2>2. tasks \in Seq(Nat) /\ job \in Nat /\ generation \in Nat /\ heard[1] \in Nat
    BY RequestsAreNumbers
  <2>3. heard[1] < job'
    BY <2>1, <2>2, OrderedTail, HeadTailProperties
  <2> QED
    BY <2>1, <2>2, <2>3
<1>8. CASE WorkerExit
  BY <1>8, Members DEF WorkerExit
<1>9. CASE ReadyForItem
  BY <1>9, Members DEF ReadyForItem, Leave, LeaveWith
<1>10. CASE SetStateApply
  BY <1>10, Members DEF SetStateApply, Refused, Leave, LeaveWith, CallPlayerStop, Unlock
<1>11. CASE Prepare
  BY <1>11, Members DEF Prepare, Leave, LeaveWith
<1>12. CASE ReadyToPlay
  BY <1>12, Members DEF ReadyToPlay, Leave, LeaveWith
<1>13. CASE Interval
  BY <1>13, Members DEF Interval, Leave, LeaveWith
<1>14. CASE FinishApply
  BY <1>14, Members DEF FinishApply, Reportable, Unlock
<1>15. CASE Report
  BY <1>15, Members DEF Report
<1>16. CASE RejectAudio
  BY <1>16, Members DEF RejectAudio, Leave, LeaveWith
<1>17. CASE StopFlags("worker")
  BY <1>17, Members DEF StopFlags
<1>18. CASE DeviceStopped("worker")
  BY <1>18, Members DEF DeviceStopped
<1>19. CASE Gate
  BY <1>19, Members DEF Gate, HoldRequest
<1>20. CASE Install
  BY <1>20, Members DEF Install, HandoffPaused
<1>21. CASE Drained
  BY <1>21, Members DEF Drained
<1>22. ASSUME NEW batch \in Batches, PlayCommit(batch)
      PROVE  ItemInRange'
  BY <1>22, Members DEF PlayCommit, Unlock
<1>23. CASE CallbackEnter
  BY <1>23, Members DEF CallbackEnter
<1>24. CASE CallbackGate
  BY <1>24, Members DEF CallbackGate, HoldRequest
<1>25. CASE CallbackRender
  BY <1>25, Members DEF CallbackRender, EndOfSamples
<1>26. CASE UNCHANGED <<pc["worker"], item, items, job, heard>>
  BY <1>26
<1> QED
  BY Writers, <1>1, <1>2, <1>3, <1>4, <1>5, <1>6, <1>7, <1>8, <1>9, <1>10, <1>11, <1>12,
     <1>13, <1>14, <1>15, <1>16, <1>17, <1>18, <1>19, <1>20, <1>21, <1>22, <1>23, <1>24,
     <1>25, <1>26 DEF Commits, Worker, WorkerAcquire, WorkerStep, DeviceStep, PlayerStop

\* Every writer of state_ holds mutex_ and writes what the request is.
LEMMA StateInvKept ==
  ASSUME TypeInv, Exclusion, ControlFlow, RequestsInOrder, UncanceledIsActive, StateInv,
           ControlsHaveRequest, [Next]_vars
  PROVE  StateInv'
<1> USE PlaybackAssumption DEF TypeInv, TypeOK, ControlTypes, ServiceTypes, ContextTypes,
      JobTypes, Exclusion, GuiHolds, CloserHolds, WorkerHolds, ControlFlow,
      RequestsInOrder, UncanceledIsActive, StateInv, Replacing, ControlsHaveRequest,
      InPlayerStop, JobIsRequest, None, Requests, Nobody, PlayHasRoom, InPlay,
      PlaybackAssumption, Goto, svcVars, ctxVars, queueVars, jobVars, implVars,
      deviceVars, seenVars
<1>1. CASE PlayEnter
  BY <1>1, Members DEF PlayEnter, Replaces, CallPlayerStop, Lock
<1>2. CASE PlayCancel
  BY <1>2, Members DEF PlayCancel, CancelActive, CallPlayerStop
<1>3. ASSUME NEW batch \in Batches, PlayCommit(batch)
      PROVE  StateInv'
  BY <1>3, Members DEF PlayCommit, Unlock
<1>4. CASE PauseEnter
  BY <1>4, Members DEF PauseEnter, Lock
<1>5. CASE PauseContext
  BY <1>5, Members DEF PauseContext
<1>6. CASE PausePlayer
  BY <1>6, Members DEF PausePlayer, Unlock
<1>7. CASE ResumeEnter
  BY <1>7, Members DEF ResumeEnter, Lock
<1>8. CASE ResumeContext
  BY <1>8, Members DEF ResumeContext
<1>9. CASE ResumePlayer
  BY <1>9, Members DEF ResumePlayer, PlayerResume, Unlock
<1>10. CASE StopEnter("gui")
  BY <1>10, Members DEF StopEnter, Lock
<1>11. CASE StopContext("gui")
  BY <1>11, Members DEF StopContext
<1>12. CASE StopReturn("gui")
  BY <1>12, Members DEF StopReturn, Unlock
<1>13. CASE SetShutdown("gui")
  BY <1>13, Members DEF SetShutdown
<1>14. CASE DiscardPending("gui")
  BY <1>14, Members DEF DiscardPending, RequestStop
<1>15. CASE StopFlags("gui")
  BY <1>15, Members DEF StopFlags
<1>16. CASE StopDevice("gui")
  BY <1>16, Members DEF StopDevice
<1>17. CASE DeviceStopped("gui")
  BY <1>17, Members DEF DeviceStopped
<1>18. CASE StopEnter("closer")
  BY <1>18, Members DEF StopEnter, Lock
<1>19. CASE StopContext("closer")
  BY <1>19, Members DEF StopContext
<1>20. CASE ShutdownReset
  BY <1>20, Members DEF ShutdownReset, ResetService, Joined, CallPlayerStop
<1>21. CASE SetStateApply
  BY <1>21, Members DEF SetStateApply, Refused, Leave, LeaveWith, CallPlayerStop, Unlock
<1>22. CASE FinishApply
  BY <1>22, Members DEF FinishApply, Reportable, Unlock
<1>23. CASE UNCHANGED <<pc["gui"], ret["gui"], active, canceled, paused, state,
            pausedFrom>>
  BY <1>23
<1> QED
  BY Writers, <1>1, <1>2, <1>3, <1>4, <1>5, <1>6, <1>7, <1>8, <1>9, <1>10, <1>11, <1>12,
     <1>13, <1>14, <1>15, <1>16, <1>17, <1>18, <1>19, <1>20, <1>21, <1>22, <1>23 DEF
     Commits, Gui, GuiBegin, GuiContinue, PlayerStop

\* mutex_ keeps the request and the state a control has looked at.
LEMMA ControlsHaveRequestKept ==
  ASSUME TypeInv, ControlFlow, Exclusion, StateInv, ControlsHaveRequest, [Next]_vars
  PROVE  ControlsHaveRequest'
<1> USE DEF TypeInv, TypeOK, ControlTypes, ControlFlow, ServiceTypes, Exclusion, GuiHolds,
      CloserHolds, WorkerHolds, StateInv, Replacing, ControlsHaveRequest, InPlayerStop,
      None, Nobody, Goto, svcVars, ctxVars, queueVars, jobVars, implVars, deviceVars,
      seenVars
<1>1. CASE PlayEnter
  BY <1>1, Members DEF PlayEnter, Replaces, CallPlayerStop, Lock
<1>2. CASE PlayCancel
  BY <1>2, Members DEF PlayCancel, CancelActive, CallPlayerStop
<1>3. ASSUME NEW batch \in Batches, PlayCommit(batch)
      PROVE  ControlsHaveRequest'
  BY <1>3, Members DEF PlayCommit, Unlock
<1>4. CASE PauseEnter
  BY <1>4, Members DEF PauseEnter, Lock
<1>5. CASE PauseContext
  BY <1>5, Members DEF PauseContext
<1>6. CASE PausePlayer
  BY <1>6, Members DEF PausePlayer, Unlock
<1>7. CASE ResumeEnter
  BY <1>7, Members DEF ResumeEnter, Lock
<1>8. CASE ResumeContext
  BY <1>8, Members DEF ResumeContext
<1>9. CASE ResumePlayer
  BY <1>9, Members DEF ResumePlayer, PlayerResume, Unlock
<1>10. CASE StopEnter("gui")
  BY <1>10, Members DEF StopEnter, Lock
<1>11. CASE StopContext("gui")
  BY <1>11, Members DEF StopContext
<1>12. CASE StopReturn("gui")
  BY <1>12, Members DEF StopReturn, Unlock
<1>13. CASE SetShutdown("gui")
  BY <1>13, Members DEF SetShutdown
<1>14. CASE DiscardPending("gui")
  BY <1>14, Members DEF DiscardPending, RequestStop
<1>15. CASE StopFlags("gui")
  BY <1>15, Members DEF StopFlags
<1>16. CASE StopDevice("gui")
  BY <1>16, Members DEF StopDevice
<1>17. CASE DeviceStopped("gui")
  BY <1>17, Members DEF DeviceStopped
<1>18. CASE SetShutdown("closer")
  BY <1>18, Members DEF SetShutdown
<1>19. CASE StopEnter("closer")
  BY <1>19, Members DEF StopEnter, Lock
<1>20. CASE StopContext("closer")
  BY <1>20, Members DEF StopContext
<1>21. CASE StopReturn("closer")
  BY <1>21, Members DEF StopReturn, Unlock
<1>22. CASE DiscardPending("closer")
  BY <1>22, Members DEF DiscardPending, RequestStop
<1>23. CASE ShutdownReset
  BY <1>23, Members DEF ShutdownReset, ResetService, Joined, CallPlayerStop
<1>24. CASE StopFlags("closer")
  BY <1>24, Members DEF StopFlags
<1>25. CASE StopDevice("closer")
  BY <1>25, Members DEF StopDevice
<1>26. CASE DeviceStopped("closer")
  BY <1>26, Members DEF DeviceStopped
<1>27. CASE SetStateApply
  BY <1>27, Members DEF SetStateApply, Refused, Leave, LeaveWith, CallPlayerStop, Unlock
<1>28. CASE FinishApply
  BY <1>28, Members DEF FinishApply, Reportable, Unlock
<1>29. CASE UNCHANGED <<pc["gui"], pc["closer"], active, state>>
  BY <1>29
<1> QED
  BY Writers, <1>1, <1>2, <1>3, <1>4, <1>5, <1>6, <1>7, <1>8, <1>9, <1>10, <1>11, <1>12,
     <1>13, <1>14, <1>15, <1>16, <1>17, <1>18, <1>19, <1>20, <1>21, <1>22, <1>23, <1>24,
     <1>25, <1>26, <1>27, <1>28, <1>29 DEF Commits, Gui, GuiBegin, GuiContinue,
     CloserStep, PlayerStop

\* The handoff copies the request's flag, and a control that changes it
\* tells the player before it returns.
LEMMA PauseInvKept ==
  ASSUME TypeInv, RequestsInOrder, StateInv, ControlsHaveRequest, PauseInv, [Next]_vars
  PROVE  PauseInv'
<1> USE DEF TypeInv, TypeOK, ControlTypes, ServiceTypes, ContextTypes, JobTypes,
      PlayerTypes, RequestsInOrder, StateInv, Replacing, ControlsHaveRequest, PauseInv,
      Live, JobIsRequest, InPlayerStop, None, Requests, Goto, svcVars, ctxVars, queueVars,
      jobVars, implVars, deviceVars, seenVars
<1>1. CASE PlayEnter
  BY <1>1, Members DEF PlayEnter, Replaces, CallPlayerStop, Lock
<1>2. CASE PlayCancel
  BY <1>2, Members DEF PlayCancel, CancelActive, CallPlayerStop
<1>3. ASSUME NEW batch \in Batches, PlayCommit(batch)
      PROVE  PauseInv'
  BY <1>3, Members DEF PlayCommit, Unlock
<1>4. CASE PauseEnter
  BY <1>4, Members DEF PauseEnter, Lock
<1>5. CASE PauseContext
  BY <1>5, Members DEF PauseContext
<1>6. CASE PausePlayer
  BY <1>6, Members DEF PausePlayer, Unlock
<1>7. CASE ResumeEnter
  BY <1>7, Members DEF ResumeEnter, Lock
<1>8. CASE ResumeContext
  BY <1>8, Members DEF ResumeContext
<1>9. CASE ResumePlayer
  BY <1>9, Members DEF ResumePlayer, PlayerResume, Unlock
<1>10. CASE StopEnter("gui")
  BY <1>10, Members DEF StopEnter, Lock
<1>11. CASE StopContext("gui")
  BY <1>11, Members DEF StopContext
<1>12. CASE StopReturn("gui")
  BY <1>12, Members DEF StopReturn, Unlock
<1>13. CASE SetShutdown("gui")
  BY <1>13, Members DEF SetShutdown
<1>14. CASE DiscardPending("gui")
  BY <1>14, Members DEF DiscardPending, RequestStop
<1>15. CASE StopFlags("gui")
  BY <1>15, Members DEF StopFlags
<1>16. CASE StopDevice("gui")
  BY <1>16, Members DEF StopDevice
<1>17. CASE DeviceStopped("gui")
  BY <1>17, Members DEF DeviceStopped
<1>18. CASE StopContext("closer")
  BY <1>18, Members DEF StopContext
<1>19. CASE ShutdownReset
  BY <1>19, Members DEF ShutdownReset, ResetService, Joined, CallPlayerStop
<1>20. CASE FinishApply
  BY <1>20, Members DEF FinishApply, Reportable, Unlock
<1>21. CASE Install
  BY <1>21, Members DEF Install, HandoffPaused
<1>22. CASE UNCHANGED <<pc["gui"], context, active, canceled, paused>> /\ (playing' =>
            playing) /\ (~playing' \/ UNCHANGED implPaused)
  BY <1>22
<1> QED
  BY Writers, <1>1, <1>2, <1>3, <1>4, <1>5, <1>6, <1>7, <1>8, <1>9, <1>10, <1>11, <1>12,
     <1>13, <1>14, <1>15, <1>16, <1>17, <1>18, <1>19, <1>20, <1>21, <1>22 DEF Commits,
     Gui, GuiBegin, GuiContinue, PlayerStop

\* Finish writes the error of the active request, which then is active no
\* more.
LEMMA ErrorInvKept ==
  ASSUME TypeInv, ControlFlow, Exclusion, RequestsInOrder, UncanceledIsActive, StateInv,
           ControlsHaveRequest, ErrorInv, [Next]_vars
  PROVE  ErrorInv'
<1> USE DEF TypeInv, TypeOK, ControlTypes, ControlFlow, ServiceTypes, ContextTypes,
      JobTypes, SeenTypes, RequestsInOrder, UncanceledIsActive, WorkerHolds, StateInv,
      Replacing, InPlayerStop, ControlsHaveRequest, ErrorInv, JobIsRequest, None,
      Requests, PlayHasRoom, InPlay, Goto, svcVars, ctxVars, queueVars, jobVars, implVars,
      deviceVars, seenVars
<1>1. ASSUME NEW batch \in Batches, PlayCommit(batch)
      PROVE  ErrorInv'
  BY <1>1, Members DEF PlayCommit, Unlock
<1>2. CASE PlayCancel
  BY <1>2, Members DEF PlayCancel, CancelActive, CallPlayerStop
<1>3. CASE PauseContext
  BY <1>3, Members DEF PauseContext
<1>4. CASE ResumeContext
  BY <1>4, Members DEF ResumeContext
<1>5. CASE StopEnter("gui")
  BY <1>5, Members DEF StopEnter, Lock
<1>6. CASE StopEnter("closer")
  BY <1>6, Members DEF StopEnter, Lock
<1>7. CASE StopContext("gui")
  BY <1>7, Members DEF StopContext
<1>8. CASE StopContext("closer")
  BY <1>8, Members DEF StopContext
<1>9. CASE ShutdownReset
  BY <1>9, Members DEF ShutdownReset, ResetService, Joined, CallPlayerStop
<1>10. CASE SetStateEnter
  BY <1>10, Members DEF SetStateEnter, Replaced, Leave, LeaveWith
<1>11. CASE SetRow
  BY <1>11, Members DEF SetRow, Replaced, Leave, LeaveWith
<1>12. CASE FinishEnter
  BY <1>12, Members DEF FinishEnter, Replaced
<1>13. CASE EnsureDevice
  BY <1>13, Members DEF EnsureDevice, Leave, LeaveWith
<1>14. CASE StartDevice
  BY <1>14, Members DEF StartDevice, Leave, LeaveWith
<1>15. CASE StopDevice("worker")
  BY <1>15, Members DEF StopDevice
<1>16. CASE Take
  BY <1>16, Members DEF Take
<1>17. CASE WorkerExit
  BY <1>17, Members DEF WorkerExit
<1>18. CASE ReadyForItem
  BY <1>18, Members DEF ReadyForItem, Leave, LeaveWith
<1>19. CASE SetStateApply
  BY <1>19, Members DEF SetStateApply, Refused, Leave, LeaveWith, CallPlayerStop, Unlock
<1>20. CASE Prepare
  BY <1>20, Members DEF Prepare, Leave, LeaveWith
<1>21. CASE ReadyToPlay
  BY <1>21, Members DEF ReadyToPlay, Leave, LeaveWith
<1>22. CASE Interval
  BY <1>22, Members DEF Interval, Leave, LeaveWith
<1>23. CASE FinishApply
  BY <1>23, Members DEF FinishApply, Reportable, Unlock
<1>24. CASE Report
  BY <1>24, Members DEF Report
<1>25. CASE RejectAudio
  BY <1>25, Members DEF RejectAudio, Leave, LeaveWith
<1>26. CASE StopFlags("worker")
  BY <1>26, Members DEF StopFlags
<1>27. CASE DeviceStopped("worker")
  BY <1>27, Members DEF DeviceStopped
<1>28. CASE Gate
  BY <1>28, Members DEF Gate, HoldRequest
<1>29. CASE Install
  BY <1>29, Members DEF Install, HandoffPaused
<1>30. CASE Drained
  BY <1>30, Members DEF Drained
<1>31. CASE UNCHANGED <<pc["worker"], state, active, lastError, generation, reported,
            canceled, job>>
  BY <1>31
<1> QED
  BY Writers, <1>1, <1>2, <1>3, <1>4, <1>5, <1>6, <1>7, <1>8, <1>9, <1>10, <1>11, <1>12,
     <1>13, <1>14, <1>15, <1>16, <1>17, <1>18, <1>19, <1>20, <1>21, <1>22, <1>23, <1>24,
     <1>25, <1>26, <1>27, <1>28, <1>29, <1>30, <1>31 DEF Commits, Worker, WorkerAcquire,
     WorkerStep, PlayerStop

\* A row is written for the active request only.
LEMMA RowInvKept ==
  ASSUME TypeInv, RequestsInOrder, ItemInRange, RowInv, [Next]_vars
  PROVE  RowInv'
<1> USE PlaybackAssumption DEF TypeInv, TypeOK, ControlTypes, ServiceTypes, ContextTypes,
      JobTypes, RequestsInOrder, ItemInRange, AtItem, RowInv, JobIsRequest, None,
      Requests, PlayHasRoom, InPlay, PlaybackAssumption, Goto, svcVars, ctxVars,
      queueVars, jobVars, implVars, deviceVars, seenVars
<1>1. ASSUME NEW batch \in Batches, PlayCommit(batch)
      PROVE  RowInv'
  BY <1>1, Members DEF PlayCommit, Unlock
<1>2. CASE FinishApply
  BY <1>2, Members DEF FinishApply, Reportable, Unlock
<1>3. CASE ShutdownReset
  BY <1>3, Members DEF ShutdownReset, ResetService, Joined, CallPlayerStop
<1>4. CASE SetRow
  BY <1>4, Members DEF SetRow, Replaced, Leave, LeaveWith
<1>5. CASE UNCHANGED <<active, current, items>>
  BY <1>5
<1> QED
  BY Writers, <1>1, <1>2, <1>3, <1>4, <1>5 DEF Commits

\* What the shutdown has ended does not begin again.
LEMMA ShutdownInvKept ==
  ASSUME TypeInv, Exclusion, ControlFlow, DeviceServesJob, StateInv, ControlsHaveRequest,
           ShutdownInv, [Next]_vars
  PROVE  ShutdownInv'
<1> USE DEF TypeInv, TypeOK, ControlTypes, ReturnLabels, ServiceTypes, Exclusion,
      GuiHolds, CloserHolds, WorkerHolds, ControlFlow, DeviceServesJob, Sounding,
      StateInv, Replacing, ControlsHaveRequest, ShutdownInv, InShutdown, AfterReset,
      InPlay, InPlayerStop, None, Nobody, Goto, svcVars, ctxVars, queueVars, jobVars,
      implVars, deviceVars, seenVars
<1>1. CASE PlayEnter
  BY <1>1, Members DEF PlayEnter, Replaces, CallPlayerStop, Lock
<1>2. CASE PlayCancel
  BY <1>2, Members DEF PlayCancel, CancelActive, CallPlayerStop
<1>3. ASSUME NEW batch \in Batches, PlayCommit(batch)
      PROVE  ShutdownInv'
  BY <1>3, Members DEF PlayCommit, Unlock
<1>4. CASE PauseEnter
  BY <1>4, Members DEF PauseEnter, Lock
<1>5. CASE PauseContext
  BY <1>5, Members DEF PauseContext
<1>6. CASE PausePlayer
  BY <1>6, Members DEF PausePlayer, Unlock
<1>7. CASE ResumeEnter
  BY <1>7, Members DEF ResumeEnter, Lock
<1>8. CASE ResumeContext
  BY <1>8, Members DEF ResumeContext
<1>9. CASE ResumePlayer
  BY <1>9, Members DEF ResumePlayer, PlayerResume, Unlock
<1>10. CASE StopEnter("gui")
  BY <1>10, Members DEF StopEnter, Lock
<1>11. CASE StopContext("gui")
  BY <1>11, Members DEF StopContext
<1>12. CASE StopReturn("gui")
  BY <1>12, Members DEF StopReturn, Unlock
<1>13. CASE SetShutdown("gui")
  BY <1>13, Members DEF SetShutdown
<1>14. CASE DiscardPending("gui")
  BY <1>14, Members DEF DiscardPending, RequestStop
<1>15. CASE StopFlags("gui")
  BY <1>15, Members DEF StopFlags
<1>16. CASE StopDevice("gui")
  BY <1>16, Members DEF StopDevice
<1>17. CASE DeviceStopped("gui")
  BY <1>17, Members DEF DeviceStopped
<1>18. CASE SetShutdown("closer")
  BY <1>18, Members DEF SetShutdown
<1>19. CASE StopEnter("closer")
  BY <1>19, Members DEF StopEnter, Lock
<1>20. CASE StopContext("closer")
  BY <1>20, Members DEF StopContext
<1>21. CASE StopReturn("closer")
  BY <1>21, Members DEF StopReturn, Unlock
<1>22. CASE DiscardPending("closer")
  BY <1>22, Members DEF DiscardPending, RequestStop
<1>23. CASE ShutdownReset
  BY <1>23, Members DEF ShutdownReset, ResetService, Joined, CallPlayerStop
<1>24. CASE StopFlags("closer")
  BY <1>24, Members DEF StopFlags
<1>25. CASE StopDevice("closer")
  BY <1>25, Members DEF StopDevice
<1>26. CASE DeviceStopped("closer")
  BY <1>26, Members DEF DeviceStopped
<1>27. CASE SetStateEnter
  BY <1>27, Members DEF SetStateEnter, Replaced, Leave, LeaveWith
<1>28. CASE SetRow
  BY <1>28, Members DEF SetRow, Replaced, Leave, LeaveWith
<1>29. CASE FinishEnter
  BY <1>29, Members DEF FinishEnter, Replaced
<1>30. CASE EnsureDevice
  BY <1>30, Members DEF EnsureDevice, Leave, LeaveWith
<1>31. CASE StartDevice
  BY <1>31, Members DEF StartDevice, Leave, LeaveWith
<1>32. CASE StopDevice("worker")
  BY <1>32, Members DEF StopDevice
<1>33. CASE Take
  BY <1>33, Members DEF Take
<1>34. CASE WorkerExit
  BY <1>34, Members DEF WorkerExit
<1>35. CASE ReadyForItem
  BY <1>35, Members DEF ReadyForItem, Leave, LeaveWith
<1>36. CASE SetStateApply
  BY <1>36, Members DEF SetStateApply, Refused, Leave, LeaveWith, CallPlayerStop, Unlock
<1>37. CASE Prepare
  BY <1>37, Members DEF Prepare, Leave, LeaveWith
<1>38. CASE ReadyToPlay
  BY <1>38, Members DEF ReadyToPlay, Leave, LeaveWith
<1>39. CASE Interval
  BY <1>39, Members DEF Interval, Leave, LeaveWith
<1>40. CASE FinishApply
  BY <1>40, Members DEF FinishApply, Reportable, Unlock
<1>41. CASE Report
  BY <1>41, Members DEF Report
<1>42. CASE RejectAudio
  BY <1>42, Members DEF RejectAudio, Leave, LeaveWith
<1>43. CASE StopFlags("worker")
  BY <1>43, Members DEF StopFlags
<1>44. CASE DeviceStopped("worker")
  BY <1>44, Members DEF DeviceStopped
<1>45. CASE Gate
  BY <1>45, Members DEF Gate, HoldRequest
<1>46. CASE Install
  BY <1>46, Members DEF Install, HandoffPaused
<1>47. CASE Drained
  BY <1>47, Members DEF Drained
<1>48. CASE CallbackEnter
  BY <1>48, Members DEF CallbackEnter
<1>49. CASE CallbackGate
  BY <1>49, Members DEF CallbackGate, HoldRequest
<1>50. CASE CallbackRender
  BY <1>50, Members DEF CallbackRender, EndOfSamples
<1>51. CASE UNCHANGED vars
  BY <1>51 DEF vars, svcVars, ctxVars, queueVars, jobVars, implVars, deviceVars, seenVars
<1> QED
  BY <1>1, <1>2, <1>3, <1>4, <1>5, <1>6, <1>7, <1>8, <1>9, <1>10, <1>11, <1>12, <1>13,
     <1>14, <1>15, <1>16, <1>17, <1>18, <1>19, <1>20, <1>21, <1>22, <1>23, <1>24, <1>25,
     <1>26, <1>27, <1>28, <1>29, <1>30, <1>31, <1>32, <1>33, <1>34, <1>35, <1>36, <1>37,
     <1>38, <1>39, <1>40, <1>41, <1>42, <1>43, <1>44, <1>45, <1>46, <1>47, <1>48, <1>49,
     <1>50, <1>51 DEF Next, Commits, Gui, GuiBegin, GuiContinue, CloserStep, Worker,
     WorkerAcquire, WorkerStep, DeviceStep, PlayerStop

-----------------------------------------------------------------------------
LEMMA InitInv == Init => Inv
<1> SUFFICES ASSUME Init PROVE Inv
  OBVIOUS
<1> USE PlaybackAssumption DEF PlaybackAssumption, Init, Threads, Nobody, None, Requests
<1>1. Exclusion /\ ControlFlow
  BY DEF Exclusion, ControlFlow, GuiHolds, CloserHolds, WorkerHolds, InPlayerStop
<1>2. DeviceServesJob /\ RenderIsGuarded
  BY DEF DeviceServesJob, Sounding, RenderIsGuarded
<1>3. RequestsInOrder
  BY DEF RequestsInOrder, Ordered
<1>4. UncanceledIsActive /\ ItemInRange
  BY DEF UncanceledIsActive, Working, WorkerHolds, ItemInRange, AtItem, InPlayerStop
<1>5. StateInv /\ ControlsHaveRequest /\ PauseInv
  BY DEF StateInv, Replacing, InPlayerStop, ControlsHaveRequest, PauseInv, Live
<1>6. ErrorInv /\ RowInv
  BY DEF ErrorInv, RowInv
<1>7. ShutdownInv
  BY DEF ShutdownInv, InShutdown, AfterReset, InPlay, InPlayerStop
<1> QED
  BY <1>1, <1>2, <1>3, <1>4, <1>5, <1>6, <1>7 DEF Inv

LEMMA NextInv == TypeInv /\ Inv /\ [Next]_vars => Inv'
<1> SUFFICES ASSUME TypeInv, Inv, [Next]_vars PROVE Inv'
  OBVIOUS
<1>1. /\ Exclusion /\ ControlFlow /\ DeviceServesJob /\ RenderIsGuarded
      /\ RequestsInOrder /\ UncanceledIsActive /\ ItemInRange
      /\ StateInv /\ ControlsHaveRequest /\ PauseInv /\ ErrorInv /\ RowInv /\ ShutdownInv
  BY DEF Inv
<1>2. Exclusion' /\ ControlFlow' /\ DeviceServesJob' /\ RenderIsGuarded'
  BY <1>1, ExclusionKept, DeviceServesJobKept, RenderIsGuardedKept
<1>3. RequestsInOrder' /\ UncanceledIsActive' /\ ItemInRange'
  BY <1>1, RequestsInOrderKept, UncanceledIsActiveKept, ItemInRangeKept
<1>4. StateInv' /\ ControlsHaveRequest' /\ PauseInv'
  BY <1>1, StateInvKept, ControlsHaveRequestKept, PauseInvKept
<1>5. ErrorInv' /\ RowInv' /\ ShutdownInv'
  BY <1>1, ErrorInvKept, RowInvKept, ShutdownInvKept
<1> QED
  BY <1>2, <1>3, <1>4, <1>5 DEF Inv

LEMMA Invariance == Spec => [](TypeInv /\ Inv)
<1>1. Init => TypeInv /\ Inv
  BY InitTypeInv, InitInv
<1>2. TypeInv /\ Inv /\ [Next]_vars => (TypeInv /\ Inv)'
  BY NextTypeInv, NextInv
<1> QED
  BY <1>1, <1>2, PTL DEF Spec

-----------------------------------------------------------------------------
(***************************************************************************)
(* Outside mutex_, the state the service shows is the request's: Stopping  *)
(* exactly when it is canceled, Paused exactly when it is paused, Idle or  *)
(* Error exactly when there is none, however SetRequestState, Finish and   *)
(* the controls interleave.                                                *)
(***************************************************************************)
THEOREM StateTold == Spec => []StateIsTruthful
<1>1. Inv => StateIsTruthful
  BY DEF Inv, Exclusion, GuiHolds, StateInv, Replacing, StateIsTruthful, Nobody
<1> QED
  BY Invariance, <1>1, PTL

(***************************************************************************)
(* A pause or a resume reaches the player on whichever side of the handoff *)
(* in MiniaudioPlayer::Play it falls.                                      *)
(***************************************************************************)
THEOREM PauseReaches == Spec => []PauseReachesDevice
<1>1. Inv => PauseReachesDevice
  BY DEF Inv, Exclusion, GuiHolds, PauseInv, PauseReachesDevice, Nobody
<1> QED
  BY Invariance, <1>1, PTL

(***************************************************************************)
(* An error is shown only for the latest request and reported only for one *)
(* nobody canceled, then or later.                                         *)
(***************************************************************************)
THEOREM ErrorsAttributed == Spec => []ErrorsAreAttributed
<1>1. Inv => ErrorsAreAttributed
  BY DEF Inv, ErrorInv, ErrorsAreAttributed
<1> QED
  BY Invariance, <1>1, PTL

(***************************************************************************)
(* The row shown beside an active request is that request's.               *)
(***************************************************************************)
THEOREM RowOfActive == Spec => []RowBelongsToActive
<1>1. Inv => RowBelongsToActive
  BY DEF Inv, RowInv, RowBelongsToActive
<1> QED
  BY Invariance, <1>1, PTL

(***************************************************************************)
(* Once ApplicationRuntime's shutdown thread is through, nothing plays,    *)
(* nothing is queued, and nothing the GUI still calls changes that.        *)
(***************************************************************************)
THEOREM QuietOnceClosed == Spec => []ClosedIsQuiet
<1>1. Inv => ClosedIsQuiet
  BY DEF Inv, ShutdownInv, AfterReset, ClosedIsQuiet
<1> QED
  BY Invariance, <1>1, PTL

-----------------------------------------------------------------------------
\* A callback that renders serves the request that is active and live.
LEMMA RenderIsLive ==
  ASSUME TypeInv, Inv, pc["device"] = "render"
  PROVE  /\ job \in Requests /\ context = job /\ cbContext = job
         /\ Live(job) /\ ~paused[job]
         /\ item \in 1..Len(items[job])
         /\ heard[1] = job => heard[2] <= item
<1>1. context = job /\ cbContext = job /\ Sounding
  BY DEF Inv, DeviceServesJob
<1>2. Working /\ AtItem
  BY <1>1 DEF Sounding, Working, AtItem, InPlayerStop
<1>3. job \in Requests
  BY <1>2 DEF TypeInv, JobIsRequest, Working
<1>4. ~canceled[job] /\ ~paused[job]
  BY <1>1 DEF Inv, RenderIsGuarded
<1>5. active = job
  BY <1>2, <1>4 DEF Inv, UncanceledIsActive
<1>6. item \in 1..Len(items[job]) /\ (heard[1] = job => heard[2] <= item)
  BY <1>2 DEF Inv, ItemInRange
<1> QED
  BY <1>1, <1>3, <1>4, <1>5, <1>6 DEF Live, Requests, None

\* The only step that moves the cursor forward.
LEMMA CursorMoves ==
  ASSUME TypeInv, [Next]_vars
  PROVE  CallbackRender \/ UNCHANGED cursor \/ cursor' = 0
BY DEF Next, GuiBegin, GuiContinue, CloserStep, WorkerAcquire, WorkerStep, DeviceStep,
   PlayerStop, vars, implVars, PlayEnter, PlayCancel, PauseEnter, PauseContext,
   PausePlayer, ResumeEnter, ResumeContext, ResumePlayer, StopEnter, StopContext,
   StopReturn, SetShutdown, DiscardPending, StopFlags, StopDevice, DeviceStopped,
   ShutdownReset, SetStateEnter, SetRow, FinishEnter, EnsureDevice, StartDevice, Take,
   WorkerExit, ReadyForItem, SetStateApply, Prepare, ReadyToPlay, Interval, FinishApply,
   Report, RejectAudio, Gate, Install, Drained, CallbackEnter, CallbackGate, PlayCommit

(***************************************************************************)
(* DataCallback copies a period to the device only for the request that is *)
(* active, not canceled and not paused at that moment, and whose mutex it  *)
(* holds.                                                                  *)
(***************************************************************************)
THEOREM SoundIsLive == Spec => SoundOnlyFromLiveRequest
<1> DEFINE A == cursor' > cursor => /\ Live(context) /\ ~paused[context]
                                    /\ cbContext = context /\ job = context
<1>1. TypeInv /\ Inv /\ [Next]_vars => [A]_vars
  <2> SUFFICES ASSUME TypeInv, Inv, [Next]_vars, cursor' > cursor PROVE A
    OBVIOUS
  <2>1. cursor \in Nat
    BY DEF TypeInv, TypeOK, PlayerTypes
  <2>2. CallbackRender
    BY <2>1, CursorMoves
  <2>3. pc["device"] = "render"
    BY <2>2 DEF CallbackRender
  <2> QED
    BY <2>3, RenderIsLive
<1> QED
  BY Invariance, <1>1, PTL DEF Spec, SoundOnlyFromLiveRequest

-----------------------------------------------------------------------------
(* The refinement of PlaybackContract                                      *)

LEMMA ContractInit == Init => Contract!Init
BY DEF Init, Contract!Init, Live, None

\* A step that leaves the live request, its pause and what was heard alone.
LEMMA ContractStutters ==
  UNCHANGED <<active, canceled, paused, generation, heard>> => UNCHANGED Contract!vars
BY DEF Contract!vars, Live

\* A cancellation ends the live request, or finds that it has ended.
LEMMA ContractEnds ==
  ASSUME UNCHANGED <<generation, heard>>,
         active' = None \/ (active' = active /\ canceled'[active])
  PROVE  Contract!End \/ UNCHANGED Contract!vars
<1>1. ~Live(active)'
  BY DEF Live, None
<1>2. CASE Live(active)
  BY <1>1, <1>2 DEF Contract!End, Live, None
<1>3. CASE ~Live(active)
  BY <1>1, <1>3 DEF Contract!vars, Live
<1> QED
  BY <1>2, <1>3

\* Each step is one of the contract's or changes nothing of it: PlayCommit
\* starts, PauseContext and ResumeContext hold and release, CallbackRender
\* sounds, and whatever cancels or forgets the request ends it.
LEMMA ContractStep ==
  ASSUME TypeInv, Inv, [Next]_vars
  PROVE  Contract!Next \/ UNCHANGED Contract!vars
<1> USE DEF Contract!Next
<1>1. ASSUME NEW batch \in Batches, PlayCommit(batch)
      PROVE  Contract!Start
  <2>1. active = None \/ canceled[active]
    BY <1>1 DEF PlayCommit, Inv, StateInv, Replacing
  <2>2. generation \in Nat /\ generation < MaxRequests /\ generation + 1 \in Requests
    BY <1>1, PlaybackAssumption, RequestsAreNumbers
    DEF PlayCommit, TypeInv, PlayHasRoom, InPlay, Requests, PlaybackAssumption
  <2>3. ~canceled[generation + 1] /\ ~paused[generation + 1]
    BY <2>2 DEF Inv, RequestsInOrder
  <2>4. /\ generation' = generation + 1 /\ active' = generation + 1
        /\ UNCHANGED <<canceled, paused, heard>>
    BY <1>1 DEF PlayCommit, seenVars
  <2> QED
    BY <2>1, <2>2, <2>3, <2>4 DEF Contract!Start, Live, None
<1>2. CASE PauseContext
  <2>1. Live(active)
    BY <1>2 DEF PauseContext, Inv, ControlsHaveRequest, StateInv, Replacing, InPlayerStop, Live
  <2>2. active \in Requests
    BY <2>1 DEF Live, TypeInv, TypeOK, ServiceTypes
  <2>3. paused'[active] /\ UNCHANGED <<active, canceled, generation, heard>>
    BY <1>2, <2>2 DEF PauseContext, seenVars, TypeInv, TypeOK, ContextTypes
  <2> QED
    BY <2>1, <2>3 DEF Contract!Hold, Live, None
<1>3. CASE ResumeContext
  <2>1. Live(active)
    BY <1>3 DEF ResumeContext, Inv, ControlsHaveRequest, StateInv, Replacing, InPlayerStop, Live
  <2>2. active \in Requests
    BY <2>1 DEF Live, TypeInv, TypeOK, ServiceTypes
  <2>3. ~paused'[active] /\ UNCHANGED <<active, canceled, generation, heard>>
    BY <1>3, <2>2 DEF ResumeContext, seenVars, TypeInv, TypeOK, ContextTypes
  <2> QED
    BY <2>1, <2>3 DEF Contract!Release, Live, None
<1>4. CASE PlayCancel \/ StopContext("gui") \/ StopContext("closer")
  <2>1. active \in Requests
    BY <1>4 DEF PlayCancel, StopContext, Inv, ControlsHaveRequest, TypeInv, TypeOK, ServiceTypes
  <2>2. canceled'[active] /\ UNCHANGED <<active, generation, heard>>
    BY <1>4, <2>1
    DEF PlayCancel, CancelActive, StopContext, svcVars, seenVars, TypeInv, TypeOK, ContextTypes
  <2> QED
    BY <2>2, ContractEnds
<1>5. CASE ShutdownReset \/ FinishApply
  <2>1. active' = None /\ UNCHANGED <<generation, heard>>
    BY <1>5 DEF ShutdownReset, ResetService, FinishApply, seenVars
  <2> QED
    BY <2>1, ContractEnds
<1>6. CASE CallbackRender
  <2>1. UNCHANGED <<active, canceled, paused, generation>>
    BY <1>6 DEF CallbackRender, svcVars
  <2>2. CASE UNCHANGED heard
    BY <2>1, <2>2, ContractStutters
  <2>3. CASE heard' = <<context, item>>
    <3>1. pc["device"] = "render"
      BY <1>6 DEF CallbackRender
    <3>2. /\ job \in Requests /\ context = job /\ Live(job) /\ ~paused[job]
          /\ item \in 1..Len(items[job]) /\ (heard[1] = job => heard[2] <= item)
      BY <3>1, RenderIsLive
    <3>3. item \in 1..MaxItems
      BY <3>2, BatchLength, PlaybackAssumption
      DEF TypeInv, TypeOK, ContextTypes, PlaybackAssumption
    <3>4. heard[2] \in Nat /\ item \in Nat
      BY <3>3 DEF TypeInv, TypeOK, SeenTypes
    <3>5. Live(active) /\ active = job /\ active # 0 /\ ~paused[active]
      BY <3>2 DEF Live, None
    <3>6. heard' = <<active, item>> /\ (heard[1] = active => item >= heard[2])
      BY <2>3, <3>2, <3>4, <3>5
    <3>7. \E i \in 1..MaxItems : (heard[1] = active => i >= heard[2]) /\ heard' = <<active, i>>
      BY <3>3, <3>6
    <3>8. Live(active)' <=> Live(active)
      BY <2>1 DEF Live
    <3> QED
      BY <2>1, <3>5, <3>7, <3>8 DEF Contract!Sound
  <2> QED
    BY <1>6, <2>2, <2>3 DEF CallbackRender
<1>7. CASE CallbackEnter \/ CallbackGate
  BY <1>7, ContractStutters DEF CallbackEnter, CallbackGate, svcVars, ctxVars, seenVars
<1>8. CASE UNCHANGED <<active, canceled, paused, generation, heard>>
  BY <1>8, ContractStutters
<1> QED
  BY Writers, <1>1, <1>2, <1>3, <1>4, <1>5, <1>6, <1>7, <1>8 DEF Commits, DeviceStep

(***************************************************************************)
(* The four threads, their locks and the device together do what the       *)
(* contract says: at most one request is live, a later one never gives way *)
(* to an earlier one, and only the live request is heard, never while it   *)
(* is paused, its items in order.                                          *)
(***************************************************************************)
THEOREM ContractKept == Spec => ImplementsContract
<1>1. TypeInv /\ Inv /\ [Next]_vars => [Contract!Next]_(Contract!vars)
  BY ContractStep
<1> QED
  BY ContractInit, Invariance, <1>1, PTL DEF Spec, ImplementsContract, Contract!Spec
=============================================================================
