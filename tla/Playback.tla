------------------------------ MODULE Playback ------------------------------
(***************************************************************************)
(* The playback subsystem: PlaybackService, the WorkerQueue it owns, and   *)
(* the MiniaudioPlayer with its device callback, at the granularity of     *)
(* their mutexes.                                                          *)
(*                                                                         *)
(* Four threads share it.                                                  *)
(*   "gui"     calls Play, Pause, Resume, Stop and, once, RequestShutdown; *)
(*   "closer"  is ApplicationRuntime's shutdown thread: Shutdown, then a   *)
(*             last MiniaudioPlayer::Stop;                                 *)
(*   "worker"  is the PlaybackWorker: takes tasks and runs RunSequence;    *)
(*   "device"  is the audio thread of miniaudio: runs DataCallback.        *)
(*                                                                         *)
(* A step is one critical section, or one acquisition of a lock that is    *)
(* held while another is awaited.  Impl::mutex and WorkerQueue::mutex_ are *)
(* leaves of the lock order, so their sections are single steps; mutex_,   *)
(* the request mutex and device_mutex are variables.  A condition variable *)
(* is the guard of the step that waits on it.                              *)
(*                                                                         *)
(* A request is its id.  Sample data is reduced to a number of periods.    *)
(***************************************************************************)
EXTENDS Naturals, Sequences

CONSTANTS
  MaxRequests,   \* bound on the calls of Play that are accepted
  MaxItems,      \* bound on the items of one request
  Periods        \* device periods of sound in the audio of one item

ASSUME PlaybackAssumption ==
  /\ MaxRequests \in Nat
  /\ MaxItems \in Nat
  /\ Periods \in Nat \ {0}

None == 0
Requests == 1..MaxRequests
Threads == {"gui", "closer", "worker", "device"}
Nobody == "nobody"

VARIABLES
  \* PlaybackService
  svcLock,       \* holder of mutex_
  state,         \* state_
  pausedFrom,    \* paused_from_
  active,        \* active_request_, None for a null pointer
  generation,    \* generation_
  shutdown,      \* shutdown_
  lastError,     \* the request whose error last_error_ holds, or None
  current,       \* <<request, item>> that set current_row_/current_column_
  \* AudioPlaybackContext, one for each request
  reqLock,       \* holder of the mutex
  canceled, paused,
  items,         \* the request's items: TRUE where the text is not empty
  \* WorkerQueue
  tasks, accepting,
  \* the worker's locals in RunSequence
  job, item, failed, phase,
  \* MiniaudioPlayer::Impl
  devLock,       \* holder of device_mutex
  running,       \* the device is started
  playing, implPaused, stopRequested, cursor, context,
  \* the callback's local copy of the context
  cbContext,
  \* control
  pc, ret,       \* each thread's label and where MiniaudioPlayer::Stop returns
  closing,       \* shutdown_started_ of ApplicationRuntime, published
  \* what the outside has seen
  heard,         \* <<request, item>> of the last sound that reached the device
  reported       \* requests passed to on_error_

svcVars    == <<svcLock, state, pausedFrom, active, generation, shutdown, lastError, current>>
ctxVars    == <<reqLock, canceled, paused, items>>
queueVars  == <<tasks, accepting>>
jobVars    == <<job, item, failed, phase>>
implVars   == <<playing, implPaused, stopRequested, cursor, context>>
deviceVars == <<devLock, running, cbContext>>
seenVars   == <<heard, reported>>
vars == <<svcVars, ctxVars, queueVars, jobVars, implVars, deviceVars,
          pc, ret, closing, seenVars>>

States == {"Idle", "Generating", "Playing", "Paused", "Stopping", "Error"}

Labels ==
  {"idle", "gate", "render",
   "playCancel", "playCommit", "pauseContext", "pausePlayer",
   "resumeContext", "resumePlayer", "stopContext", "endStop",
   "shutStop", "endShutStop", "discard", "barrier", "join", "closed",
   "stopFlags", "stopDevice", "quiesce",
   "take", "ready", "setState", "setStateApply", "row", "prepare", "prepared",
   "ensure", "install", "start", "drain", "interval",
   "finish", "finishApply", "report", "exited"}

Goto(t, label) == pc' = [pc EXCEPT ![t] = label]

\* mutex_ taken by t, and given back.
Lock(t) == svcLock = Nobody /\ svcLock' = t
Unlock == svcLock' = Nobody

Init ==
  /\ svcLock = Nobody /\ state = "Idle" /\ pausedFrom = "Idle" /\ active = None
  /\ generation = 0 /\ shutdown = FALSE /\ lastError = None /\ current = <<None, 0>>
  /\ reqLock = [r \in Requests |-> Nobody]
  /\ canceled = [r \in Requests |-> FALSE]
  /\ paused = [r \in Requests |-> FALSE]
  /\ items = [r \in Requests |-> <<>>]
  /\ tasks = <<>> /\ accepting = TRUE
  /\ job = None /\ item = 0 /\ failed = FALSE /\ phase = "Generating"
  /\ devLock = Nobody /\ running = FALSE
  /\ playing = FALSE /\ implPaused = FALSE /\ stopRequested = FALSE
  /\ cursor = 0 /\ context = None /\ cbContext = None
  /\ pc = [t \in Threads |-> CASE t = "worker" -> "take"
                               [] t = "closer" -> "barrier"
                               [] OTHER -> "idle"]
  /\ ret = [t \in Threads |-> "idle"]
  /\ closing = FALSE
  /\ heard = <<None, 0>> /\ reported = {}

-----------------------------------------------------------------------------
(* MiniaudioPlayer::Stop, called by every thread but the device's own, and *)
(* the bare ma_device_stop at the end of MiniaudioPlayer::Play.            *)

CallPlayerStop(t, back) ==
  /\ Goto(t, "stopFlags")
  /\ ret' = [ret EXCEPT ![t] = back]

StopFlags(t) ==
  /\ pc[t] = "stopFlags"
  /\ stopRequested' = TRUE /\ playing' = FALSE /\ implPaused' = FALSE
  /\ Goto(t, "stopDevice")
  /\ UNCHANGED <<svcVars, ctxVars, queueVars, jobVars, cursor, context,
                 deviceVars, ret, closing, seenVars>>

\* ma_device_stop: no new callback begins, and the call returns only when
\* the one in flight has ended.
StopDevice(t) ==
  /\ pc[t] = "stopDevice"
  /\ devLock = Nobody
  /\ devLock' = t
  /\ running' = FALSE
  /\ Goto(t, "quiesce")
  /\ UNCHANGED <<svcVars, ctxVars, queueVars, jobVars, implVars, cbContext,
                 ret, closing, seenVars>>

DeviceStopped(t) ==
  /\ pc[t] = "quiesce"
  /\ pc["device"] = "idle"
  /\ devLock' = Nobody
  /\ Goto(t, ret[t])
  /\ UNCHANGED <<svcVars, ctxVars, queueVars, jobVars, implVars, running,
                 cbContext, ret, closing, seenVars>>

PlayerStop(t) == StopFlags(t) \/ StopDevice(t) \/ DeviceStopped(t)

-----------------------------------------------------------------------------
(* Control operations of the GUI.  Each holds mutex_ from its first step   *)
(* to its last.  A call that its guard turns away changes nothing.         *)

(* A definition headed "Mutated" is a plausible slip in the one below it.    *)
(* Nothing uses it: it shows what the properties would catch.              *)

\* Mutated: Play does not cancel the request it replaces.
ReplacesNothing == FALSE
Replaces == active # None

\* Play: after shutdown the call returns at once.
PlayEnter ==
  /\ pc["gui"] = "idle"
  /\ ~shutdown
  /\ generation < MaxRequests
  /\ Lock("gui")
  /\ IF Replaces THEN Goto("gui", "playCancel") /\ UNCHANGED ret
                 ELSE CallPlayerStop("gui", "playCommit")
  /\ UNCHANGED <<state, pausedFrom, active, generation, shutdown, lastError,
                 current, ctxVars, queueVars, jobVars, implVars, deviceVars,
                 closing, seenVars>>

\* Mutated: the request mutex is still held when the player is stopped.
CancelActiveHolding ==
  /\ canceled' = [canceled EXCEPT ![active] = TRUE]
  /\ reqLock' = [reqLock EXCEPT ![active] = "gui"]
CancelActive ==
  /\ canceled' = [canceled EXCEPT ![active] = TRUE]
  /\ UNCHANGED reqLock

PlayCancel ==
  /\ pc["gui"] = "playCancel"
  /\ reqLock[active] = Nobody
  /\ CancelActive
  /\ CallPlayerStop("gui", "playCommit")
  /\ UNCHANGED <<svcVars, paused, items, queueVars, jobVars, implVars,
                 deviceVars, closing, seenVars>>

\* The rest of Play: a fresh context, the state the user sees, the task.
PlayCommit(batch) ==
  LET request == generation + 1 IN
  /\ pc["gui"] = "playCommit"
  /\ generation' = request
  /\ active' = request
  /\ items' = [items EXCEPT ![request] = batch]
  /\ current' = IF batch = <<>> THEN <<None, 0>> ELSE <<request, 1>>
  /\ state' = "Generating"
  /\ lastError' = None
  /\ tasks' = Append(tasks, request)
  /\ Unlock
  /\ Goto("gui", "idle")
  /\ UNCHANGED <<pausedFrom, shutdown, reqLock, canceled, paused, accepting,
                 jobVars, implVars, deviceVars, ret, closing, seenVars>>

PauseEnter ==
  /\ pc["gui"] = "idle"
  /\ active # None /\ state \in {"Playing", "Generating"}
  /\ Lock("gui")
  /\ Goto("gui", "pauseContext")
  /\ UNCHANGED <<state, pausedFrom, active, generation, shutdown, lastError,
                 current, ctxVars, queueVars, jobVars, implVars, deviceVars,
                 ret, closing, seenVars>>

PauseContext ==
  /\ pc["gui"] = "pauseContext"
  /\ reqLock[active] = Nobody
  /\ paused' = [paused EXCEPT ![active] = TRUE]
  /\ pausedFrom' = state
  /\ state' = "Paused"
  /\ Goto("gui", "pausePlayer")
  /\ UNCHANGED <<svcLock, active, generation, shutdown, lastError, current,
                 reqLock, canceled, items, queueVars, jobVars, implVars,
                 deviceVars, ret, closing, seenVars>>

\* MiniaudioPlayer::Pause, and the return from PlaybackService::Pause.
PausePlayer ==
  /\ pc["gui"] = "pausePlayer"
  /\ implPaused' = (implPaused \/ playing)
  /\ Unlock
  /\ Goto("gui", "idle")
  /\ UNCHANGED <<state, pausedFrom, active, generation, shutdown, lastError,
                 current, ctxVars, queueVars, jobVars, playing, stopRequested,
                 cursor, context, deviceVars, ret, closing, seenVars>>

ResumeEnter ==
  /\ pc["gui"] = "idle"
  /\ active # None /\ state = "Paused"
  /\ Lock("gui")
  /\ Goto("gui", "resumeContext")
  /\ UNCHANGED <<state, pausedFrom, active, generation, shutdown, lastError,
                 current, ctxVars, queueVars, jobVars, implVars, deviceVars,
                 ret, closing, seenVars>>

ResumeContext ==
  /\ pc["gui"] = "resumeContext"
  /\ reqLock[active] = Nobody
  /\ paused' = [paused EXCEPT ![active] = FALSE]
  /\ state' = pausedFrom
  /\ Goto("gui", "resumePlayer")
  /\ UNCHANGED <<svcLock, pausedFrom, active, generation, shutdown, lastError,
                 current, reqLock, canceled, items, queueVars, jobVars,
                 implVars, deviceVars, ret, closing, seenVars>>

\* Mutated: the player is not told of the resume.
PlayerResumeForgotten == UNCHANGED implPaused
PlayerResume == implPaused' = FALSE

\* The return from PlaybackService::Resume.
ResumePlayer ==
  /\ pc["gui"] = "resumePlayer"
  /\ PlayerResume
  /\ Unlock
  /\ Goto("gui", "idle")
  /\ UNCHANGED <<state, pausedFrom, active, generation, shutdown, lastError,
                 current, ctxVars, queueVars, jobVars, playing, stopRequested,
                 cursor, context, deviceVars, ret, closing, seenVars>>

(* Stop is an operation of the GUI and the middle of RequestShutdown; the  *)
(* label it returns to says which.                                         *)
StopEnter(t) ==
  /\ \/ pc[t] = "idle" /\ t = "gui" /\ ret' = [ret EXCEPT ![t] = "endStop"]
     \/ pc[t] = "shutStop" /\ ret' = [ret EXCEPT ![t] = "endShutStop"]
  /\ Lock(t)
  /\ IF active # None
       THEN Goto(t, "stopContext") /\ UNCHANGED state
       ELSE Goto(t, "stopFlags") /\ state' = "Idle"
  /\ UNCHANGED <<pausedFrom, active, generation, shutdown, lastError, current,
                 ctxVars, queueVars, jobVars, implVars, deviceVars, closing,
                 seenVars>>

StopContext(t) ==
  /\ pc[t] = "stopContext"
  /\ reqLock[active] = Nobody
  /\ canceled' = [canceled EXCEPT ![active] = TRUE]
  /\ paused' = [paused EXCEPT ![active] = FALSE]
  /\ state' = "Stopping"
  /\ Goto(t, "stopFlags")
  /\ UNCHANGED <<svcLock, pausedFrom, active, generation, shutdown, lastError,
                 current, reqLock, items, queueVars, jobVars, implVars,
                 deviceVars, ret, closing, seenVars>>

StopReturn(t) ==
  /\ pc[t] \in {"endStop", "endShutStop"}
  /\ Unlock
  /\ Goto(t, IF pc[t] = "endStop" THEN "idle" ELSE "discard")
  /\ UNCHANGED <<state, pausedFrom, active, generation, shutdown, lastError,
                 current, ctxVars, queueVars, jobVars, implVars, deviceVars,
                 ret, closing, seenVars>>

-----------------------------------------------------------------------------
(* Shutdown.  The GUI calls RequestShutdown once; the closer, which waits  *)
(* until that call has published, repeats it inside Shutdown.              *)

SetShutdown(t) ==
  /\ \/ t = "gui" /\ pc[t] = "idle" /\ ~closing
     \/ t = "closer" /\ pc[t] = "barrier" /\ closing
  /\ svcLock = Nobody
  /\ shutdown' = TRUE
  /\ Goto(t, "shutStop")
  /\ UNCHANGED <<svcLock, state, pausedFrom, active, generation, lastError,
                 current, ctxVars, queueVars, jobVars, implVars, deviceVars,
                 ret, closing, seenVars>>

\* Mutated: the queue is emptied and not closed.
RequestStopAccepting == tasks' = <<>> /\ UNCHANGED accepting
RequestStop == tasks' = <<>> /\ accepting' = FALSE

DiscardPending(t) ==
  /\ pc[t] = "discard"
  /\ RequestStop
  /\ IF t = "gui" THEN Goto(t, "idle") /\ closing' = TRUE
                  ELSE Goto(t, "join") /\ UNCHANGED closing
  /\ UNCHANGED <<svcVars, ctxVars, jobVars, implVars, deviceVars, ret, seenVars>>

\* Mutated: the worker is not waited for.
NoJoin == TRUE
Joined == pc["worker"] = "exited"

\* Mutated: the state of a discarded request stays.
ResetRequestOnly == active' = None /\ UNCHANGED state
ResetService == active' = None /\ state' = "Idle"

\* The join of worker_.Stop has returned.
ShutdownReset ==
  /\ pc["closer"] = "join"
  /\ Joined
  /\ svcLock = Nobody
  /\ ResetService
  /\ CallPlayerStop("closer", "closed")
  /\ UNCHANGED <<svcLock, pausedFrom, generation, shutdown, lastError, current,
                 ctxVars, queueVars, jobVars, implVars, deviceVars, closing,
                 seenVars>>

-----------------------------------------------------------------------------
(* The worker: WorkerQueue::Run around RunSequence.                        *)

Take ==
  /\ pc["worker"] = "take"
  /\ tasks # <<>>
  /\ job' = Head(tasks)
  /\ tasks' = Tail(tasks)
  /\ item' = 1
  /\ failed' = FALSE
  /\ Goto("worker", "ready")
  /\ UNCHANGED <<svcVars, ctxVars, accepting, phase, implVars, deviceVars, ret,
                 closing, seenVars>>

WorkerExit ==
  /\ pc["worker"] = "take"
  /\ tasks = <<>> /\ ~accepting
  /\ Goto("worker", "exited")
  /\ UNCHANGED <<svcVars, ctxVars, queueVars, jobVars, implVars, deviceVars,
                 ret, closing, seenVars>>

\* Control leaves the loop for Finish, with an error or without.
LeaveWith(error) == failed' = error /\ Goto("worker", "finish")
Leave == LeaveWith(FALSE)

\* WaitReady at the head of RunSequence and of each round of its loop.
ReadyForItem ==
  /\ pc["worker"] = "ready"
  /\ reqLock[job] = Nobody
  /\ \/ canceled[job] /\ Leave /\ UNCHANGED phase
     \/ /\ ~canceled[job] /\ ~paused[job]
        /\ UNCHANGED failed
        /\ IF item > Len(items[job])
             THEN Goto("worker", "finish") /\ UNCHANGED phase
             ELSE Goto("worker", "setState") /\ phase' = "Generating"
  /\ UNCHANGED <<svcVars, ctxVars, queueVars, job, item, implVars, deviceVars,
                 ret, closing, seenVars>>

\* Mutated: the worker does not ask whether its request was replaced.
NeverReplaced == FALSE
Replaced == active # job

\* SetRequestState takes mutex_, then the request's.
SetStateEnter ==
  /\ pc["worker"] = "setState"
  /\ svcLock = Nobody
  /\ IF Replaced
       THEN Leave /\ UNCHANGED svcLock
       ELSE svcLock' = "worker" /\ Goto("worker", "setStateApply") /\ UNCHANGED failed
  /\ UNCHANGED <<state, pausedFrom, active, generation, shutdown, lastError,
                 current, ctxVars, queueVars, job, item, phase, implVars,
                 deviceVars, ret, closing, seenVars>>

\* Mutated: a canceled request may still change the state.
NeverRefused == FALSE
Refused == canceled[job]

\* After it: the row of the item, or MiniaudioPlayer::Play, whose first act
\* is its own Stop.
SetStateApply ==
  /\ pc["worker"] = "setStateApply"
  /\ reqLock[job] = Nobody
  /\ Unlock
  /\ IF Refused
       THEN Leave /\ UNCHANGED <<pausedFrom, state, ret>>
       ELSE /\ pausedFrom' = phase
            /\ state' = IF paused[job] THEN "Paused" ELSE phase
            /\ UNCHANGED failed
            /\ IF phase = "Generating" THEN Goto("worker", "row") /\ UNCHANGED ret
                                       ELSE CallPlayerStop("worker", "ensure")
  /\ UNCHANGED <<active, generation, shutdown, lastError, current, ctxVars,
                 queueVars, job, item, phase, implVars, deviceVars, closing,
                 seenVars>>

\* An item without text is shown and skipped.
SetRow ==
  /\ pc["worker"] = "row"
  /\ svcLock = Nobody
  /\ IF Replaced
       THEN Leave /\ UNCHANGED current
       ELSE /\ current' = <<job, item>>
            /\ Goto("worker", IF items[job][item] THEN "prepare" ELSE "interval")
            /\ UNCHANGED failed
  /\ UNCHANGED <<svcLock, state, pausedFrom, active, generation, shutdown,
                 lastError, ctxVars, queueVars, job, item, phase, implVars,
                 deviceVars, ret, closing, seenVars>>

\* TtsService::Prepare: it returns audio, or throws because synthesis failed
\* or because it saw the cancellation.  Either can come after a cancellation.
Prepare ==
  /\ pc["worker"] = "prepare"
  /\ \/ Goto("worker", "prepared") /\ UNCHANGED failed
     \/ LeaveWith(TRUE)
  /\ UNCHANGED <<svcVars, ctxVars, queueVars, job, item, phase, implVars,
                 deviceVars, ret, closing, seenVars>>

\* WaitReady between Prepare and MiniaudioPlayer::Play.
ReadyToPlay ==
  /\ pc["worker"] = "prepared"
  /\ reqLock[job] = Nobody
  /\ \/ canceled[job] /\ Leave /\ UNCHANGED phase
     \/ /\ ~canceled[job] /\ ~paused[job]
        /\ Goto("worker", "setState") /\ phase' = "Playing" /\ UNCHANGED failed
  /\ UNCHANGED <<svcVars, ctxVars, queueVars, job, item, implVars, deviceVars,
                 ret, closing, seenVars>>

\* WaitInterval, which the last item skips.  An interval that has run out
\* does not wait for a pause to end: ReadyForItem does.
Interval ==
  /\ pc["worker"] = "interval"
  /\ reqLock[job] = Nobody
  /\ IF item < Len(items[job]) /\ ~canceled[job]
       THEN item' = item + 1 /\ Goto("worker", "ready") /\ UNCHANGED failed
       ELSE Leave /\ UNCHANGED item
  /\ UNCHANGED <<svcVars, ctxVars, queueVars, job, phase, implVars, deviceVars,
                 ret, closing, seenVars>>

\* Finish of a request that was replaced does nothing.
FinishEnter ==
  /\ pc["worker"] = "finish"
  /\ svcLock = Nobody
  /\ IF Replaced
       THEN Goto("worker", "take") /\ UNCHANGED svcLock
       ELSE svcLock' = "worker" /\ Goto("worker", "finishApply")
  /\ UNCHANGED <<state, pausedFrom, active, generation, shutdown, lastError,
                 current, ctxVars, queueVars, jobVars, implVars, deviceVars,
                 ret, closing, seenVars>>

\* Mutated: the failure of a canceled request is an error too.
EveryFailure == failed
Reportable == failed /\ ~canceled[job]

FinishApply ==
  /\ pc["worker"] = "finishApply"
  /\ reqLock[job] = Nobody
  /\ state' = IF Reportable THEN "Error" ELSE "Idle"
  /\ lastError' = IF Reportable THEN job ELSE None
  /\ active' = None
  /\ Unlock
  /\ Goto("worker", IF Reportable THEN "report" ELSE "take")
  /\ UNCHANGED <<pausedFrom, generation, shutdown, current, ctxVars, queueVars,
                 jobVars, implVars, deviceVars, ret, closing, seenVars>>

\* on_error_, outside every lock.
Report ==
  /\ pc["worker"] = "report"
  /\ reported' = reported \cup {job}
  /\ Goto("worker", "take")
  /\ UNCHANGED <<svcVars, ctxVars, queueVars, jobVars, implVars, deviceVars,
                 ret, closing, heard>>

-----------------------------------------------------------------------------
(* MiniaudioPlayer::Play on the worker, after its own Stop.                *)

\* Play refuses malformed audio before it touches the device.
RejectAudio ==
  /\ pc["worker"] = "stopFlags" /\ ret["worker"] = "ensure"
  /\ LeaveWith(TRUE)
  /\ UNCHANGED <<svcVars, ctxVars, queueVars, job, item, phase, implVars,
                 deviceVars, ret, closing, seenVars>>

\* EnsureDevice under device_mutex; opening the device can fail.
EnsureDevice ==
  /\ pc["worker"] = "ensure"
  /\ devLock = Nobody
  /\ \/ Goto("worker", "gate") /\ UNCHANGED failed
     \/ LeaveWith(TRUE)
  /\ UNCHANGED <<svcVars, ctxVars, queueVars, job, item, phase, implVars,
                 deviceVars, ret, closing, seenVars>>

\* Mutated: the request mutex is released after the test of canceled.
HoldNothing(t, r) == UNCHANGED reqLock
HoldRequest(t, r) == reqLock' = [reqLock EXCEPT ![r] = t]

\* The request mutex is kept from the test of canceled to the end of Install.
Gate ==
  /\ pc["worker"] = "gate"
  /\ reqLock[job] = Nobody
  /\ IF canceled[job]
       THEN Goto("worker", "interval") /\ UNCHANGED reqLock
       ELSE HoldRequest("worker", job) /\ Goto("worker", "install")
  /\ UNCHANGED <<svcVars, canceled, paused, items, queueVars, jobVars, implVars,
                 deviceVars, ret, closing, seenVars>>

\* Mutated: a pause that came before the handoff is lost.
HandoffUnpaused == FALSE
HandoffPaused == paused[job]

Install ==
  /\ pc["worker"] = "install"
  /\ context' = job
  /\ cursor' = 0
  /\ playing' = TRUE
  /\ implPaused' = HandoffPaused
  /\ stopRequested' = FALSE
  /\ reqLock' = [reqLock EXCEPT ![job] = Nobody]
  /\ Goto("worker", "start")
  /\ UNCHANGED <<svcVars, canceled, paused, items, queueVars, jobVars,
                 deviceVars, ret, closing, seenVars>>

\* ma_device_start succeeds, or fails and Play throws.
StartDevice ==
  /\ pc["worker"] = "start"
  /\ devLock = Nobody
  /\ \/ /\ running' = TRUE
        /\ Goto("worker", "drain")
        /\ UNCHANGED <<failed, playing, stopRequested>>
     \/ /\ playing' = FALSE /\ stopRequested' = TRUE
        /\ LeaveWith(TRUE)
        /\ UNCHANGED running
  /\ UNCHANGED <<svcVars, ctxVars, queueVars, job, item, phase, implPaused,
                 cursor, context, devLock, cbContext, ret, closing, seenVars>>

\* The wait on cv, then a bare ma_device_stop.
Drained ==
  /\ pc["worker"] = "drain"
  /\ ~playing \/ stopRequested
  /\ Goto("worker", "stopDevice")
  /\ ret' = [ret EXCEPT !["worker"] = "interval"]
  /\ UNCHANGED <<svcVars, ctxVars, queueVars, jobVars, implVars, deviceVars,
                 closing, seenVars>>

-----------------------------------------------------------------------------
(* DataCallback.                                                           *)

CallbackEnter ==
  /\ pc["device"] = "idle"
  /\ running
  /\ cbContext' = context
  /\ Goto("device", "gate")
  /\ UNCHANGED <<svcVars, ctxVars, queueVars, jobVars, implVars, devLock,
                 running, ret, closing, seenVars>>

CallbackGate ==
  /\ pc["device"] = "gate"
  /\ reqLock[cbContext] = Nobody
  /\ IF canceled[cbContext] \/ paused[cbContext]
       THEN Goto("device", "idle") /\ UNCHANGED reqLock
       ELSE HoldRequest("device", cbContext) /\ Goto("device", "render")
  /\ UNCHANGED <<svcVars, canceled, paused, items, queueVars, jobVars, implVars,
                 deviceVars, ret, closing, seenVars>>

\* Mutated: the end of the samples is tested one period late.
PastEndOfSamples == cursor = Periods + 1
EndOfSamples == cursor = Periods

\* The period after the last one ends the sound.
CallbackRender ==
  /\ pc["device"] = "render"
  /\ \/ /\ implPaused \/ stopRequested \/ ~playing
        /\ UNCHANGED <<playing, cursor, heard>>
     \/ /\ ~implPaused /\ ~stopRequested /\ playing
        /\ IF EndOfSamples
             THEN playing' = FALSE /\ UNCHANGED <<cursor, heard>>
             ELSE /\ cursor' = cursor + 1
                  /\ heard' = <<context, item>>
                  /\ UNCHANGED playing
  /\ reqLock' = [reqLock EXCEPT ![cbContext] = Nobody]
  /\ Goto("device", "idle")
  /\ UNCHANGED <<svcVars, canceled, paused, items, queueVars, jobVars,
                 implPaused, stopRequested, context, deviceVars, ret, closing,
                 reported>>

-----------------------------------------------------------------------------
Batches == UNION {[1..n -> BOOLEAN] : n \in 0..MaxItems}

GuiBegin ==
  \/ PlayEnter \/ PauseEnter \/ ResumeEnter
  \/ (pc["gui"] = "idle" /\ StopEnter("gui"))
  \/ SetShutdown("gui")

GuiContinue ==
  \/ PlayCancel \/ (\E batch \in Batches : PlayCommit(batch))
  \/ PauseContext \/ PausePlayer
  \/ ResumeContext \/ ResumePlayer
  \/ (pc["gui"] = "shutStop" /\ StopEnter("gui"))
  \/ StopContext("gui") \/ StopReturn("gui")
  \/ DiscardPending("gui") \/ PlayerStop("gui")

CloserStep ==
  \/ SetShutdown("closer") \/ StopEnter("closer") \/ StopContext("closer")
  \/ StopReturn("closer") \/ DiscardPending("closer") \/ ShutdownReset
  \/ PlayerStop("closer")

\* The worker's steps that take mutex_ or device_mutex, which the GUI and
\* the closer take too.
WorkerAcquire ==
  \/ SetStateEnter \/ SetRow \/ FinishEnter
  \/ EnsureDevice \/ StartDevice \/ StopDevice("worker")

WorkerStep ==
  \/ Take \/ WorkerExit \/ ReadyForItem \/ SetStateApply \/ Prepare
  \/ ReadyToPlay \/ Interval \/ FinishApply \/ Report
  \/ RejectAudio \/ StopFlags("worker") \/ DeviceStopped("worker")
  \/ Gate \/ Install \/ Drained

DeviceStep == CallbackEnter \/ CallbackGate \/ CallbackRender

Next == GuiBegin \/ GuiContinue \/ CloserStep \/ WorkerAcquire \/ WorkerStep \/ DeviceStep

Spec == Init /\ [][Next]_vars

(***************************************************************************)
(* Each thread keeps running: a call of the GUI that has begun goes on,    *)
(* synthesis returns, a started device keeps asking for periods.  Nothing  *)
(* obliges the user to call anything.  mutex_ and device_mutex are held    *)
(* for moments between the user's clicks, so a thread that waits for one   *)
(* gets it although it may be taken by others infinitely often.            *)
(***************************************************************************)
Fairness ==
  /\ WF_vars(GuiContinue)
  /\ SF_vars(CloserStep)
  /\ WF_vars(WorkerStep)
  /\ SF_vars(WorkerAcquire)
  /\ WF_vars(DeviceStep)

FairSpec == Spec /\ Fairness

-----------------------------------------------------------------------------
ServiceTypes ==
  /\ svcLock \in Threads \cup {Nobody}
  /\ state \in States
  /\ pausedFrom \in States
  /\ active \in Requests \cup {None}
  /\ generation \in 0..MaxRequests
  /\ shutdown \in BOOLEAN
  /\ lastError \in Requests \cup {None}
  /\ current \in (Requests \cup {None}) \X Nat

ContextTypes ==
  /\ reqLock \in [Requests -> Threads \cup {Nobody}]
  /\ canceled \in [Requests -> BOOLEAN]
  /\ paused \in [Requests -> BOOLEAN]
  /\ items \in [Requests -> Batches]

QueueTypes == tasks \in Seq(Requests) /\ accepting \in BOOLEAN

JobTypes ==
  /\ job \in Requests \cup {None}
  /\ item \in Nat
  /\ failed \in BOOLEAN
  /\ phase \in {"Generating", "Playing"}

PlayerTypes ==
  /\ devLock \in Threads \cup {Nobody}
  /\ running \in BOOLEAN
  /\ playing \in BOOLEAN /\ implPaused \in BOOLEAN /\ stopRequested \in BOOLEAN
  /\ cursor \in 0..Periods
  /\ context \in Requests \cup {None}
  /\ cbContext \in Requests \cup {None}

ControlTypes ==
  /\ pc \in [Threads -> Labels]
  /\ ret \in [Threads -> Labels]
  /\ closing \in BOOLEAN

SeenTypes ==
  /\ heard \in (Requests \cup {None}) \X Nat
  /\ reported \subseteq Requests

TypeOK ==
  /\ ServiceTypes /\ ContextTypes /\ QueueTypes /\ JobTypes
  /\ PlayerTypes /\ ControlTypes /\ SeenTypes

Live(r) == r # None /\ active = r /\ ~canceled[r]

(***************************************************************************)
(* A period of sound is copied to the device only for the active request,  *)
(* when that request is neither canceled nor paused: nothing of a request  *)
(* is heard once Stop or the Play that replaces it has canceled it, nor    *)
(* between Pause and Resume, and the samples are those of the request      *)
(* whose mutex the callback holds.                                         *)
(***************************************************************************)
SoundOnlyFromLiveRequest ==
  [][cursor' > cursor => /\ Live(context) /\ ~paused[context]
                         /\ cbContext = context /\ job = context]_vars

(***************************************************************************)
(* Outside mutex_, state_ tells the truth about the request: Stopping      *)
(* exactly when it is canceled, Paused exactly when it is paused, Idle or  *)
(* Error exactly when there is none.  The worker's SetRequestState, Finish *)
(* and the four controls all write it.                                     *)
(***************************************************************************)
StateIsTruthful ==
  svcLock = Nobody =>
    IF active = None THEN state \in {"Idle", "Error"}
    ELSE IF canceled[active] THEN state = "Stopping"
    ELSE IF paused[active] THEN state = "Paused"
    ELSE state \in {"Generating", "Playing"}

(***************************************************************************)
(* A pause and a resume reach the device whichever side of the handoff to  *)
(* MiniaudioPlayer::Play they fall on: while audio is installed for the    *)
(* live request, the player's own flag equals the request's.  A stale TRUE *)
(* would leave a resumed request silent for ever.                          *)
(***************************************************************************)
PauseReachesDevice ==
  (svcLock = Nobody /\ playing /\ Live(context)) => implPaused = paused[context]

(***************************************************************************)
(* An error is shown and reported only for a request nobody canceled, and  *)
(* the error shown is that of the latest request: a late failure of a      *)
(* stopped or replaced request touches neither.                            *)
(***************************************************************************)
ErrorsAreAttributed ==
  /\ (svcLock = Nobody /\ state = "Error") => lastError = generation
  /\ \A r \in reported : ~canceled[r]

(***************************************************************************)
(* Outside mutex_ the row the snapshot shows beside an active request is   *)
(* that request's, whatever the worker of an earlier one still does.       *)
(***************************************************************************)
RowBelongsToActive ==
  (svcLock = Nobody /\ active # None) =>
    current[1] = (IF items[active] = <<>> THEN None ELSE active)

(***************************************************************************)
(* Once the closer is through, nothing plays, nothing is queued and no     *)
(* thread holds or can want a lock on the device's behalf, even if the GUI *)
(* still calls controls.                                                   *)
(***************************************************************************)
ClosedIsQuiet ==
  pc["closer"] = "closed" =>
    /\ pc["worker"] = "exited" /\ tasks = <<>>
    /\ active = None /\ state = "Idle"
    /\ ~running /\ ~playing /\ pc["device"] = "idle"

\* Outside its critical sections the service refines its contract.
Contract == INSTANCE PlaybackContract WITH
  live <- IF Live(active) THEN active ELSE None,
  started <- generation,
  held <- Live(active) /\ paused[active]

ImplementsContract == Contract!Spec

(***************************************************************************)
(* Stop is eventually seen to have stopped: the request a Stop canceled    *)
(* ends, be it playing, paused, in synthesis, in an interval or discarded  *)
(* from the queue by the shutdown.                                         *)
(***************************************************************************)
StopCompletes == state = "Stopping" ~> state # "Stopping"

(***************************************************************************)
(* A request that stays unpaused ends: no handoff between the worker, the  *)
(* callback and the controls strands it.                                   *)
(***************************************************************************)
RequestEnds ==
  \A r \in Requests : active = r ~> (active # r \/ paused[r])

\* A control call returns: no lock is awaited for ever.
ControlsReturn == pc["gui"] # "idle" ~> pc["gui"] = "idle"

\* Once RequestShutdown has published, the closer gets through.
ShutdownCompletes == closing ~> pc["closer"] = "closed"
=============================================================================
