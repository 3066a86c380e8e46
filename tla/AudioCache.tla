----------------------------- MODULE AudioCache -----------------------------
(***************************************************************************)
(* AudioCache and the part of TtsService that uses it: Prepare takes the   *)
(* clear epoch, waits for the engine, looks the audio up, synthesizes on a *)
(* miss and puts the result back.  The GUI clears the cache and changes    *)
(* its quota; the background WorkerQueue finishes both.  File operations   *)
(* may fail, and the process may end at any step and be started again.     *)
(*                                                                         *)
(* Impl::io serializes everything that touches the directory; it is the    *)
(* variable io.  Impl::state is held for short sections only, each of      *)
(* which is one step.  BeginClear takes state but not io, so it comes      *)
(* between any two steps of an operation that holds io.                    *)
(*                                                                         *)
(* A key stands for its fingerprint too, which is part of the key's        *)
(* preimage.  Audio is the voice that made it and its era: the number of   *)
(* clears confirmed before the request for it.  A wav and a json count one *)
(* unit of the quota each.                                                 *)
(***************************************************************************)
EXTENDS Naturals, Sequences, FiniteSets

CONSTANTS
  Keys,          \* cache keys; the key also names the voice of its request
  Preparers,     \* threads that call TtsService::Prepare
  Quotas,        \* values of disk_limit_bytes, in files
  FirstQuotas,   \* those of the configuration before the first start
  EntryLimit,    \* entry_limit
  MemoryLimit,   \* memory_limit_bytes, in buffers
  MaxClears,     \* bound on the clears the user confirms
  MaxConfigures, \* bound on the changes of the settings
  MaxFaults,     \* bound on the file operations that fail
  MaxRestarts,   \* bound on the restarts of the process
  NoAudio, NoKey, Nobody

ASSUME AudioCacheAssumption ==
  /\ Quotas \subseteq Nat /\ FirstQuotas \subseteq Quotas /\ FirstQuotas # {}
  /\ {EntryLimit, MemoryLimit, MaxClears, MaxConfigures, MaxFaults, MaxRestarts} \subseteq Nat
  /\ IsFiniteSet(Keys) /\ IsFiniteSet(Preparers)
  /\ NoKey \notin Keys
  /\ Nobody \notin Preparers \cup {"background"}
  /\ "background" \notin Preparers
  /\ NoAudio \notin [voice : Keys, era : 0..MaxClears]

VARIABLES
  \* the cache directory
  wav, json,     \* the audio in <key>.wav, and the audio <key>.json describes
  litter,        \* temporary siblings left behind
  \* AudioCache::Impl
  entries, older, memory, meta,
  lease,         \* who outside the cache holds the buffer the entry's lease refers to
  dirty, epoch, clearing, failed, used, valid,
  quota, enabled, diskEnabled, owned,
  \* io and the locals of the operation that holds it
  io, ioKey, pending, unavailable,
  \* TtsService
  engine,        \* holder of TtsService::mutex_
  loaded,        \* the voice the engine has loaded
  req, got,      \* each preparer's request, and the audio it holds
  \* background queue and configuration
  jobs, want, config, restoreFailed,
  pc,
  \* environment
  era,           \* clears confirmed so far
  tainted,       \* a confirmed clear failed or was cut short, and none since completed
  faults, configures, restarts

fileVars   == <<wav, json, litter>>
indexVars  == <<entries, older, memory, meta, lease, dirty>>
clearVars  == <<epoch, clearing, failed, era, tainted>>
countVars  == <<used, valid>>
optionVars == <<quota, enabled, diskEnabled, owned>>
localVars  == <<ioKey, pending, unavailable>>
ttsVars    == <<engine, loaded, req, got>>
jobVars    == <<jobs, want, config, restoreFailed, configures>>
vars == <<fileVars, indexVars, clearVars, countVars, optionVars, io, localVars,
          ttsVars, jobVars, pc, faults, restarts>>

Audio == [voice : Keys, era : 0..MaxClears]
Options == [quota : Quotas, enabled : BOOLEAN]
Clear == [clear |-> TRUE]
Background == "background"
Goto(t, label) == pc' = [pc EXCEPT ![t] = label]
Nothing == [k \in Keys |-> NoAudio]
NoRequest == [key |-> NoKey, epoch |-> 0, era |-> 0, skip |-> FALSE]

Init ==
  /\ wav = Nothing /\ json = Nothing /\ litter = 0
  /\ entries = {} /\ older = {} /\ memory = Nothing /\ meta = Nothing
  /\ lease = [k \in Keys |-> {}] /\ dirty = {}
  /\ epoch = 0 /\ clearing = FALSE /\ failed = FALSE /\ used = 0 /\ valid = TRUE
  /\ config \in [quota : FirstQuotas, enabled : {TRUE}]
  /\ quota = config.quota /\ enabled = config.enabled
  /\ diskEnabled = TRUE /\ owned = TRUE
  /\ io = Nobody /\ ioKey = NoKey /\ pending = {} /\ unavailable = {}
  /\ engine = Nobody /\ loaded = NoKey
  /\ req = [p \in Preparers |-> NoRequest]
  /\ got = [p \in Preparers |-> NoAudio]
  /\ jobs = <<>> /\ want = config /\ restoreFailed = FALSE /\ configures = 0
  /\ pc = [t \in Preparers \cup {Background} |-> IF t = Background THEN "take" ELSE "idle"]
  /\ era = 0 /\ tainted = FALSE /\ faults = 0 /\ restarts = 0

-----------------------------------------------------------------------------
(* Files and the bytes they take.                                          *)

Present(files) == {k \in Keys : files[k] # NoAudio}
Occupied == Cardinality(Present(wav)) + Cardinality(Present(json)) + litter

Fault == faults < MaxFaults /\ faults' = faults + 1
NoFault == faults' = faults

\* Mutated: a file is left out of the books.
AccountNothing == UNCHANGED countVars

\* AccountFile after a change of the directory: the difference is booked.
\* While the books are not valid nobody reads them.
AccountFile ==
  /\ used' = IF valid THEN (used + Occupied') - Occupied ELSE used
  /\ valid' = valid

\* Recount walks the directory of its owner, or throws and leaves the books unverified.
RecountBy(owner) ==
  \/ used' = (IF owner THEN Occupied' ELSE 0) /\ valid' = TRUE
  \/ owner /\ used' = used /\ valid' = FALSE

Recount == RecountBy(owned)

\* WriteBinaryFileAtomically of k, then AccountFile.
Written(file, k, audio) == file' = [file EXCEPT ![k] = audio]

\* A write that throws: before the replacement, perhaps leaving its temporary
\* sibling, or after it.  Every caller recounts.
NotWritten(file, k, audio) ==
  /\ \/ file' = file /\ litter' \in {litter, litter + 1}
     \/ file' = [file EXCEPT ![k] = audio] /\ litter' = litter
  /\ Recount

\* Remove of both files of k.
Removed(k) ==
  /\ wav' = [wav EXCEPT ![k] = NoAudio]
  /\ json' = [json EXCEPT ![k] = NoAudio]
  /\ litter' = litter
  /\ AccountFile

\* Remove that fails on one of the files, or on both, and recounts.
NotRemoved(k) ==
  /\ wav' \in {wav, [wav EXCEPT ![k] = NoAudio]}
  /\ json' \in {json, [json EXCEPT ![k] = NoAudio]}
  /\ litter' = litter
  /\ Recount

-----------------------------------------------------------------------------
(* The index, its recency order, and the buffers kept in memory.           *)

\* k becomes the most recently used of the entries es.
Newest(k, es) ==
  {pair \in older : k \notin {pair[1], pair[2]}} \cup {<<e, k>> : e \in es \ {k}}

\* TrimMemory: of the buffers m only the MemoryLimit most recent are kept.
Trimmed(m, order) ==
  [k \in Keys |->
     IF Cardinality({j \in Present(m) : <<k, j>> \in order}) < MemoryLimit
     THEN m[k] ELSE NoAudio]

Touch(k) ==
  /\ older' = Newest(k, entries)
  /\ dirty' = IF diskEnabled /\ meta[k] # NoAudio THEN dirty \cup {k} ELSE dirty

\* Erase of the keys gone from the index.
Erase(gone) ==
  /\ entries' = entries \ gone
  /\ older' = {pair \in older : {pair[1], pair[2]} \cap gone = {}}
  /\ memory' = [k \in Keys |-> IF k \in gone THEN NoAudio ELSE memory[k]]
  /\ meta' = [k \in Keys |-> IF k \in gone THEN NoAudio ELSE meta[k]]
  /\ lease' = [k \in Keys |-> IF k \in gone THEN {} ELSE lease[k]]
  /\ dirty' = dirty \ gone

-----------------------------------------------------------------------------
(* MakeRoom: put, flush and configure each call it while they hold io.     *)

Rooms == {"putRoom", "flushRoom", "applyRoom", "restoreRoom"}

Target(t) == IF pc[t] = "applyRoom" THEN want
             ELSE IF pc[t] = "restoreRoom" THEN config
             ELSE [quota |-> quota, enabled |-> enabled]

\* The files the caller is about to add: a pair, a temporary stamp, or none.
Need(t) == CASE pc[t] = "putRoom" -> 2 [] pc[t] = "flushRoom" -> 1 [] OTHER -> 0

Slots(t) == IF pc[t] = "putRoom" /\ ioKey \notin entries THEN 1 ELSE 0

\* Mutated: what the caller is about to add is not reserved.
FitsBeforeNeed(t) ==
  /\ valid
  /\ used <= Target(t).quota
  /\ Cardinality(entries) + Slots(t) <= EntryLimit

Fits(t) ==
  /\ valid
  /\ used + Need(t) <= Target(t).quota
  /\ Cardinality(entries) + Slots(t) <= EntryLimit

Pinned(k) == lease[k] # {}

Evictable(t) == {k \in entries \ unavailable : k # ioKey /\ ~Pinned(k)}

NoRoom(t) == ~valid \/ (~Fits(t) /\ Evictable(t) = {})

\* One turn of MakeRoom's loop: the least recently used entry that nobody
\* holds goes, or its files cannot be removed and it is passed over.
Evict(t) ==
  /\ pc[t] \in Rooms /\ io = t
  /\ valid /\ ~Fits(t)
  /\ \E k \in Evictable(t) :
       /\ \A other \in Evictable(t) \ {k} : <<k, other>> \in older
       /\ \/ /\ NoFault
             /\ IF owned THEN Removed(k) ELSE UNCHANGED <<fileVars, countVars>>
             /\ Erase({k})
             /\ UNCHANGED unavailable
          \/ /\ owned /\ Fault
             /\ NotRemoved(k)
             /\ unavailable' = unavailable \cup {k}
             /\ UNCHANGED indexVars
  /\ UNCHANGED <<clearVars, optionVars, io, ioKey, pending, ttsVars, jobVars, pc, restarts>>

\* CheckDirectory finds the directory changed since the books were verified.
CheckDirectory(t) ==
  /\ pc[t] \in Rooms /\ io = t
  /\ owned /\ ~valid
  /\ used' = Occupied /\ valid' = TRUE
  /\ UNCHANGED <<fileVars, indexVars, clearVars, optionVars, io, localVars, ttsVars,
                 jobVars, pc, faults, restarts>>

-----------------------------------------------------------------------------
(* TtsService::Prepare, up to its cache lookup.                            *)

StartPrepare(p) ==
  /\ pc[p] = "idle"
  /\ \E k \in Keys :
       req' = [req EXCEPT ![p] = [key |-> k, epoch |-> epoch, era |-> era, skip |-> FALSE]]
  /\ Goto(p, "clearing")
  /\ UNCHANGED <<fileVars, indexVars, clearVars, countVars, optionVars, io, localVars,
                 engine, loaded, got, jobVars, faults, restarts>>

ReadClearing(p) ==
  /\ pc[p] = "clearing"
  /\ req' = [req EXCEPT ![p].skip = clearing]
  /\ Goto(p, "wait")
  /\ UNCHANGED <<fileVars, indexVars, clearVars, countVars, optionVars, io, localVars,
                 engine, loaded, got, jobVars, faults, restarts>>

EnterEngine(p) ==
  /\ pc[p] = "wait" /\ engine = Nobody
  /\ engine' = p
  /\ Goto(p, IF req[p].skip THEN "load" ELSE "lookup")
  /\ UNCHANGED <<fileVars, indexVars, clearVars, countVars, optionVars, io, localVars,
                 loaded, req, got, jobVars, faults, restarts>>

\* The token is seen stopped, or the checks or the synthesis throw.
GiveUp(p) ==
  /\ pc[p] \in {"wait", "lookup", "load", "synth", "put"}
  /\ engine' = IF engine = p THEN Nobody ELSE engine
  /\ req' = [req EXCEPT ![p] = NoRequest]
  /\ got' = [got EXCEPT ![p] = NoAudio]
  /\ Goto(p, "idle")
  /\ UNCHANGED <<fileVars, indexVars, clearVars, countVars, optionVars, io, localVars,
                 loaded, jobVars, faults, restarts>>

\* Mutated: the epoch is not compared.
NeverOutOfDate(p) == FALSE

\* What Prepare asked for belongs to an epoch that is over, or is being cleared.
OutOfDate(p) == epoch # req[p].epoch \/ clearing

Hit(p) == enabled /\ ~OutOfDate(p) /\ req[p].key \in entries

LookupMiss(p) ==
  /\ pc[p] = "lookup" /\ io = Nobody
  /\ ~Hit(p)
  /\ Goto(p, "load")
  /\ UNCHANGED <<fileVars, indexVars, clearVars, countVars, optionVars, io, localVars,
                 ttsVars, jobVars, faults, restarts>>

\* The entry is touched even when there is nothing to read its audio from.
LookupHit(p) ==
  /\ pc[p] = "lookup" /\ io = Nobody
  /\ Hit(p)
  /\ LET k == req[p].key IN
     /\ Touch(k)
     /\ \/ /\ memory[k] # NoAudio
           /\ got' = [got EXCEPT ![p] = memory[k]]
           /\ lease' = [lease EXCEPT ![k] = @ \cup {p}]
           /\ io' = p /\ Goto(p, "hit")
        \/ /\ memory[k] = NoAudio /\ diskEnabled
           /\ io' = p /\ Goto(p, "read")
           /\ UNCHANGED <<got, lease>>
        \/ /\ memory[k] = NoAudio /\ ~diskEnabled
           /\ Goto(p, "load")
           /\ UNCHANGED <<got, lease, io>>
  /\ UNCHANGED <<fileVars, entries, memory, meta, clearVars, countVars, optionVars,
                 localVars, engine, loaded, req, jobVars, faults, restarts>>

\* The pair on disk is whole: the wav has the hash its json records.
Whole(k) == json[k] # NoAudio /\ wav[k] = json[k]

ReadWav(p) ==
  /\ pc[p] = "read"
  /\ LET k == req[p].key IN
     /\ Whole(k)
     /\ IF OutOfDate(p)
        THEN io' = Nobody /\ Goto(p, "load") /\ UNCHANGED <<got, lease>>
        ELSE /\ got' = [got EXCEPT ![p] = wav[k]]
             /\ lease' = [lease EXCEPT ![k] = {p}]
             /\ Goto(p, "install") /\ UNCHANGED io
  /\ UNCHANGED <<fileVars, entries, older, memory, meta, dirty, clearVars, countVars,
                 optionVars, localVars, engine, loaded, req, jobVars, faults, restarts>>

\* The pair is broken, or a file cannot be read: the entry is removed.
ReadFails(p) ==
  /\ pc[p] = "read"
  /\ \/ ~Whole(req[p].key) /\ NoFault
     \/ Fault
  /\ \/ Removed(req[p].key) /\ Erase({req[p].key})
     \/ faults' > faults /\ NotRemoved(req[p].key) /\ UNCHANGED indexVars
  /\ io' = Nobody /\ Goto(p, "load")
  /\ UNCHANGED <<clearVars, optionVars, localVars, ttsVars, jobVars, restarts>>

\* Nothing takes an entry away while io is held, so the entry is still there.
InstallRead(p) ==
  /\ pc[p] = "install"
  /\ LET k == req[p].key IN
     IF OutOfDate(p)
     THEN /\ got' = [got EXCEPT ![p] = NoAudio]
          /\ lease' = [lease EXCEPT ![k] = @ \ {p}]
          /\ io' = Nobody /\ Goto(p, "load")
          /\ UNCHANGED <<older, memory, meta, dirty>>
     ELSE /\ meta' = [meta EXCEPT ![k] = json[k]]
          /\ Touch(k)
          /\ memory' = Trimmed([memory EXCEPT ![k] = got[p]], older')
          /\ Goto(p, "hit")
          /\ UNCHANGED <<got, lease, io>>
  /\ UNCHANGED <<fileVars, entries, clearVars, countVars, optionVars, localVars,
                 engine, loaded, req, jobVars, faults, restarts>>

\* io is given back, and the locals of the operation that held it are gone.
LeaveIo == io' = Nobody /\ ioKey' = NoKey /\ pending' = {} /\ unavailable' = {}

\* Prepare returns: the engine is given back, the caller holds got[p].
Return(p) == engine' = Nobody /\ Goto(p, "hold")

HitReturns(p) ==
  /\ pc[p] = "hit"
  /\ LeaveIo /\ Return(p)
  /\ UNCHANGED <<fileVars, indexVars, clearVars, countVars, optionVars,
                 loaded, req, got, jobVars, faults, restarts>>

\* The caller is done with the audio.
Release(p) ==
  /\ pc[p] = "hold"
  /\ req' = [req EXCEPT ![p] = NoRequest]
  /\ got' = [got EXCEPT ![p] = NoAudio]
  /\ lease' = [k \in Keys |-> lease[k] \ {p}]
  /\ Goto(p, "idle")
  /\ UNCHANGED <<fileVars, entries, older, memory, meta, dirty, clearVars, countVars,
                 optionVars, io, localVars, engine, loaded, jobVars, faults, restarts>>

-----------------------------------------------------------------------------
(* A miss: EnsureLocked, the synthesis, and AudioCache::Put.               *)

\* Mutated: whatever is loaded will do.
AnyLoaded(p) == IF loaded = NoKey THEN req[p].key ELSE loaded

\* The voice in the engine once EnsureLocked has returned.
Ensured(p) == req[p].key

Load(p) ==
  /\ pc[p] = "load"
  /\ loaded' = Ensured(p)
  /\ Goto(p, "synth")
  /\ UNCHANGED <<fileVars, indexVars, clearVars, countVars, optionVars, io, localVars,
                 engine, req, got, jobVars, faults, restarts>>

\* engine_->Load throws after the voice before it has been unloaded.
LoadFails(p) ==
  /\ pc[p] = "load" /\ loaded # req[p].key
  /\ loaded' = NoKey
  /\ req' = [req EXCEPT ![p] = NoRequest]
  /\ engine' = Nobody
  /\ Goto(p, "idle")
  /\ UNCHANGED <<fileVars, indexVars, clearVars, countVars, optionVars, io, localVars,
                 got, jobVars, faults, restarts>>

Synthesize(p) ==
  /\ pc[p] = "synth"
  /\ got' = [got EXCEPT ![p] = [voice |-> loaded, era |-> req[p].era]]
  /\ Goto(p, "put")
  /\ UNCHANGED <<fileVars, indexVars, clearVars, countVars, optionVars, io, localVars,
                 engine, loaded, req, jobVars, faults, restarts>>

MayPut(p) == ~req[p].skip /\ enabled /\ ~OutOfDate(p) /\ quota >= 2

\* Put is not called, or returns at one of its checks.
SkipPut(p) ==
  /\ pc[p] = "put"
  /\ ~MayPut(p)
  /\ Return(p)
  /\ UNCHANGED <<fileVars, indexVars, clearVars, countVars, optionVars, io, localVars,
                 loaded, req, got, jobVars, faults, restarts>>

EnterPut(p) ==
  /\ pc[p] = "put" /\ io = Nobody
  /\ MayPut(p)
  /\ io' = p /\ ioKey' = req[p].key /\ unavailable' = {}
  /\ Goto(p, "putRoom")
  /\ UNCHANGED <<fileVars, indexVars, clearVars, countVars, optionVars, pending,
                 ttsVars, jobVars, faults, restarts>>

PutHasRoom(p) ==
  /\ pc[p] = "putRoom" /\ Fits(p)
  /\ Goto(p, IF diskEnabled THEN "putWav" ELSE "putIndex")
  /\ UNCHANGED <<fileVars, indexVars, clearVars, countVars, optionVars, io, localVars,
                 ttsVars, jobVars, faults, restarts>>

PutRefused(p) ==
  /\ pc[p] = "putRoom" /\ NoRoom(p)
  /\ LeaveIo /\ Return(p)
  /\ UNCHANGED <<fileVars, indexVars, clearVars, countVars, optionVars,
                 loaded, req, got, jobVars, faults, restarts>>

PutWav(p) ==
  /\ pc[p] = "putWav"
  /\ Written(wav, ioKey, got[p]) /\ UNCHANGED <<json, litter>> /\ AccountFile
  /\ Goto(p, "putJson")
  /\ UNCHANGED <<indexVars, clearVars, optionVars, io, localVars, ttsVars, jobVars,
                 faults, restarts>>

PutJson(p) ==
  /\ pc[p] = "putJson"
  /\ Written(json, ioKey, got[p]) /\ UNCHANGED <<wav, litter>> /\ AccountFile
  /\ Goto(p, "putIndex")
  /\ UNCHANGED <<indexVars, clearVars, optionVars, io, localVars, ttsVars, jobVars,
                 faults, restarts>>

\* A write throws: the files stay as they are and the index keeps what it had.
PutFails(p) ==
  /\ Fault
  /\ \/ pc[p] = "putWav" /\ json' = json /\ NotWritten(wav, ioKey, got[p])
     \/ pc[p] = "putJson" /\ wav' = wav /\ NotWritten(json, ioKey, got[p])
  /\ LeaveIo /\ Return(p)
  /\ UNCHANGED <<indexVars, clearVars, optionVars, loaded, req, got,
                 jobVars, restarts>>

PutIndex(p) ==
  /\ pc[p] = "putIndex" /\ ~OutOfDate(p)
  /\ LET k == ioKey IN
     /\ entries' = entries \cup {k}
     /\ older' = Newest(k, entries)
     /\ memory' = Trimmed([memory EXCEPT ![k] = got[p]], older')
     /\ meta' = [meta EXCEPT ![k] = IF diskEnabled THEN got[p] ELSE NoAudio]
     /\ lease' = [lease EXCEPT ![k] = {p}]
     /\ dirty' = dirty \ {k}
  /\ LeaveIo /\ Return(p)
  /\ UNCHANGED <<fileVars, clearVars, countVars, optionVars, loaded, req, got,
                 jobVars, faults, restarts>>

\* A clear was confirmed during the writes: the files are taken back, and the
\* index is left to FinishClear.
PutStale(p) ==
  /\ pc[p] = "putIndex" /\ OutOfDate(p)
  /\ \/ diskEnabled /\ NoFault /\ Removed(ioKey)
     \/ diskEnabled /\ Fault /\ NotRemoved(ioKey)
     \/ ~diskEnabled /\ NoFault /\ UNCHANGED <<fileVars, countVars>>
  /\ LeaveIo /\ Return(p)
  /\ UNCHANGED <<indexVars, clearVars, optionVars, loaded, req, got,
                 jobVars, restarts>>

-----------------------------------------------------------------------------
(* FlushDirty: the time of use goes to the json of every dirty entry.      *)

MayFlush == ~clearing /\ diskEnabled

\* On every 32nd hit, two entries at most.
HitFlush(p) ==
  /\ pc[p] = "hit" /\ MayFlush
  /\ \E batch \in SUBSET dirty :
       /\ Cardinality(batch) = (IF Cardinality(dirty) < 2 THEN Cardinality(dirty) ELSE 2)
       /\ pending' = batch /\ dirty' = dirty \ batch
  /\ Goto(p, "flush")
  /\ UNCHANGED <<fileVars, entries, older, memory, meta, lease, clearVars, countVars,
                 optionVars, io, ioKey, unavailable, ttsVars, jobVars, faults, restarts>>

\* FlushUsage at the end of a sequence or of the program: everything dirty.
FlushUsage(p) ==
  /\ pc[p] = "idle" /\ io = Nobody /\ MayFlush
  /\ dirty # {}
  /\ pending' = dirty /\ dirty' = {}
  /\ io' = p
  /\ Goto(p, "flush")
  /\ UNCHANGED <<fileVars, entries, older, memory, meta, lease, clearVars, countVars,
                 optionVars, ioKey, unavailable, ttsVars, jobVars, faults, restarts>>

FlushNext(p) ==
  /\ pc[p] = "flush"
  /\ UNCHANGED fileVars
  /\ \E k \in pending :
       /\ pending' = pending \ {k}
       /\ \/ /\ clearing \/ k \notin entries
             /\ UNCHANGED <<countVars, ioKey, unavailable, pc>>
          \/ /\ ~clearing /\ k \in entries /\ json[k] = NoAudio
             /\ Recount
             /\ UNCHANGED <<ioKey, unavailable, pc>>
          \/ /\ ~clearing /\ k \in entries /\ json[k] # NoAudio
             /\ ioKey' = k /\ unavailable' = {}
             /\ Goto(p, "flushRoom")
             /\ UNCHANGED countVars
  /\ UNCHANGED <<indexVars, clearVars, optionVars, io, ttsVars, jobVars,
                 faults, restarts>>

FlushHasRoom(p) ==
  /\ pc[p] = "flushRoom" /\ Fits(p)
  /\ Goto(p, "flushWrite")
  /\ UNCHANGED <<fileVars, indexVars, clearVars, countVars, optionVars, io, localVars,
                 ttsVars, jobVars, faults, restarts>>

FlushRefused(p) ==
  /\ pc[p] = "flushRoom" /\ NoRoom(p)
  /\ UNCHANGED fileVars /\ Recount
  /\ Goto(p, "flush")
  /\ UNCHANGED <<indexVars, clearVars, optionVars, io, localVars,
                 ttsVars, jobVars, faults, restarts>>

FlushWrite(p) ==
  /\ pc[p] = "flushWrite"
  /\ wav' = wav
  /\ \/ NoFault /\ Written(json, ioKey, meta[ioKey]) /\ litter' = litter /\ AccountFile
     \/ Fault /\ NotWritten(json, ioKey, meta[ioKey])
  /\ Goto(p, "flush")
  /\ UNCHANGED <<indexVars, clearVars, optionVars, io, localVars, ttsVars, jobVars,
                 restarts>>

\* Back to the Get that started it, or to the end of FlushUsage.
FlushEnds(p) ==
  /\ pc[p] = "flush" /\ pending = {}
  /\ LeaveIo
  /\ IF engine = p THEN Return(p) ELSE Goto(p, "idle") /\ UNCHANGED engine
  /\ UNCHANGED <<fileVars, indexVars, clearVars, countVars, optionVars,
                 loaded, req, got, jobVars, faults, restarts>>

-----------------------------------------------------------------------------
(* Clearing: BeginClear on the GUI thread, FinishClear in the background.  *)

ConfirmClear ==
  /\ era < MaxClears
  /\ epoch' = epoch + 1 /\ era' = era + 1
  /\ clearing' = TRUE
  /\ memory' = Nothing /\ dirty' = {}
  /\ jobs' = Append(jobs, Clear)
  /\ UNCHANGED <<fileVars, entries, older, meta, lease, failed, tainted, countVars,
                 optionVars, io, localVars, ttsVars, want, config, restoreFailed,
                 configures, pc, faults, restarts>>

\* Mutated: only what the index knows.
ClearEntries == entries

\* FinishClear removes what the index knows and what the directory holds.
ClearKeys == entries \cup (IF owned THEN Present(wav) \cup Present(json) ELSE {})

\* Mutated: with nothing to remove it returns at once.
FinishClearIfAny ==
  /\ pc[Background] = "take" /\ io = Nobody
  /\ jobs # <<>> /\ Head(jobs) = Clear
  /\ jobs' = Tail(jobs)
  /\ failed' = FALSE
  /\ IF ClearKeys = {} THEN UNCHANGED <<io, pending, pc>>
     ELSE io' = Background /\ pending' = ClearKeys /\ Goto(Background, "clear")
  /\ UNCHANGED <<fileVars, indexVars, epoch, clearing, era, tainted, countVars, optionVars,
                 ioKey, unavailable, ttsVars, want, config, restoreFailed, configures,
                 faults, restarts>>

FinishClear ==
  /\ pc[Background] = "take" /\ io = Nobody
  /\ jobs # <<>> /\ Head(jobs) = Clear
  /\ jobs' = Tail(jobs)
  /\ failed' = FALSE
  /\ io' = Background /\ pending' = ClearKeys
  /\ Goto(Background, "clear")
  /\ UNCHANGED <<fileVars, indexVars, epoch, clearing, era, tainted, countVars, optionVars,
                 ioKey, unavailable, ttsVars, want, config, restoreFailed, configures,
                 faults, restarts>>

ClearOne ==
  /\ pc[Background] = "clear"
  /\ \E k \in pending :
       /\ pending' = pending \ {k}
       /\ \/ /\ NoFault
             /\ IF owned THEN Removed(k) ELSE UNCHANGED <<fileVars, countVars>>
             /\ Erase({k})
             /\ failed' = failed
          \/ /\ owned /\ Fault
             /\ NotRemoved(k) /\ valid'
             /\ UNCHANGED indexVars
             /\ failed' = TRUE
  /\ UNCHANGED <<epoch, clearing, era, tainted, optionVars, io, ioKey, unavailable,
                 ttsVars, jobVars, pc, restarts>>

ClearEnds ==
  /\ pc[Background] = "clear" /\ pending = {}
  /\ NoFault
  /\ UNCHANGED fileVars
  /\ used' = (IF owned THEN Occupied ELSE 0) /\ valid' = TRUE
  /\ clearing' = FALSE
  /\ tainted' = failed
  /\ LeaveIo
  /\ Goto(Background, "take")
  /\ UNCHANGED <<indexVars, epoch, failed, era, optionVars, ttsVars, jobVars, restarts>>

\* Mutated: the exception path leaves the flag set.
ThrowKeepsClear == clearing' = clearing

\* The exception path gives up the clear, too.
ThrowEndsClear == clearing' = FALSE

\* An exception ends it: the directory cannot be listed, a removal cannot be
\* accounted for, or the last recount throws.
ClearThrows ==
  /\ pc[Background] = "clear" /\ owned
  /\ Fault
  /\ \/ UNCHANGED fileVars
     \/ \E k \in pending : wav' \in {wav, [wav EXCEPT ![k] = NoAudio]}
                        /\ json' \in {json, [json EXCEPT ![k] = NoAudio]}
                        /\ litter' = litter
  /\ used' = used /\ valid' = FALSE
  /\ ThrowEndsClear
  /\ failed' = TRUE /\ tainted' = TRUE
  /\ LeaveIo
  /\ Goto(Background, "take")
  /\ UNCHANGED <<indexVars, epoch, era, optionVars, ttsVars, jobVars, restarts>>

-----------------------------------------------------------------------------
(* The settings: Configure, then SaveConfig, then Configure back if either *)
(* throws.                                                                 *)

ApplySettings ==
  /\ configures < MaxConfigures
  /\ pc[Background] \in {"take", "clear"}
  /\ \A i \in DOMAIN jobs : jobs[i] = Clear
  /\ \E options \in Options : jobs' = Append(jobs, options)
  /\ configures' = configures + 1
  /\ UNCHANGED <<fileVars, indexVars, clearVars, countVars, optionVars, io, localVars,
                 ttsVars, want, config, restoreFailed, pc, faults, restarts>>

Configure ==
  /\ pc[Background] = "take" /\ io = Nobody
  /\ jobs # <<>> /\ Head(jobs) # Clear
  /\ want' = Head(jobs) /\ jobs' = Tail(jobs)
  /\ io' = Background
  /\ Goto(Background, "applyRoom")
  /\ UNCHANGED <<fileVars, indexVars, clearVars, countVars, optionVars, localVars,
                 ttsVars, config, restoreFailed, configures, faults, restarts>>

ConfigureApplies ==
  /\ pc[Background] \in {"applyRoom", "restoreRoom"} /\ Fits(Background)
  /\ quota' = Target(Background).quota /\ enabled' = Target(Background).enabled
  /\ LeaveIo
  /\ IF pc[Background] = "applyRoom"
     THEN Goto(Background, "save") /\ UNCHANGED <<want, restoreFailed>>
     ELSE Goto(Background, "take") /\ want' = config /\ restoreFailed' = FALSE
  /\ UNCHANGED <<fileVars, indexVars, clearVars, countVars, diskEnabled, owned, ttsVars,
                 jobs, config, configures, faults, restarts>>

ConfigureRefused ==
  /\ pc[Background] \in {"applyRoom", "restoreRoom"} /\ NoRoom(Background)
  /\ LeaveIo
  /\ IF pc[Background] = "applyRoom"
     THEN Goto(Background, "restore") /\ UNCHANGED <<want, restoreFailed>>
     ELSE Goto(Background, "take") /\ want' = config /\ restoreFailed' = TRUE
  /\ UNCHANGED <<fileVars, indexVars, clearVars, countVars, optionVars, ttsVars,
                 jobs, config, configures, faults, restarts>>

\* Mutated: the options stay although they could not be saved.
ForgetRestore == "take"

\* Where a save that throws goes on.
AfterSaveFails == "restore"

SaveConfig ==
  /\ pc[Background] = "save"
  /\ \/ NoFault /\ config' = want /\ restoreFailed' = FALSE /\ Goto(Background, "take")
     \/ Fault /\ UNCHANGED <<config, restoreFailed>> /\ Goto(Background, AfterSaveFails)
  /\ UNCHANGED <<fileVars, indexVars, clearVars, countVars, optionVars, io, localVars,
                 ttsVars, jobs, want, configures, restarts>>

Restore ==
  /\ pc[Background] = "restore" /\ io = Nobody
  /\ io' = Background
  /\ Goto(Background, "restoreRoom")
  /\ UNCHANGED <<fileVars, indexVars, clearVars, countVars, optionVars, localVars,
                 ttsVars, jobVars, faults, restarts>>

-----------------------------------------------------------------------------
(* The end of the process, at any step, and the constructor that follows.  *)

ClearPending == pc[Background] = "clear" \/ \E i \in DOMAIN jobs : jobs[i] = Clear

\* Pairs with both files of the recorded size.
Pairs == Present(wav) \cap Present(json)

\* The recency the persisted stamps give to the entries es; it may lag behind.
Orders(es) ==
  {o \in SUBSET (es \X es) :
     /\ \A a, b \in es : a # b => (<<a, b>> \in o <=> <<b, a>> \notin o)
     /\ \A a \in es : <<a, a>> \notin o
     /\ \A a, b, c \in es : <<a, b>> \in o /\ <<b, c>> \in o => <<a, c>> \in o}

Within(es, o) == {pair \in o : pair[1] \in es /\ pair[2] \in es}

\* Mutated: orphans are left where the constructor finds them.
KeepOrphans(keep, locked, o) ==
  /\ wav' = [k \in Keys |-> IF k \in keep \/ k \notin Pairs THEN wav[k] ELSE NoAudio]
  /\ json' = [k \in Keys |-> IF k \in keep \/ k \notin Pairs THEN json[k] ELSE NoAudio]
  /\ \A gone \in Pairs \ keep, kept \in keep : <<gone, kept>> \in o

\* The constructor sets the directory in order: what is neither a pair nor
\* locked goes, and then the oldest entries until the quota is met.
RecoverDirectory(keep, locked, o) ==
  /\ wav' = [k \in Keys |-> IF k \in keep \cup locked THEN wav[k] ELSE NoAudio]
  /\ json' = [k \in Keys |-> IF k \in keep \cup locked THEN json[k] ELSE NoAudio]
  /\ \A gone \in Pairs \ keep, kept \in keep : <<gone, kept>> \in o

WithinOptions(keep) ==
  /\ Occupied' <= config.quota
  /\ Cardinality(keep) <= EntryLimit

Recovers ==
  \E keep \in SUBSET Pairs, o \in Orders(Pairs),
     locked \in SUBSET ((Present(wav) \cup Present(json)) \ Pairs) :
    /\ IF locked = {} THEN NoFault ELSE Fault
    /\ RecoverDirectory(keep, locked, o)
    /\ litter' = 0
    /\ WithinOptions(keep)
    /\ keep # Pairs =>  \* no entry more than needed was evicted
         \/ Occupied' + 2 > config.quota
         \/ Cardinality(keep) + 1 > EntryLimit
    /\ entries' = keep /\ older' = Within(keep, o)
    /\ meta' = [k \in Keys |-> IF k \in keep THEN json[k] ELSE NoAudio]
    /\ used' = Occupied' /\ valid' = TRUE
    /\ diskEnabled' = TRUE /\ owned' = TRUE

\* It throws on the way, and the cache goes on in memory only.
RecoveryThrows ==
  /\ Fault
  /\ \E o \in Orders(Pairs), keep \in SUBSET Pairs,
        locked \in SUBSET ((Present(wav) \cup Present(json)) \ Pairs) :
       /\ RecoverDirectory(keep, locked, o)
       /\ litter' \in {0, litter}
       /\ \E es \in SUBSET keep :
            /\ entries' = es /\ older' = Within(es, o)
            /\ meta' = [k \in Keys |-> IF k \in es THEN json[k] ELSE NoAudio]
  /\ diskEnabled' = FALSE /\ owned' = TRUE
  /\ RecountBy(TRUE)

\* Another process holds owner.lock.
NotOwner ==
  /\ NoFault
  /\ UNCHANGED fileVars
  /\ entries' = {} /\ older' = {} /\ meta' = Nothing
  /\ diskEnabled' = FALSE /\ owned' = FALSE
  /\ used' = 0 /\ valid' = TRUE

Restart ==
  /\ restarts < MaxRestarts
  /\ restarts' = restarts + 1
  /\ Recovers \/ RecoveryThrows \/ NotOwner
  /\ memory' = Nothing /\ lease' = [k \in Keys |-> {}] /\ dirty' = {}
  /\ epoch' = 0 /\ clearing' = FALSE /\ failed' = FALSE
  /\ quota' = config.quota /\ enabled' = config.enabled
  /\ LeaveIo
  /\ engine' = Nobody /\ loaded' = NoKey
  /\ req' = [p \in Preparers |-> NoRequest]
  /\ got' = [p \in Preparers |-> NoAudio]
  /\ jobs' = <<>> /\ restoreFailed' = FALSE
  /\ pc' = [t \in DOMAIN pc |-> IF t = Background THEN "take" ELSE "idle"]
  /\ tainted' = (tainted \/ ~owned \/ ClearPending)
  /\ want' = config
  /\ UNCHANGED <<config, configures, era>>

-----------------------------------------------------------------------------
PrepareStep(p) ==
  \/ StartPrepare(p) \/ ReadClearing(p) \/ EnterEngine(p) \/ GiveUp(p)
  \/ LookupMiss(p) \/ LookupHit(p) \/ ReadWav(p) \/ ReadFails(p) \/ InstallRead(p)
  \/ HitReturns(p) \/ Release(p)
  \/ Load(p) \/ LoadFails(p) \/ Synthesize(p)
  \/ SkipPut(p) \/ EnterPut(p) \/ PutHasRoom(p) \/ PutRefused(p)
  \/ PutWav(p) \/ PutJson(p) \/ PutFails(p) \/ PutIndex(p) \/ PutStale(p)
  \/ HitFlush(p) \/ FlushUsage(p) \/ FlushNext(p) \/ FlushHasRoom(p) \/ FlushRefused(p)
  \/ FlushWrite(p) \/ FlushEnds(p)
  \/ Evict(p) \/ CheckDirectory(p)

BackgroundStep ==
  \/ FinishClear \/ ClearOne \/ ClearEnds \/ ClearThrows
  \/ Configure \/ ConfigureApplies \/ ConfigureRefused \/ SaveConfig \/ Restore
  \/ Evict(Background) \/ CheckDirectory(Background)

Next ==
  \/ \E p \in Preparers : PrepareStep(p)
  \/ BackgroundStep
  \/ ConfirmClear \/ ApplySettings
  \/ Restart

Spec == Init /\ [][Next]_vars

-----------------------------------------------------------------------------
(* Types, and what the cache promises.                                     *)

PreparerLabels ==
  {"idle", "clearing", "wait", "lookup", "read", "install", "hit", "load", "synth",
   "put", "putRoom", "putWav", "putJson", "putIndex", "hold",
   "flush", "flushRoom", "flushWrite"}

BackgroundLabels ==
  {"take", "clear", "applyRoom", "save", "restore", "restoreRoom"}

Contents == [Keys -> Audio \cup {NoAudio}]

FileTypes == wav \in Contents /\ json \in Contents /\ litter \in Nat

IndexTypes ==
  /\ entries \subseteq Keys /\ older \subseteq Keys \X Keys
  /\ memory \in Contents /\ meta \in Contents
  /\ lease \in [Keys -> SUBSET Preparers] /\ dirty \subseteq Keys

CounterTypes ==
  /\ epoch \in 0..MaxClears /\ era \in 0..MaxClears
  /\ clearing \in BOOLEAN /\ failed \in BOOLEAN /\ tainted \in BOOLEAN
  /\ used \in Nat /\ valid \in BOOLEAN
  /\ faults \in 0..MaxFaults /\ configures \in 0..MaxConfigures
  /\ restarts \in 0..MaxRestarts

OptionTypes ==
  /\ quota \in Quotas /\ enabled \in BOOLEAN
  /\ diskEnabled \in BOOLEAN /\ owned \in BOOLEAN
  /\ want \in Options /\ config \in Options /\ restoreFailed \in BOOLEAN
  /\ jobs \in Seq(Options \cup {Clear})

ControlTypes ==
  /\ io \in Preparers \cup {Background, Nobody}
  /\ ioKey \in Keys \cup {NoKey}
  /\ pending \subseteq Keys /\ unavailable \subseteq Keys
  /\ engine \in Preparers \cup {Nobody} /\ loaded \in Keys \cup {NoKey}
  /\ req \in [Preparers -> [key : Keys \cup {NoKey}, epoch : 0..MaxClears,
                            era : 0..MaxClears, skip : BOOLEAN]]
  /\ got \in [Preparers -> Audio \cup {NoAudio}]
  /\ DOMAIN pc = Preparers \cup {Background}
  /\ \A p \in Preparers : pc[p] \in PreparerLabels
  /\ pc[Background] \in BackgroundLabels

ClearUnderWay == pc[Background] = "clear" \/ \E i \in DOMAIN jobs : jobs[i] = Clear

\* The variables have their types, and a cache that calls itself clearing has a
\* clear ahead of it or under way, however the last one ended (FinishClear).
TypeOK ==
  /\ FileTypes /\ IndexTypes /\ CounterTypes /\ OptionTypes /\ ControlTypes
  /\ clearing => ClearUnderWay

\* Once a clear is over and nothing of it failed, no audio that was requested
\* before it is left: not in memory, not in a file, indexed or orphaned, and
\* not after a restart either (the epoch checks of Get and Put, BeginClear and
\* FinishClear of AudioCache.cpp).
ClearedIsGone ==
  ~clearing /\ ~tainted =>
    \A k \in Keys :
      /\ memory[k] # NoAudio => memory[k].era = era
      /\ owned /\ wav[k] # NoAudio => wav[k].era = era
      /\ owned /\ json[k] # NoAudio => json[k].era = era

Writing == {"putWav", "putJson", "flushWrite"}

\* The files of the cache, with the temporary sibling that a write is about
\* to add, never exceed the disk quota in force; the index and the memory keep
\* their limits (MakeRoom, TouchMetadata, TrimMemory, Configure).  Only after a
\* recovery that threw may the index be over its limit: the constructor indexes
\* every pair it finds, those a failed Put left behind too, before it makes room.
WithinLimits ==
  /\ diskEnabled =>
       Occupied + (IF \E p \in Preparers : pc[p] \in Writing THEN 1 ELSE 0) <= quota
  /\ diskEnabled \/ ~owned => Cardinality(entries) <= EntryLimit
  /\ Cardinality(Present(memory)) <= MemoryLimit

\* While the books are called valid they agree with the directory, whatever
\* failed or was taken back (AccountFile, Recount, Remove).
BooksAreTrue == owned /\ valid => used = Occupied

\* As long as no file operation has failed, the index and the directory agree
\* whenever nobody is at work on them, crashes included (Put's order of writes,
\* the constructor's recovery).
IndexMatchesDirectory ==
  faults = 0 /\ diskEnabled /\ ~clearing /\ io = Nobody =>
    /\ Present(wav) = entries /\ Present(json) = entries
    /\ litter = 0

\* Audio found under a key was made by that key's voice, whoever had the
\* engine before (EnsureLocked, the engine lock of Prepare).
RightVoice ==
  /\ \A k \in Keys : /\ memory[k] # NoAudio => memory[k].voice = k
                     /\ wav[k] # NoAudio => wav[k].voice = k
  /\ \A p \in Preparers : got[p] # NoAudio => got[p].voice = req[p].key

\* Between two changes of the settings the cache runs with the options in the
\* configuration, unless the user was told that restoring them failed
\* (configure_cache of CorpusRunPanel.cpp).
SettingsAreSaved ==
  pc[Background] = "take" /\ ~restoreFailed =>
    quota = config.quota /\ enabled = config.enabled

-----------------------------------------------------------------------------
(* Fairness: threads that can run do; a mutex that is released again and    *)
(* again is granted at last.  The user owes nothing.                        *)

Progress(p) ==
  \/ ReadClearing(p) \/ LookupMiss(p) \/ LookupHit(p) \/ ReadWav(p) \/ ReadFails(p)
  \/ InstallRead(p) \/ HitReturns(p) \/ Release(p) \/ Load(p) \/ Synthesize(p)
  \/ SkipPut(p) \/ EnterPut(p) \/ PutHasRoom(p) \/ PutRefused(p)
  \/ PutWav(p) \/ PutJson(p) \/ PutIndex(p) \/ PutStale(p)
  \/ FlushNext(p) \/ FlushHasRoom(p) \/ FlushRefused(p) \/ FlushWrite(p) \/ FlushEnds(p)
  \/ Evict(p)

FairSpec ==
  /\ Spec
  /\ \A p \in Preparers : WF_vars(Progress(p))
  /\ WF_vars(BackgroundStep)
  /\ SF_vars(FinishClear) /\ SF_vars(Configure) /\ SF_vars(Restore)

\* A clear the user confirmed comes to its end, failed or not, or the process
\* ends first (FinishClear's exception path, the background queue).
ClearComesToAnEnd == clearing ~> ~clearing

=============================================================================
