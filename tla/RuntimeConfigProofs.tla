------------------------- MODULE RuntimeConfigProofs ------------------------
(***************************************************************************)
(* For any number of threads, fields and values, and any bounds: memory    *)
(* holds what was accepted, the file agrees with it, and no configuration  *)
(* is lost.  All three follow from one inductive invariant.                *)
(***************************************************************************)
EXTENDS RuntimeConfig, TLAPS

Saving == {"check", "create", "write", "replace", "fail", "done"}

\* Who is in the middle of a save holds the mutex and knows its job.
Locked ==
  /\ \A t \in Threads : pc[t] \in Saving <=> saver = t
  /\ \A t \in Threads : pc[t] # "idle" =>
       up /\ job[t] \in Jobs /\ Owner[job[t].field] = t
  /\ saver # Nobody => up /\ allowed

\* The field of the save in progress has its new value, and the old one is
\* at hand; every other field is what was accepted.
Proposed(f) == saver \in Threads /\ job[saver].field = f
MemoryInv ==
  /\ up => \A f \in Fields :
       IF Proposed(f) THEN config[f] = job[saver].value /\ previous[f] = accepted[f]
                      ELSE config[f] = accepted[f]
  /\ saver \in Threads => \A f \in Fields :
       IF Proposed(f) THEN snapshot[f] = job[saver].value
                      ELSE snapshot[f] = accepted[f] \/ f \in unsaved

\* Until it is replaced the file is the durable one, and when the save gets
\* there it is one that may be replaced.
Replaced == ~up \/ (saver \in Threads /\ pc[saver] = "done")
Kept == target = durable \/ durable \in backups
FileInv ==
  /\ up /\ allowed => read
  /\ Kept \/ (Replaced /\ target = Good(snapshot) /\ Replaceable(durable))
  /\ saver \in Threads =>
       /\ pc[saver] \in {"create", "write", "replace"} =>
            target.kind \in {"missing", "good", "mistyped", "invalid"}
       /\ pc[saver] = "replace" => temp = "whole"
       /\ pc[saver] = "done" => target = Good(snapshot)

AgreeInv ==
  up /\ allowed /\ target.kind = "good" /\ ~(saver \in Threads /\ pc[saver] = "done")
    => \A f \in Fields \ unsaved : target.values[f] = accepted[f]

Inv == TypeOK /\ Locked /\ MemoryInv /\ FileInv /\ AgreeInv

-----------------------------------------------------------------------------
(* What the parts of a step do                                             *)

LEMMA FileFacts ==
  /\ \A values \in Configs : Good(values) \in Files /\ Good(values).kind = "good"
                              /\ Good(values).values = values
  /\ \A kind \in Foreigners : Foreign(kind) \in Files /\ Foreign(kind).kind = kind
  /\ \A file \in Files : file.values \in Configs
                         /\ file.kind \in {"good"} \cup Foreigners
                         /\ (file.kind = "good" => file = Good(file.values))
  /\ Foreigners = {"missing", "corrupt", "mistyped", "future", "invalid"}
BY RuntimeConfigAssumption DEF Files, Good, Foreign, Foreigners, Configs

LEMMA InitInv == Init => Inv
<1> SUFFICES ASSUME Init PROVE Inv
    OBVIOUS
<1> USE DEF Init
<1>1. TypeOK
  BY FileFacts, RuntimeConfigAssumption DEF TypeOK, Configs, Foreigners, Labels
<1>2. Locked /\ MemoryInv
  BY RuntimeConfigAssumption DEF Locked, MemoryInv, Saving
<1>3. FileInv /\ AgreeInv
  BY RuntimeConfigAssumption DEF FileInv, Kept, Replaced, AgreeInv
<1> QED
  BY <1>1, <1>2, <1>3 DEF Inv

LEMMA LoadInv == Inv /\ LoadOrDefault => Inv'
<1> SUFFICES ASSUME Inv, LoadOrDefault PROVE Inv'
    OBVIOUS
<1> USE DEF Inv
<1>0. /\ ~up /\ up' = TRUE /\ durable' = target /\ UNCHANGED <<saver, snapshot, previous, job, pc>>
      /\ saver = Nobody /\ saver \notin Threads
  BY RuntimeConfigAssumption DEF LoadOrDefault, saveVars, Locked, TypeOK
<1>1. config' \in Configs /\ accepted' = config' /\ unsaved' = {}
  BY FileFacts, RuntimeConfigAssumption DEF LoadOrDefault, Loaded, Refused, BackedUp, BackupFailed, Begun, TypeOK, Configs
<1>2. temp' = temp /\ target' \in Files /\ backups' \subseteq Files
      /\ (target' = durable' \/ durable' \in backups')
  BY <1>0, FileFacts DEF LoadOrDefault, Loaded, Refused, BackedUp, BackupFailed, fileVars, TypeOK
<1>3. /\ allowed' \in BOOLEAN /\ read' \in BOOLEAN
      /\ allowed' => read' /\ (target'.kind = "good" => target'.values = config')
  BY FileFacts DEF LoadOrDefault, Loaded, Refused, BackedUp, BackupFailed, Begun, fileVars, TypeOK
<1>4. TypeOK'
  BY <1>0, <1>1, <1>2, <1>3 DEF TypeOK
<1>5. Locked' /\ MemoryInv'
  BY <1>0, <1>1 DEF Locked, MemoryInv, Proposed
<1>6. FileInv' /\ AgreeInv'
  BY <1>0, <1>1, <1>2, <1>3 DEF FileInv, Kept, AgreeInv
<1> QED
  BY <1>4, <1>5, <1>6

LEMMA UpdateConfigInv ==
  ASSUME NEW f \in Fields, NEW v \in Values, Inv, UpdateConfig(f, v)
  PROVE  Inv'
<1> USE DEF Inv
<1>1. /\ up /\ allowed /\ Owner[f] \in Threads /\ pc[Owner[f]] = "idle"
      /\ config' = [config EXCEPT ![f] = v] /\ accepted' = [accepted EXCEPT ![f] = v]
      /\ unsaved' = unsaved \cup {f}
      /\ UNCHANGED <<target, backups, temp, up, allowed, saver, snapshot, previous, job, pc, durable, read>>
  BY RuntimeConfigAssumption DEF UpdateConfig, fileVars, saveVars
<1>2. ~Proposed(f)
  BY <1>1 DEF Locked, Proposed, Saving
<1>3. TypeOK'
  BY <1>1 DEF TypeOK, Configs
<1>4. Locked'
  BY <1>1 DEF Locked
<1>5. MemoryInv'
  BY <1>1, <1>2 DEF MemoryInv, Proposed, TypeOK, Configs
<1>6. FileInv'
  BY <1>1 DEF FileInv, Kept, Replaced, Replaceable
<1>7. AgreeInv'
  BY <1>1 DEF AgreeInv, TypeOK, Configs
<1> QED
  BY <1>3, <1>4, <1>5, <1>6, <1>7

LEMMA SaveConfigInv ==
  ASSUME NEW f \in Fields, NEW v \in Values, Inv, SaveConfig(f, v)
  PROVE  Inv'
<1> USE DEF Inv
<1> DEFINE t == Owner[f]
<1>1. /\ up /\ t \in Threads /\ pc[t] = "idle" /\ pc' = [pc EXCEPT ![t] = "waiting"]
      /\ job' = [job EXCEPT ![t] = [field |-> f, value |-> v]] /\ [field |-> f, value |-> v] \in Jobs
      /\ UNCHANGED <<target, backups, temp, up, config, allowed, saver, snapshot, previous, accepted,
                     unsaved, durable, read>>
  BY RuntimeConfigAssumption DEF SaveConfig, Goto, fileVars, saveVars, Jobs
<1>2. saver # t
  BY <1>1 DEF Locked, Saving
<1>3. TypeOK'
  BY <1>1 DEF TypeOK, Labels
<1>4. Locked'
  BY <1>1, <1>2 DEF Locked, TypeOK, Saving
<1>5. saver \in Threads => job'[saver] = job[saver] /\ pc'[saver] = pc[saver]
  BY <1>1, <1>2 DEF TypeOK
<1>6. MemoryInv'
  BY <1>1, <1>5 DEF MemoryInv, Proposed
<1>7. FileInv' /\ AgreeInv'
  BY <1>1, <1>5 DEF FileInv, Kept, Replaced, Replaceable, AgreeInv
<1> QED
  BY <1>3, <1>4, <1>6, <1>7

LEMMA UpdateInv ==
  ASSUME NEW t \in Threads, Inv, Update(t)
  PROVE  Inv'
<1> USE DEF Inv
<1> DEFINE f == job[t].field
<1>1. /\ pc[t] = "waiting" /\ saver = Nobody /\ allowed /\ saver' = t /\ previous' = config
      /\ snapshot' = [config EXCEPT ![f] = job[t].value] /\ config' = snapshot'
      /\ pc' = [pc EXCEPT ![t] = "check"]
      /\ UNCHANGED <<target, backups, temp, up, allowed, job, accepted, unsaved, durable, read>>
  BY DEF Update, Goto, fileVars
<1>2. /\ job[t] \in Jobs /\ f \in Fields /\ job[t].value \in Values
      /\ saver \notin Threads /\ t # Nobody /\ pc'[t] = "check"
  BY <1>1, RuntimeConfigAssumption DEF Locked, Jobs, TypeOK
<1>3. up
  BY <1>1 DEF Locked
<1>4. TypeOK'
  BY <1>1, <1>2 DEF TypeOK, Configs, Labels
<1>5. Locked'
  BY <1>1, <1>2, <1>3 DEF Locked, TypeOK, Saving
<1>6. MemoryInv'
  BY <1>1, <1>2, <1>3 DEF MemoryInv, Proposed, TypeOK, Configs
<1>7. FileInv' /\ AgreeInv'
  BY <1>1, <1>2, <1>3 DEF FileInv, Kept, Replaced, AgreeInv
<1> QED
  BY <1>4, <1>5, <1>6, <1>7

LEMMA RefuseSaveInv ==
  ASSUME NEW t \in Threads, Inv, RefuseSave(t)
  PROVE  Inv'
<1> USE DEF Inv
<1>1. /\ pc[t] = "waiting" /\ saver = Nobody /\ ~allowed
      /\ pc' = [pc EXCEPT ![t] = "idle"] /\ job' = [job EXCEPT ![t] = Nobody]
      /\ UNCHANGED <<target, backups, temp, up, config, allowed, saver, snapshot, previous, accepted,
                     unsaved, durable, read>>
  BY DEF RefuseSave, Goto, fileVars, saveVars
<1>2. saver \notin Threads
  BY <1>1, RuntimeConfigAssumption
<1>3. TypeOK'
  BY <1>1 DEF TypeOK, Labels
<1>4. Locked'
  BY <1>1, <1>2 DEF Locked, TypeOK, Saving
<1>5. MemoryInv' /\ FileInv' /\ AgreeInv'
  BY <1>1, <1>2 DEF MemoryInv, Proposed, FileInv, Kept, Replaced, Replaceable, AgreeInv
<1> QED
  BY <1>3, <1>4, <1>5

\* A step of JsonConfigStore::Save moves the saver on, or makes it fail.
LEMMA SaveStepFacts ==
  ASSUME NEW t \in Threads, NEW from \in Saving \ {"done", "fail"}, NEW to \in Saving,
         Inv, SaveStep(t, from, to)
  PROVE  /\ saver = t /\ up /\ allowed /\ pc[t] = from /\ pc'[t] \in {to, "fail"}
         /\ pc' = [pc EXCEPT ![t] = pc'[t]]
         /\ UNCHANGED <<up, config, allowed, saver, snapshot, previous, job, accepted, unsaved,
                        durable, read>>
         /\ Locked' /\ MemoryInv'
         /\ Kept
<1> USE DEF Inv
<1>1. /\ pc[t] = from /\ pc' = [pc EXCEPT ![t] = pc'[t]] /\ pc'[t] \in {to, "fail"}
      /\ UNCHANGED <<up, config, allowed, saver, snapshot, previous, job, accepted, unsaved,
                     durable, read>>
  BY DEF SaveStep, Goto, saveVars, TypeOK
<1>2. saver = t /\ up /\ allowed
  BY <1>1, RuntimeConfigAssumption DEF Locked
<1>3. Locked'
  BY <1>1, <1>2 DEF Locked, TypeOK, Saving
<1>4. MemoryInv'
  BY <1>1 DEF MemoryInv, Proposed
<1>5. Kept
  BY <1>1, <1>2 DEF FileInv, Replaced
<1> QED
  BY <1>1, <1>2, <1>3, <1>4, <1>5

LEMMA RejectInv ==
  ASSUME NEW t \in Threads, Inv, RejectUnsafeExistingTarget(t)
  PROVE  Inv'
<1> USE DEF Inv
<1>1. CASE /\ target.kind \in {"missing", "good", "mistyped", "invalid"}
           /\ SaveStep(t, "check", "create") /\ UNCHANGED fileVars
  <2>1. UNCHANGED <<target, backups, temp>>
    BY <1>1 DEF fileVars
  <2>2. /\ saver = t /\ up /\ allowed /\ pc[t] = "check" /\ pc'[t] \in {"create", "fail"}
        /\ pc' = [pc EXCEPT ![t] = pc'[t]]
        /\ UNCHANGED <<up, config, allowed, saver, snapshot, previous, job, accepted, unsaved,
                       durable, read>>
        /\ Locked' /\ MemoryInv' /\ Kept
    BY <1>1, SaveStepFacts DEF Saving
  <2>3. TypeOK'
    BY <2>1, <2>2 DEF TypeOK, Labels
  <2>4. FileInv' /\ AgreeInv'
    BY <1>1, <2>1, <2>2 DEF FileInv, Kept, AgreeInv
  <2> QED
    BY <2>2, <2>3, <2>4
<1>2. CASE /\ pc[t] = "check" /\ Goto(t, "fail")
           /\ UNCHANGED <<fileVars, up, config, allowed, saveVars, job, accepted, unsaved, durable, read, boundVars>>
  <2>1. /\ pc' = [pc EXCEPT ![t] = "fail"] /\ pc'[t] = "fail"
        /\ UNCHANGED <<target, backups, temp, up, config, allowed, saver, snapshot, previous, job,
                       accepted, unsaved, durable, read>>
    BY <1>2 DEF Goto, fileVars, saveVars, TypeOK
  <2>2. saver = t /\ up /\ allowed
    BY <1>2, RuntimeConfigAssumption DEF Locked, Saving
  <2>3. TypeOK' /\ Locked'
    BY <1>2, <2>1, <2>2 DEF TypeOK, Labels, Locked, Saving
  <2>4. MemoryInv' /\ FileInv' /\ AgreeInv'
    BY <1>2, <2>1, <2>2 DEF MemoryInv, Proposed, FileInv, Kept, Replaced, AgreeInv
  <2> QED
    BY <2>3, <2>4
<1> QED
  BY <1>1, <1>2 DEF RejectUnsafeExistingTarget

LEMMA CreateInv ==
  ASSUME NEW t \in Threads, Inv, CreateTemporary(t)
  PROVE  Inv'
<1> USE DEF Inv
<1>1. temp' \in {temp, "partial"} /\ UNCHANGED <<target, backups>>
  BY DEF CreateTemporary
<1>2. /\ saver = t /\ up /\ allowed /\ pc[t] = "create" /\ pc'[t] \in {"write", "fail"}
      /\ pc' = [pc EXCEPT ![t] = pc'[t]]
      /\ UNCHANGED <<up, config, allowed, saver, snapshot, previous, job, accepted, unsaved,
                     durable, read>>
      /\ Locked' /\ MemoryInv' /\ Kept
  BY SaveStepFacts DEF Saving, CreateTemporary
<1>3. TypeOK'
  BY <1>1, <1>2 DEF TypeOK, Labels
<1>4. FileInv' /\ AgreeInv'
  BY <1>1, <1>2 DEF FileInv, Kept, AgreeInv
<1> QED
  BY <1>2, <1>3, <1>4

LEMMA WriteInv ==
  ASSUME NEW t \in Threads, Inv, WriteTemporary(t)
  PROVE  Inv'
<1> USE DEF Inv
<1>1. /\ temp' = IF pc'[t] = "fail" THEN temp ELSE "whole"
      /\ UNCHANGED <<target, backups>>
  BY DEF WriteTemporary, Fails
<1>2. /\ saver = t /\ up /\ allowed /\ pc[t] = "write" /\ pc'[t] \in {"replace", "fail"}
      /\ pc' = [pc EXCEPT ![t] = pc'[t]]
      /\ UNCHANGED <<up, config, allowed, saver, snapshot, previous, job, accepted, unsaved,
                     durable, read>>
      /\ Locked' /\ MemoryInv' /\ Kept
  BY SaveStepFacts DEF Saving, WriteTemporary
<1>3. TypeOK'
  BY <1>1, <1>2 DEF TypeOK, Labels
<1>4. FileInv' /\ AgreeInv'
  BY <1>1, <1>2 DEF FileInv, Kept, AgreeInv
<1> QED
  BY <1>2, <1>3, <1>4

LEMMA ReplaceInv ==
  ASSUME NEW t \in Threads, Inv, ReplaceFile(t)
  PROVE  Inv'
<1> USE DEF Inv
<1>1. /\ target' = IF pc'[t] = "fail" THEN target ELSE Landed
      /\ temp' = IF pc'[t] = "fail" THEN temp ELSE "none"
      /\ backups' = backups
  BY DEF ReplaceFile, Fails
<1>2. /\ saver = t /\ up /\ allowed /\ pc[t] = "replace" /\ pc'[t] \in {"done", "fail"}
      /\ pc' = [pc EXCEPT ![t] = pc'[t]]
      /\ UNCHANGED <<up, config, allowed, saver, snapshot, previous, job, accepted, unsaved,
                     durable, read>>
      /\ Locked' /\ MemoryInv' /\ Kept
  BY SaveStepFacts DEF Saving, ReplaceFile
<1>3. Landed = Good(snapshot) /\ Good(snapshot) \in Files
  BY <1>2, FileFacts DEF Landed, FileInv, TypeOK
<1>4. TypeOK'
  BY <1>1, <1>2, <1>3 DEF TypeOK, Labels
<1>5. target = durable => Replaceable(durable)
  BY <1>2 DEF FileInv, Replaceable
<1>6. FileInv'
  <2>1. CASE pc'[t] = "fail"
    BY <1>1, <1>2, <2>1 DEF FileInv, Kept
  <2>2. CASE pc'[t] = "done"
    <3>1. target' = Good(snapshot')
      BY <1>1, <1>2, <1>3, <2>2
    <3>2. Replaced'
      BY <1>2, <2>2 DEF Replaced
    <3>3. Kept' \/ Replaceable(durable)'
      BY <1>1, <1>2, <1>5 DEF Kept, Replaceable
    <3> QED
      BY <1>2, <2>2, <3>1, <3>2, <3>3 DEF FileInv
  <2> QED
    BY <1>2, <2>1, <2>2
<1>7. AgreeInv'
  BY <1>1, <1>2 DEF AgreeInv
<1> QED
  BY <1>2, <1>4, <1>6, <1>7

LEMMA RollBackInv ==
  ASSUME NEW t \in Threads, Inv, RollBack(t)
  PROVE  Inv'
<1> USE DEF Inv
<1> DEFINE f == job[t].field
<1>1. /\ pc[t] = "fail" /\ pc' = [pc EXCEPT ![t] = "idle"] /\ temp' = "none"
      /\ config' = [config EXCEPT ![f] = previous[f]]
      /\ saver' = Nobody /\ job' = [job EXCEPT ![t] = Nobody]
      /\ UNCHANGED <<target, backups, up, allowed, snapshot, previous, accepted, unsaved, durable, read>>
  BY DEF RollBack, Goto
<1>2. saver = t /\ saver \in Threads /\ up /\ allowed /\ f \in Fields /\ Nobody \notin Threads
  BY <1>1, RuntimeConfigAssumption DEF Locked, Saving, Jobs
<1>3. TypeOK'
  BY <1>1, <1>2 DEF TypeOK, Configs, Labels
<1>4. Locked'
  BY <1>1, <1>2 DEF Locked, TypeOK, Saving
<1>5. MemoryInv'
  BY <1>1, <1>2 DEF MemoryInv, Proposed, TypeOK, Configs
<1>6. FileInv' /\ AgreeInv'
  BY <1>1, <1>2 DEF FileInv, Kept, Replaced, AgreeInv
<1> QED
  BY <1>3, <1>4, <1>5, <1>6

LEMMA SavedInv ==
  ASSUME NEW t \in Threads, Inv, Saved(t)
  PROVE  Inv'
<1> USE DEF Inv
<1> DEFINE f == job[t].field
<1>1. /\ pc[t] = "done" /\ pc' = [pc EXCEPT ![t] = "idle"]
      /\ accepted' = [accepted EXCEPT ![f] = job[t].value]
      /\ unsaved' = {g \in unsaved : snapshot[g] # accepted'[g]}
      /\ durable' = target /\ read' = TRUE
      /\ saver' = Nobody /\ job' = [job EXCEPT ![t] = Nobody]
      /\ UNCHANGED <<target, backups, temp, up, config, allowed, snapshot, previous>>
  BY DEF Saved, Goto, fileVars
<1>2. /\ saver = t /\ saver \in Threads /\ up /\ allowed /\ Nobody \notin Threads
      /\ f \in Fields /\ job[t].value \in Values
  BY <1>1, RuntimeConfigAssumption DEF Locked, Saving, Jobs
<1>3. TypeOK'
  BY <1>1, <1>2 DEF TypeOK, Configs, Labels
<1>4. Locked'
  BY <1>1, <1>2 DEF Locked, TypeOK, Saving
<1>5. MemoryInv'
  BY <1>1, <1>2 DEF MemoryInv, Proposed, TypeOK, Configs
<1>6. FileInv'
  BY <1>1, <1>2 DEF FileInv, Kept
<1>7. AgreeInv'
  <2>1. target'.values = snapshot
    BY <1>1, <1>2, FileFacts DEF FileInv, TypeOK
  <2>2. ASSUME NEW g \in Fields, g \notin unsaved' PROVE snapshot[g] = accepted'[g]
    <3>1. CASE g \in unsaved
      BY <1>1, <2>2, <3>1
    <3>2. CASE g \notin unsaved /\ g # f
      BY <1>1, <1>2, <3>2 DEF MemoryInv, Proposed, TypeOK, Configs
    <3>3. CASE g = f
      BY <1>1, <1>2, <3>3 DEF MemoryInv, Proposed, TypeOK, Configs
    <3> QED
      BY <3>1, <3>2, <3>3
  <2> QED
    BY <2>1, <2>2 DEF AgreeInv
<1> QED
  BY <1>3, <1>4, <1>5, <1>6, <1>7

LEMMA ProcessEndsInv == Inv /\ ProcessEnds => Inv'
<1> SUFFICES ASSUME Inv, ProcessEnds PROVE Inv'
    OBVIOUS
<1> USE DEF Inv
<1>1. /\ up' = FALSE /\ saver' = Nobody /\ saver' \notin Threads /\ temp' = "none"
      /\ job' = [t \in Threads |-> Nobody] /\ pc' = [t \in Threads |-> "idle"]
      /\ UNCHANGED <<target, backups, config, allowed, snapshot, previous, accepted, unsaved, durable, read>>
  BY RuntimeConfigAssumption DEF ProcessEnds
<1>2. TypeOK'
  BY <1>1 DEF TypeOK, Labels
<1>3. Locked' /\ MemoryInv' /\ AgreeInv'
  BY <1>1 DEF Locked, MemoryInv, AgreeInv, Saving
<1>4. FileInv'
  BY <1>1 DEF FileInv, Kept, Replaced, Replaceable
<1> QED
  BY <1>2, <1>3, <1>4

LEMMA ForeignFileInv ==
  ASSUME NEW kind \in Foreigners, Inv, ForeignFile(kind)
  PROVE  Inv'
<1> USE DEF Inv
<1>1. /\ saver = Nobody /\ saver \notin Threads /\ target' = Foreign(kind) /\ durable' = target'
      /\ UNCHANGED <<backups, temp, up, config, allowed, saver, snapshot, previous, job, pc, accepted,
                     unsaved, read>>
  BY RuntimeConfigAssumption DEF ForeignFile, saveVars
<1>2. target' \in Files /\ target'.kind # "good"
  BY <1>1, FileFacts
<1>3. TypeOK'
  BY <1>1, <1>2 DEF TypeOK
<1>4. Locked' /\ MemoryInv'
  BY <1>1 DEF Locked, MemoryInv, Proposed
<1>5. FileInv' /\ AgreeInv'
  BY <1>1, <1>2 DEF FileInv, Kept, AgreeInv
<1> QED
  BY <1>3, <1>4, <1>5

-----------------------------------------------------------------------------
(* The theorems                                                            *)

LEMMA NextInv == Inv /\ [Next]_vars => Inv'
<1> SUFFICES ASSUME Inv, [Next]_vars PROVE Inv'
    OBVIOUS
<1>1. CASE LoadOrDefault
  BY <1>1, LoadInv
<1>2. CASE ProcessEnds
  BY <1>2, ProcessEndsInv
<1>3. ASSUME NEW f \in Fields, NEW v \in Values, UpdateConfig(f, v) PROVE Inv'
  BY <1>3, UpdateConfigInv
<1>4. ASSUME NEW f \in Fields, NEW v \in Values, SaveConfig(f, v) PROVE Inv'
  BY <1>4, SaveConfigInv
<1>5. ASSUME NEW t \in Threads, Save(t) PROVE Inv'
  BY <1>5, UpdateInv, RefuseSaveInv, RejectInv, CreateInv, WriteInv, ReplaceInv, RollBackInv, SavedInv
     DEF Save
<1>6. ASSUME NEW kind \in Foreigners, ForeignFile(kind) PROVE Inv'
  BY <1>6, ForeignFileInv
<1>7. CASE UNCHANGED vars
  BY <1>7 DEF vars, fileVars, saveVars, Inv, TypeOK, Locked, MemoryInv, Proposed, FileInv, Kept,
     Replaced, Replaceable, AgreeInv
<1> QED
  BY <1>1, <1>2, <1>3, <1>4, <1>5, <1>6, <1>7 DEF Next

LEMMA InvImplies == Inv => NothingIsLost /\ MemoryIsAccepted /\ FileAgreesWithMemory
<1> SUFFICES ASSUME Inv PROVE NothingIsLost /\ MemoryIsAccepted /\ FileAgreesWithMemory
    OBVIOUS
<1> USE DEF Inv
<1>1. NothingIsLost
  BY DEF FileInv, Kept, NothingIsLost
<1>2. MemoryIsAccepted
  <2> SUFFICES ASSUME up, NEW f \in Fields, config[f] # accepted[f]
               PROVE  \E t \in Threads : saver = t /\ job[t] = [field |-> f, value |-> config[f]]
      BY DEF MemoryIsAccepted
  <2>1. saver \in Threads /\ job[saver].field = f /\ job[saver].value = config[f]
    BY DEF MemoryInv, Proposed
  <2>2. job[saver] \in Jobs
    BY <2>1 DEF Locked, Saving
  <2> QED
    BY <2>1, <2>2 DEF Jobs
<1>3. FileAgreesWithMemory
  BY RuntimeConfigAssumption DEF FileAgreesWithMemory, AgreeInv, MemoryInv, Proposed
<1> QED
  BY <1>1, <1>2, <1>3

\* The state of the configuration is well typed and the inductive invariant
\* holds, for any threads, fields, values and bounds.
THEOREM InvHolds == Spec => []Inv
<1> QED
  BY InitInv, NextInv, PTL DEF Spec

\* JsonConfigStore::LoadOrDefault and Save: whatever file operations fail and
\* wherever the process ends, no configuration that was loaded, reported
\* saved or put in place by others is lost, and no file is replaced that is not
\* JSON, is of a newer version, or could be neither loaded nor moved aside.
THEOREM NeverLost == Spec => []NothingIsLost
<1> QED
  BY InvHolds, InvImplies, PTL

\* ApplicationRuntime::SaveConfig: a failed save takes back its own field and
\* no other, however the saves and updates of other threads interleave.
THEOREM RollbackIsScoped == Spec => []MemoryIsAccepted
<1> QED
  BY InvHolds, InvImplies, PTL

\* ApplicationRuntime::SaveConfig: between two saves the file and memory agree
\* in every field but those only updated.
THEOREM FileAgrees == Spec => []FileAgreesWithMemory
<1> QED
  BY InvHolds, InvImplies, PTL
=============================================================================
