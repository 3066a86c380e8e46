--------------------------- MODULE RuntimeConfig ----------------------------
(***************************************************************************)
(* The configuration: the copy ApplicationRuntime keeps in memory, the     *)
(* file JsonConfigStore replaces, and the start that loads it.  Threads    *)
(* save one field each time (a field is what one caller's rollback puts    *)
(* back: the mapping, the comparison, the speech rate, the cache).         *)
(*                                                                         *)
(* config_save_mutex_ is the variable saver; config_mutex_ is held for     *)
(* short sections only, each of which is one step.  The static mutex of    *)
(* JsonConfigStore::Save is only ever taken under config_save_mutex_.  A   *)
(* step of the file system may fail, the process may end at any step, and  *)
(* somebody else may put a file of his own in place of the configuration   *)
(* (a newer version of the program, a text editor), though not between the *)
(* look at the existing file and its replacement.                          *)
(***************************************************************************)
EXTENDS Naturals

CONSTANTS
  Fields, Values,
  Threads,
  Owner,         \* the thread that saves a field
  Defaults,      \* AppConfig{}
  Nobody,
  MaxRequests,   \* bound on the calls of SaveConfig and UpdateConfig
  MaxFaults,     \* bound on the file operations that fail
  MaxForeign,    \* bound on the files others put in place
  MaxRestarts    \* bound on the ends of the process

ASSUME RuntimeConfigAssumption ==
  /\ Owner \in [Fields -> Threads]
  /\ Defaults \in [Fields -> Values]
  /\ Nobody \notin Threads
  /\ {MaxRequests, MaxFaults, MaxForeign, MaxRestarts} \subseteq Nat

VARIABLES
  target,     \* the configuration file
  backups,    \* the files moved aside as corrupt
  temp,       \* the temporary sibling of the save in progress
  up,         \* the process runs
  config,     \* config_
  allowed,    \* config_save_allowed_
  saver,      \* holder of config_save_mutex_
  snapshot, previous, \* its locals
  job,        \* what each thread saves
  pc,
  \* history
  accepted,   \* each field's last value that was loaded, saved or updated
  unsaved,    \* fields updated since they were last saved
  durable,    \* the file as last found at a start, reported saved or put in place
  read,       \* the start could read what it found, or moved it aside
  requests, faults, foreign, restarts

fileVars == <<target, backups, temp>>
saveVars == <<saver, snapshot, previous>>
boundVars == <<requests, faults, foreign, restarts>>
vars == <<fileVars, up, config, allowed, saveVars, job, pc, accepted, unsaved, durable, read, boundVars>>

Configs == [Fields -> Values]
\* No JSON, JSON whose fields have other types, a newer version, values that
\* the validation refuses.
Foreigners == {"missing", "corrupt", "mistyped", "future", "invalid"}
Unreadable == {"corrupt", "mistyped"}
Foreign(kind) == [kind |-> kind, values |-> Defaults]
Good(values) == [kind |-> "good", values |-> values]
Files == {Good(values) : values \in Configs} \cup {Foreign(kind) : kind \in Foreigners}
Jobs == [field : Fields, value : Values]
Labels == {"idle", "waiting", "check", "create", "write", "replace", "fail", "done"}

TypeOK ==
  /\ target \in Files /\ backups \subseteq Files /\ durable \in Files
  /\ temp \in {"none", "partial", "whole"}
  /\ {up, allowed, read} \subseteq BOOLEAN
  /\ {config, snapshot, previous, accepted} \subseteq Configs
  /\ saver \in Threads \cup {Nobody}
  /\ job \in [Threads -> Jobs \cup {Nobody}]
  /\ pc \in [Threads -> Labels]
  /\ unsaved \subseteq Fields

Init ==
  /\ target \in {Foreign("missing"), Good(Defaults)} /\ backups = {} /\ temp = "none"
  /\ up = FALSE /\ config = Defaults /\ allowed = TRUE
  /\ saver = Nobody /\ snapshot = Defaults /\ previous = Defaults
  /\ job = [t \in Threads |-> Nobody]
  /\ pc = [t \in Threads |-> "idle"]
  /\ accepted = Defaults /\ unsaved = {} /\ durable = target /\ read = TRUE
  /\ requests = 0 /\ faults = 0 /\ foreign = 0 /\ restarts = 0

Goto(t, label) == pc' = [pc EXCEPT ![t] = label]
Request == requests < MaxRequests /\ requests' = requests + 1
Fault == faults < MaxFaults /\ faults' = faults + 1
NoFault == faults' = faults

-----------------------------------------------------------------------------
(* The start                                                               *)

\* Load throws for the kinds that are not a configuration.  A file that cannot
\* be opened is treated as a corrupt one: one fault, such as somebody holding
\* it open, may stop the reading alone or the renaming too.
Begun(loaded, known) == /\ config' = loaded /\ accepted' = loaded /\ unsaved' = {} /\ read' = known

Loaded ==
  /\ target.kind \in {"good", "missing"}
  /\ Begun(target.values, TRUE) /\ allowed' = TRUE /\ NoFault
  /\ UNCHANGED fileVars

Refused ==
  /\ target.kind \in {"future", "invalid"}
  /\ Begun(Defaults, FALSE) /\ allowed' = FALSE /\ NoFault
  /\ UNCHANGED fileVars

BackedUp ==
  /\ target.kind # "missing"
  /\ (target.kind \in Unreadable /\ NoFault) \/ (target.kind \notin Unreadable /\ Fault)
  /\ Begun(Defaults, TRUE) /\ allowed' = TRUE
  /\ backups' = backups \cup {target} /\ target' = Foreign("missing")
  /\ UNCHANGED temp

BackupFailed ==
  /\ target.kind # "missing" /\ Fault
  /\ Begun(Defaults, FALSE) /\ allowed' = FALSE
  /\ UNCHANGED fileVars

LoadOrDefault ==
  /\ ~up /\ up' = TRUE /\ durable' = target
  /\ Loaded \/ Refused \/ BackedUp \/ BackupFailed
  /\ UNCHANGED <<saveVars, job, pc, requests, foreign, restarts>>

-----------------------------------------------------------------------------
(* UpdateConfig and SaveConfig                                             *)

UpdateConfig(f, v) ==
  /\ up /\ allowed /\ pc[Owner[f]] = "idle" /\ Request
  /\ config' = [config EXCEPT ![f] = v]
  /\ accepted' = [accepted EXCEPT ![f] = v] /\ unsaved' = unsaved \cup {f}
  /\ UNCHANGED <<fileVars, up, allowed, saveVars, job, pc, durable, read, faults, foreign, restarts>>

SaveConfig(f, v) ==
  LET t == Owner[f] IN
  /\ up /\ pc[t] = "idle" /\ Request
  /\ job' = [job EXCEPT ![t] = [field |-> f, value |-> v]]
  /\ Goto(t, "waiting")
  /\ UNCHANGED <<fileVars, up, config, allowed, saveVars, accepted, unsaved, durable, read,
                 faults, foreign, restarts>>

\* Mutated: config_save_mutex_ is not taken.
UpdateWithoutLock(t) ==
  /\ pc[t] = "waiting" /\ allowed
  /\ saver' = t /\ previous' = config
  /\ snapshot' = [config EXCEPT ![job[t].field] = job[t].value]
  /\ config' = snapshot'
  /\ Goto(t, "check")
  /\ UNCHANGED <<fileVars, up, allowed, job, accepted, unsaved, durable, read, boundVars>>

Update(t) ==
  /\ pc[t] = "waiting" /\ saver = Nobody /\ allowed
  /\ saver' = t /\ previous' = config
  /\ snapshot' = [config EXCEPT ![job[t].field] = job[t].value]
  /\ config' = snapshot'
  /\ Goto(t, "check")
  /\ UNCHANGED <<fileVars, up, allowed, job, accepted, unsaved, durable, read, boundVars>>

RefuseSave(t) ==
  /\ pc[t] = "waiting" /\ saver = Nobody /\ ~allowed
  /\ Goto(t, "idle") /\ job' = [job EXCEPT ![t] = Nobody]
  /\ UNCHANGED <<fileVars, up, config, allowed, saveVars, accepted, unsaved, durable, read, boundVars>>

-----------------------------------------------------------------------------
(* JsonConfigStore::Save                                                   *)

SaveStep(t, from, to) ==
  /\ pc[t] = from
  /\ \/ NoFault /\ Goto(t, to)
     \/ Fault /\ Goto(t, "fail")
  /\ UNCHANGED <<up, config, allowed, saveVars, job, accepted, unsaved, durable, read,
                 requests, foreign, restarts>>
Fails(t) == pc'[t] = "fail"

\* Mutated: a file that is there is not looked at.
RejectNothing(t) == SaveStep(t, "check", "create") /\ UNCHANGED fileVars

\* Of the fields of a file that is JSON, only the version is looked at.
RejectUnsafeExistingTarget(t) ==
  \/ /\ target.kind \in {"missing", "good", "mistyped", "invalid"}
     /\ SaveStep(t, "check", "create") /\ UNCHANGED fileVars
  \/ /\ target.kind \in {"corrupt", "future"}
     /\ pc[t] = "check" /\ Goto(t, "fail")
     /\ UNCHANGED <<fileVars, up, config, allowed, saveVars, job, accepted, unsaved, durable, read, boundVars>>

\* to_json, dump and CreateExclusive
CreateTemporary(t) ==
  /\ SaveStep(t, "create", "write")
  /\ temp' = IF Fails(t) THEN temp ELSE "partial"
  /\ UNCHANGED <<target, backups>>

\* Write, Flush and Close; any of them may fail with the file half written.
WriteTemporary(t) ==
  /\ SaveStep(t, "write", "replace")
  /\ temp' = IF Fails(t) THEN temp ELSE "whole"
  /\ UNCHANGED <<target, backups>>

\* What is found under a name once the temporary file has it.
Landed == IF temp = "whole" THEN Good(snapshot) ELSE Foreign("corrupt")

ReplaceFile(t) ==
  /\ SaveStep(t, "replace", "done")
  /\ target' = IF Fails(t) THEN target ELSE Landed
  /\ temp' = IF Fails(t) THEN temp ELSE "none"
  /\ UNCHANGED backups

\* Mutated: the whole configuration goes back to what it was.
RollBackEverything(t) ==
  /\ pc[t] = "fail" /\ Goto(t, "idle")
  /\ temp' = "none" /\ config' = previous
  /\ saver' = Nobody /\ job' = [job EXCEPT ![t] = Nobody]
  /\ UNCHANGED <<target, backups, up, allowed, snapshot, previous, accepted, unsaved, durable, read, boundVars>>

\* The temporary file goes first, or stays behind under a name nobody reads.
RollBack(t) ==
  /\ pc[t] = "fail" /\ Goto(t, "idle")
  /\ temp' = "none"
  /\ config' = [config EXCEPT ![job[t].field] = previous[job[t].field]]
  /\ saver' = Nobody /\ job' = [job EXCEPT ![t] = Nobody]
  /\ UNCHANGED <<target, backups, up, allowed, snapshot, previous, accepted, unsaved, durable, read, boundVars>>

Saved(t) ==
  /\ pc[t] = "done" /\ Goto(t, "idle")
  /\ accepted' = [accepted EXCEPT ![job[t].field] = job[t].value]
  /\ unsaved' = {f \in unsaved : snapshot[f] # accepted'[f]}
  /\ durable' = target
  /\ saver' = Nobody /\ job' = [job EXCEPT ![t] = Nobody]
  /\ read' = TRUE
  /\ UNCHANGED <<fileVars, up, config, allowed, snapshot, previous, boundVars>>

-----------------------------------------------------------------------------
(* The end of the process, and others                                      *)

ProcessEnds ==
  /\ up /\ up' = FALSE /\ restarts < MaxRestarts /\ restarts' = restarts + 1
  /\ saver' = Nobody /\ temp' = "none"
  /\ job' = [t \in Threads |-> Nobody] /\ pc' = [t \in Threads |-> "idle"]
  /\ UNCHANGED <<target, backups, config, allowed, snapshot, previous, accepted, unsaved, durable, read,
                 requests, faults, foreign>>

ForeignFile(kind) ==
  /\ saver = Nobody /\ foreign < MaxForeign /\ foreign' = foreign + 1
  /\ target' = Foreign(kind) /\ durable' = target'
  /\ UNCHANGED <<backups, temp, up, config, allowed, saveVars, job, pc, accepted, unsaved, read,
                 requests, faults, restarts>>

Save(t) ==
  \/ Update(t) \/ RefuseSave(t)
  \/ RejectUnsafeExistingTarget(t) \/ CreateTemporary(t) \/ WriteTemporary(t) \/ ReplaceFile(t)
  \/ RollBack(t) \/ Saved(t)

Next ==
  \/ LoadOrDefault \/ ProcessEnds
  \/ \E f \in Fields, v \in Values : UpdateConfig(f, v) \/ SaveConfig(f, v)
  \/ \E t \in Threads : Save(t)
  \/ \E kind \in Foreigners : ForeignFile(kind)

Spec == Init /\ [][Next]_vars
-----------------------------------------------------------------------------
(* Properties                                                              *)

\* ApplicationRuntime::SaveConfig, JsonConfigStore::LoadOrDefault and Save:
\* the configuration last loaded or reported saved, or the file somebody else
\* put in its place, is still the file or was moved aside, unless a save that
\* began later replaced it with a whole configuration.  A corrupt file or one
\* of a newer version is never replaced, nor is one that the start refused or
\* could not move aside.
Replaceable(file) == file.kind = "missing" \/ (file.kind \in {"good", "mistyped", "invalid"} /\ read)
NothingIsLost ==
  \/ target = durable
  \/ durable \in backups
  \/ target = Good(snapshot) /\ Replaceable(durable)

\* ApplicationRuntime::SaveConfig: a failed save takes back its own field and
\* no other; every field in memory is the last value that was accepted, or the
\* one a save in progress proposes.
MemoryIsAccepted ==
  up => \A f \in Fields :
    \/ config[f] = accepted[f]
    \/ \E t \in Threads : saver = t /\ job[t] = [field |-> f, value |-> config[f]]

\* ApplicationRuntime::SaveConfig: while nobody saves, the file has the value
\* memory has in every field but those updated since they were last saved; a
\* value whose save failed is not carried into the file by another save.
FileAgreesWithMemory ==
  up /\ allowed /\ saver = Nobody /\ target.kind = "good"
    => \A f \in Fields \ unsaved : target.values[f] = config[f]

=============================================================================
