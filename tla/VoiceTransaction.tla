--------------------------- MODULE VoiceTransaction ---------------------------
(***************************************************************************)
(* The offline publication of one voice by prepare_downloaded_voices.py,   *)
(* with the desktop readers it has to keep out.  A preparer is a run of    *)
(* the script: it recovers what earlier runs left, stages and plans a new  *)
(* version outside the lease, then publishes it file by file under a       *)
(* marker and commits or rolls back.  It may raise or be killed anywhere.  *)
(*                                                                         *)
(* A file is known by its inode: the original, the candidate of a          *)
(* transaction (staged files are hard-linked into place, so every file a   *)
(* transaction publishes is that transaction's inode) or one a user wrote. *)
(* Preparing the same download gives the same bytes each time, so the      *)
(* candidates of all transactions have equal digests.  The last item is    *)
(* model.json.  The .replace and .restore links of one durable_replace are *)
(* private to their transaction and are part of the step that uses them.   *)
(* require_offline looks for running desktops before each lease; a reader  *)
(* here is one that was started after it looked.                           *)
(***************************************************************************)
EXTENDS Integers, FiniteSets

CONSTANTS
  Preparers,        \* processes that run the script
  Readers,          \* desktops that load the voice
  Last,             \* number of files of a plan; the last one is model.json
  Installations,    \* which of the planned files are there before the first run
  MaxTransactions,  \* bound on the transactions
  MaxFaults,        \* bound on the operations that raise
  MaxCrashes,       \* bound on the processes that are killed
  MaxEdits,         \* bound on the files the user replaces
  MaxLoads,         \* bound on the attempts to load the voice
  Interrupts,       \* whether an interrupt may hit a publication that is done
  NoOne

ASSUME VoiceTransactionAssumption ==
  /\ Last \in Nat \ {0}
  /\ Installations \subseteq SUBSET (1..Last) /\ Installations # {}
  /\ {MaxTransactions, MaxFaults, MaxCrashes, MaxEdits, MaxLoads} \subseteq Nat
  /\ Interrupts \in BOOLEAN
  /\ IsFiniteSet(Preparers) /\ IsFiniteSet(Readers)
  /\ NoOne \notin Preparers

VARIABLES
  \* the disk
  file,      \* the inode at each planned path
  marker,    \* the transaction .preparation-incomplete.json names
  stage,     \* the stage of each journal
  before,    \* the inodes each journal has seen while planning
  backup,    \* the inodes linked into each backup directory
  \* the lease of the voice
  owner,     \* the preparer that owns the mutex
  barrier,   \* it holds a DELETE handle on model.json
  \* processes
  prep,      \* the state of each preparer
  reader,    \* the state of each reader
  \* environment
  installed, \* the files that were there before the first run
  replaced,  \* the files the user has replaced since
  faults, crashes, edits, loads

diskVars  == <<file, marker, stage, before, backup>>
leaseVars == <<owner, barrier>>
envVars   == <<installed, replaced, crashes, edits, loads>>
vars == <<diskVars, leaseVars, prep, reader, faults, envVars>>

Items == 1..Last
Transactions == 1..MaxTransactions
NoMarker == 0
Original == 0
Absent == -1
Alien == -2 - edits   \* the file the user writes next
Inodes == (-2 - MaxEdits)..MaxTransactions

\* What a digest tells apart.
Prepared == 1
Digest(inode) == IF inode \in Transactions THEN Prepared ELSE inode

Unused == "NONE"
Stages == {Unused, "CREATED", "STAGED", "BACKED_UP", "PUBLISHING", "DEPLOYED_PROBE",
           "READY_TO_COMMIT", "COMMITTED", "ROLLING_BACK", "ROLLED_BACK",
           "RECOVERY_BLOCKED", "ABORTED"}

InPublish  == {"replace", "deploy", "probe", "config", "commit", "clear", "leave"}
InRollback == {"check", "restore", "verify", "unmark"}
Labels == {"idle", "recover", "unresolved", "plan", "publish", "backup", "mark",
           "publishing", "rollback", "block"} \cup InPublish \cup InRollback

\* mine: the transaction in hand is this run's own, not one it recovers.
Idle == [at |-> "idle", txn |-> NoMarker, mine |-> FALSE, item |-> 1, todo |-> {}]
Closed == [at |-> "closed", item |-> 1, read |-> {}]

Init ==
  /\ installed \in Installations /\ replaced = {}
  /\ file = [i \in Items |-> IF i \in installed THEN Original ELSE Absent]
  /\ marker = NoMarker
  /\ stage = [k \in Transactions |-> Unused]
  /\ before = [k \in Transactions |-> [i \in Items |-> Absent]]
  /\ backup = [k \in Transactions |-> [i \in Items |-> Absent]]
  /\ owner = NoOne /\ barrier = FALSE
  /\ prep = [p \in Preparers |-> Idle]
  /\ reader = [r \in Readers |-> Closed]
  /\ faults = 0 /\ crashes = 0 /\ edits = 0 /\ loads = 0

-----------------------------------------------------------------------------
(* The lease, exceptions and the journal.                                  *)

\* A reader has model.json open without sharing DELETE.
Held == \E r \in Readers : reader[r].at # "closed"

\* directory_lease: the mutex, and the handle that keeps readers out unless the
\* marker already does.
Lease(p) ==
  /\ owner = NoOne
  /\ file[Last] # Absent => ~Held
  /\ owner' = p
  /\ barrier' = (file[Last] # Absent /\ marker = NoMarker)

\* Mutated: the handle on model.json outlives the lease.
ReleaseMutexOnly(p) ==
  /\ owner' = IF owner = p THEN NoOne ELSE owner
  /\ barrier' = barrier

Release(p) ==
  /\ owner' = IF owner = p THEN NoOne ELSE owner
  /\ barrier' = (barrier /\ owner # p)

At(p, label) == prep[p].at = label
Goto(p, label) == prep' = [prep EXCEPT ![p].at = label]
GotoItem(p, label, i) == prep' = [prep EXCEPT ![p].at = label, ![p].item = i]
End(p) == prep' = [prep EXCEPT ![p] = Idle] /\ Release(p)

\* Where an exception goes: publication rolls back, a rollback blocks, and
\* everything else leaves the leases and ends the run of this voice.
Raise(p) ==
  \/ prep[p].at \in InPublish /\ Goto(p, "rollback") /\ UNCHANGED leaseVars
  \/ prep[p].at \in InRollback /\ Goto(p, "block") /\ UNCHANGED leaseVars
  \/ prep[p].at \notin InPublish \cup InRollback /\ End(p)

Record(k, s) == stage' = [stage EXCEPT ![k] = s]

\* An operation that only records its stage and goes on.
Recorded(p, from, s, to) ==
  /\ At(p, from)
  /\ Record(prep[p].txn, s)
  /\ Goto(p, to)
  /\ UNCHANGED <<file, marker, before, backup, leaseVars, reader, faults, envVars>>

\* An operation that raises because of what it finds.
Refuses(p, label, reason) ==
  /\ At(p, label) /\ reason
  /\ Raise(p)
  /\ UNCHANGED <<diskVars, reader, faults, envVars>>

-----------------------------------------------------------------------------
(* A run: recover, stage, plan.                                            *)

\* The directory of the voice is there, from an installation or an earlier run.
Start(p) ==
  /\ At(p, "idle")
  /\ Lease(p)
  /\ prep' = [prep EXCEPT ![p] = [Idle EXCEPT !.at = "recover",
                                    !.todo = {k \in Transactions : stage[k] # Unused}]]
  /\ UNCHANGED <<diskVars, reader, faults, envVars>>

Settled(s) == s \in {"ROLLED_BACK", "ABORTED"}
ToAbort(s) == s \in {"CREATED", "STAGED"}

\* Mutated: a blocked recovery is taken for a finished one.
ToRollBackOnce(s) == ~Settled(s) /\ ~ToAbort(s) /\ s \notin {"COMMITTED", "RECOVERY_BLOCKED"}

ToRollBack(s) == ~Settled(s) /\ ~ToAbort(s) /\ s # "COMMITTED"

Published == \A i \in Items : Digest(file[i]) = Prepared

\* recover goes through the journals by name; names are random.
RecoverNext(p, k) ==
  /\ At(p, "recover") /\ k \in prep[p].todo
  /\ \/ /\ Settled(stage[k]) \/ (stage[k] = "COMMITTED" /\ marker # k)
        /\ UNCHANGED <<stage, marker>>
     \/ ToAbort(stage[k]) /\ Record(k, "ABORTED") /\ UNCHANGED marker
     \/ /\ stage[k] = "COMMITTED" /\ marker = k /\ Published
        /\ marker' = NoMarker /\ UNCHANGED stage
  /\ prep' = [prep EXCEPT ![p].todo = @ \ {k}]
  /\ UNCHANGED <<file, before, backup, leaseVars, reader, faults, envVars>>

RecoverRollsBack(p, k) ==
  /\ At(p, "recover") /\ k \in prep[p].todo /\ ToRollBack(stage[k])
  /\ prep' = [prep EXCEPT ![p] = [Idle EXCEPT !.at = "rollback", !.txn = k, !.todo = prep[p].todo \ {k}]]
  /\ UNCHANGED <<diskVars, leaseVars, reader, faults, envVars>>

RecoverRefused(p) ==
  Refuses(p, "recover", \E k \in prep[p].todo : stage[k] = "COMMITTED" /\ marker = k /\ ~Published)

RecoverFindsMarker(p) ==
  /\ At(p, "recover") /\ prep[p].todo = {} /\ marker # NoMarker
  /\ Goto(p, "unresolved")
  /\ UNCHANGED <<diskVars, leaseVars, reader, faults, envVars>>

Unresolved(p) == Refuses(p, "unresolved", marker # NoMarker)

\* Out of both leases, the run stages its candidates under a new transaction.
Stage(p) ==
  /\ At(p, "recover") /\ prep[p].todo = {} /\ marker = NoMarker
  /\ Release(p)
  /\ \/ \E k \in Transactions :
          /\ stage[k] = Unused /\ \A l \in 1..(k - 1) : stage[l] # Unused
          /\ Record(k, "CREATED")
          /\ prep' = [prep EXCEPT ![p] = [Idle EXCEPT !.at = "plan", !.txn = k, !.mine = TRUE]]
     \/ /\ \A k \in Transactions : stage[k] # Unused
        /\ prep' = [prep EXCEPT ![p] = Idle] /\ UNCHANGED stage
  /\ UNCHANGED <<file, marker, before, backup, reader, faults, envVars>>

Plan(p) ==
  LET i == prep[p].item IN
  /\ At(p, "plan") /\ i < Last
  /\ before' = [before EXCEPT ![prep[p].txn][i] = file[i]]
  /\ GotoItem(p, "plan", i + 1)
  /\ UNCHANGED <<file, marker, stage, backup, leaseVars, reader, faults, envVars>>

\* The plan of model.json comes last, and the journal of the whole plan with it.
Staged(p) ==
  /\ At(p, "plan") /\ prep[p].item = Last
  /\ before' = [before EXCEPT ![prep[p].txn][Last] = file[Last]]
  /\ Record(prep[p].txn, "STAGED")
  /\ GotoItem(p, "publish", 1)
  /\ UNCHANGED <<file, marker, backup, leaseVars, reader, faults, envVars>>

-----------------------------------------------------------------------------
(* Publication.                                                            *)

Publish(p) ==
  /\ At(p, "publish")
  /\ Lease(p)
  /\ Goto(p, "backup")
  /\ UNCHANGED <<diskVars, reader, faults, envVars>>

PublishRefused(p) == Refuses(p, "publish", owner # NoOne \/ (file[Last] # Absent /\ Held))

\* Every planned file is still the one that was planned for.
Unchanged(k) == marker = NoMarker /\ file = before[k]

\* Mutated: the weights, which are outside the voice's directory, have no backup.
BackUpVoiceOnly(p) ==
  LET k == prep[p].txn IN
  /\ At(p, "backup") /\ Unchanged(k)
  /\ backup' = [backup EXCEPT ![k] = [file EXCEPT ![1] = Absent]]
  /\ Record(k, "BACKED_UP")
  /\ Goto(p, "mark")
  /\ UNCHANGED <<file, marker, before, leaseVars, reader, faults, envVars>>

BackUp(p) ==
  LET k == prep[p].txn IN
  /\ At(p, "backup") /\ Unchanged(k)
  /\ backup' = [backup EXCEPT ![k] = file]
  /\ Record(k, "BACKED_UP")
  /\ Goto(p, "mark")
  /\ UNCHANGED <<file, marker, before, leaseVars, reader, faults, envVars>>

BackUpRefused(p) == Refuses(p, "backup", ~Unchanged(prep[p].txn))

Mark(p) ==
  /\ At(p, "mark")
  /\ marker' = prep[p].txn
  /\ Goto(p, "publishing")
  /\ UNCHANGED <<file, stage, before, backup, leaseVars, reader, faults, envVars>>

\* The marker is durable: the handle on model.json goes, the mutex stays.
Publishing(p) ==
  /\ At(p, "publishing")
  /\ Record(prep[p].txn, "PUBLISHING")
  /\ barrier' = FALSE
  /\ GotoItem(p, "replace", 1)
  /\ UNCHANGED <<file, marker, before, backup, owner, reader, faults, envVars>>

Replace(p) ==
  LET i == prep[p].item IN
  /\ At(p, "replace") /\ i < Last
  /\ file' = [file EXCEPT ![i] = prep[p].txn]
  /\ GotoItem(p, "replace", i + 1)
  /\ UNCHANGED <<marker, stage, before, backup, leaseVars, reader, faults, envVars>>

Deploy(p) == prep[p].item = Last /\ Recorded(p, "replace", "DEPLOYED_PROBE", "probe")

ProbePasses(p) ==
  /\ Recorded(p, "probe", "READY_TO_COMMIT", "config")
  /\ \A i \in 1..(Last - 1) : Digest(file[i]) = Prepared

ProbeFails(p) == Refuses(p, "probe", TRUE)

\* Windows refuses to replace model.json while a reader has it open.
ReplaceConfig(p) ==
  /\ At(p, "config") /\ ~(Held /\ file[Last] # Absent)
  /\ file' = [file EXCEPT ![Last] = prep[p].txn]
  /\ Goto(p, "commit")
  /\ UNCHANGED <<marker, stage, before, backup, leaseVars, reader, faults, envVars>>

ReplaceConfigRefused(p) == Refuses(p, "config", Held /\ file[Last] # Absent)

Commit(p) == Recorded(p, "commit", "COMMITTED", "clear") /\ Published
CommitRefused(p) == Refuses(p, "commit", ~Published)

ClearMarker(p) == marker \in {NoMarker, prep[p].txn} /\ marker' = NoMarker

Clear(p) ==
  /\ At(p, "clear") /\ ClearMarker(p)
  /\ Goto(p, "leave")
  /\ UNCHANGED <<file, stage, before, backup, leaseVars, reader, faults, envVars>>

Leave(p) ==
  /\ At(p, "leave")
  /\ End(p)
  /\ UNCHANGED <<diskVars, reader, faults, envVars>>

-----------------------------------------------------------------------------
(* Rollback, of the run's own publication or of one it recovers.           *)

Rollback(p) ==
  /\ At(p, "rollback")
  /\ Record(prep[p].txn, "ROLLING_BACK")
  /\ GotoItem(p, "check", Last)
  /\ UNCHANGED <<file, marker, before, backup, leaseVars, reader, faults, envVars>>

Recognized(k, i) ==
  /\ file[i] # Absent => Digest(file[i]) \in {Digest(before[k][i]), Prepared}
  /\ before[k][i] # Absent => Digest(backup[k][i]) = Digest(before[k][i])

Check(p) ==
  /\ At(p, "check") /\ \A i \in Items : Recognized(prep[p].txn, i)
  /\ Goto(p, "restore")
  /\ UNCHANGED <<diskVars, leaseVars, reader, faults, envVars>>

CheckRefused(p) == Refuses(p, "check", \E i \in Items : ~Recognized(prep[p].txn, i))

\* model.json cannot be replaced under an open handle, a reader's or the
\* lease's own; it can be removed under the lease's, which shares DELETE.
Locked(k) ==
  \/ Held /\ file[Last] # Absent
  \/ barrier /\ before[k][Last] # Absent

CanRestore(k, i) == Recognized(k, i) /\ (i = Last => ~Locked(k))

Restore(p) ==
  LET k == prep[p].txn  i == prep[p].item IN
  /\ At(p, "restore") /\ i > 0 /\ CanRestore(k, i)
  /\ file' = [file EXCEPT ![i] = IF before[k][i] = Absent THEN Absent ELSE backup[k][i]]
  /\ GotoItem(p, "restore", i - 1)
  /\ UNCHANGED <<marker, stage, before, backup, leaseVars, reader, faults, envVars>>

RestoreRefused(p) ==
  Refuses(p, "restore", prep[p].item > 0 /\ ~CanRestore(prep[p].txn, prep[p].item))

Restored(k) == file = before[k]

RolledBack(p) ==
  /\ Recorded(p, "restore", "ROLLED_BACK", "unmark")
  /\ prep[p].item = 0 /\ Restored(prep[p].txn)

RolledBackRefused(p) == Refuses(p, "restore", prep[p].item = 0 /\ ~Restored(prep[p].txn))

\* A recovery goes on to the next journal; a failed publication raises again.
Unmark(p) ==
  /\ At(p, "unmark") /\ ClearMarker(p)
  /\ \/ /\ prep[p].mine /\ End(p)
     \/ ~prep[p].mine /\ GotoItem(p, "recover", 1) /\ UNCHANGED leaseVars
  /\ UNCHANGED <<file, stage, before, backup, reader, faults, envVars>>

UnmarkRefused(p) == Refuses(p, "unmark", marker \notin {NoMarker, prep[p].txn})

\* Mutated: the marker is cleared however the rollback ends.
BlockUnmarks(p) ==
  /\ At(p, "block")
  /\ Record(prep[p].txn, "RECOVERY_BLOCKED")
  /\ marker' = NoMarker
  /\ End(p)
  /\ UNCHANGED <<file, before, backup, reader, faults, envVars>>

Block(p) ==
  /\ At(p, "block")
  /\ Record(prep[p].txn, "RECOVERY_BLOCKED")
  /\ End(p)
  /\ UNCHANGED <<file, marker, before, backup, reader, faults, envVars>>

-----------------------------------------------------------------------------
(* Faults, crashes and the user.                                           *)

\* An operation raises without effect, or an interrupt comes before it.  Once
\* the marker is gone nothing is left to fail, only to be interrupted.
Throw(p) ==
  /\ faults < MaxFaults /\ faults' = faults + 1
  /\ prep[p].at \notin {"idle", "unresolved"}
  /\ At(p, "leave") => Interrupts
  /\ Raise(p)
  /\ UNCHANGED <<diskVars, reader, envVars>>

\* Windows abandons the mutex and closes the handle of a process that ends.
Crash(p) ==
  /\ crashes < MaxCrashes /\ crashes' = crashes + 1
  /\ ~At(p, "idle")
  /\ prep' = [prep EXCEPT ![p] = Idle]
  /\ Release(p)
  /\ UNCHANGED <<diskVars, reader, faults, installed, replaced, edits, loads>>

\* The user replaces a file that is there; an open model.json cannot be replaced.
Edit(i) ==
  /\ edits < MaxEdits /\ edits' = edits + 1
  /\ file[i] # Absent
  /\ i = Last => ~Held /\ ~barrier
  /\ file' = [file EXCEPT ![i] = Alien] /\ replaced' = replaced \cup {i}
  /\ UNCHANGED <<marker, stage, before, backup, leaseVars, prep, reader, faults, installed, crashes, loads>>

-----------------------------------------------------------------------------
(* Readers: SherpaOnnxTtsEngine::Load and Unload.                          *)

\* model.json is opened first, denying DELETE, and stays open with the voice.
Open(r) ==
  /\ reader[r].at = "closed" /\ loads < MaxLoads /\ loads' = loads + 1
  /\ file[Last] # Absent /\ ~barrier
  /\ reader' = [reader EXCEPT ![r].at = "opened"]
  /\ UNCHANGED <<diskVars, leaseVars, prep, faults, installed, replaced, crashes, edits>>

\* Mutated: a reader that could open model.json does not look for the marker.
AdmittedByHandle == TRUE

Admitted == marker = NoMarker

Admit(r) ==
  /\ reader[r].at = "opened"
  /\ reader' = [reader EXCEPT ![r] = IF Admitted THEN [@ EXCEPT !.at = "loading"] ELSE Closed]
  /\ UNCHANGED <<diskVars, leaseVars, prep, faults, envVars>>

\* The files of the voice are read one after the other.
Read(r) ==
  LET i == reader[r].item IN
  /\ reader[r].at = "loading"
  /\ reader' = [reader EXCEPT ![r] =
       [at |-> IF i = Last THEN "loaded" ELSE "loading",
        item |-> IF i = Last THEN 1 ELSE i + 1,
        read |-> @.read \cup {Digest(file[i])}]]
  /\ UNCHANGED <<diskVars, leaseVars, prep, faults, envVars>>

Unload(r) ==
  /\ reader[r].at = "loaded"
  /\ reader' = [reader EXCEPT ![r] = Closed]
  /\ UNCHANGED <<diskVars, leaseVars, prep, faults, envVars>>

-----------------------------------------------------------------------------
Recovery(p) ==
  \/ \E k \in Transactions : RecoverNext(p, k) \/ RecoverRollsBack(p, k)
  \/ RecoverRefused(p) \/ RecoverFindsMarker(p) \/ Unresolved(p)
  \/ Rollback(p) \/ Check(p) \/ CheckRefused(p) \/ Restore(p) \/ RestoreRefused(p)
  \/ RolledBack(p) \/ RolledBackRefused(p) \/ Unmark(p) \/ UnmarkRefused(p) \/ Block(p)

Publication(p) ==
  \/ Stage(p) \/ Plan(p) \/ Staged(p) \/ Publish(p) \/ PublishRefused(p)
  \/ BackUp(p) \/ BackUpRefused(p) \/ Mark(p) \/ Publishing(p) \/ Replace(p)
  \/ Deploy(p) \/ ProbePasses(p) \/ ProbeFails(p) \/ ReplaceConfig(p)
  \/ ReplaceConfigRefused(p) \/ Commit(p) \/ CommitRefused(p) \/ Clear(p) \/ Leave(p)

Load(r) == Admit(r) \/ Read(r) \/ Unload(r)

Next ==
  \/ \E p \in Preparers : Start(p) \/ Recovery(p) \/ Publication(p) \/ Throw(p) \/ Crash(p)
  \/ \E i \in Items : Edit(i)
  \/ \E r \in Readers : Open(r) \/ Load(r)

Spec == Init /\ [][Next]_vars

(* Processes run; the script is started again for as long as it takes; a    *)
(* desktop that has the voice is closed.  Nobody has to start a desktop,    *)
(* and nothing has to fail.                                                 *)
FairSpec ==
  /\ Spec
  /\ \A p \in Preparers : SF_vars(Start(p)) /\ WF_vars(Recovery(p) \/ Publication(p))
  /\ \A r \in Readers : WF_vars(Load(r))

-----------------------------------------------------------------------------
(* Properties.                                                             *)

\* Part of the files are the published ones and part are not.
Half == \E i, j \in Items : Digest(file[i]) = Prepared /\ file[j] \in {Original, Absent}

DiskTypes ==
  /\ file \in [Items -> Inodes]
  /\ marker \in Transactions \cup {NoMarker}
  /\ stage \in [Transactions -> Stages]
  /\ before \in [Transactions -> [Items -> Inodes]]
  /\ backup \in [Transactions -> [Items -> Inodes]]

LeaseTypes ==
  /\ owner \in Preparers \cup {NoOne} /\ barrier \in BOOLEAN
  /\ barrier => owner # NoOne

Runs == [at : Labels, txn : Transactions \cup {NoMarker}, mine : BOOLEAN,
         item : 0..Last, todo : SUBSET Transactions]
Loads == [at : {"closed", "opened", "loading", "loaded"}, item : Items, read : SUBSET Inodes]

EnvTypes ==
  /\ installed \in Installations /\ replaced \subseteq Items
  /\ faults \in 0..MaxFaults /\ crashes \in 0..MaxCrashes
  /\ edits \in 0..MaxEdits /\ loads \in 0..MaxLoads

\* The types of all parts; the handle on model.json is never held without the
\* mutex, however a run ends.
TypeOK ==
  /\ DiskTypes
  /\ LeaseTypes
  /\ prep \in [Preparers -> Runs]
  /\ reader \in [Readers -> Loads]
  /\ EnvTypes

\* A desktop never loads a voice made of old and of new files, whatever the
\* publication it meets does: the handle and the marker hand over without a gap.
NoMixedLoad == \A r \in Readers : ~({Original, Prepared} \subseteq reader[r].read)

\* Whatever happens to the script, a voice that is half old and half new is
\* either marked as incomplete or has no model.json to load it by.
MixIsMarked == Half /\ file[Last] # Absent => marker # NoMarker

\* The file a user downloaded or installed is never lost: it is in place or in
\* a backup, unless the user replaced it.
OriginalsSurvive ==
  \A i \in installed \ replaced :
    file[i] = Original \/ \E k \in Transactions : backup[k][i] = Original

\* A publication cut short is finished or undone by the runs that follow.
PartialPublicationResolves == Half ~> ~Half

\* Recovery only gives up on a marker while the transaction it names is
\* unfinished: what is committed or rolled back does not block the voice.
BlockedOnlyByUnfinished ==
  \A p \in Preparers :
    At(p, "unresolved") => ~Settled(stage[marker]) /\ stage[marker] # "COMMITTED"

=============================================================================
