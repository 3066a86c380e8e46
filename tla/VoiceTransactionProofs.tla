----------------------- MODULE VoiceTransactionProofs -----------------------
(***************************************************************************)
(* For any number of runs of the script, transactions, files, failures,    *)
(* kills, edits and interrupts: every reachable state of VoiceTransaction  *)
(* is well typed, and no original file is ever lost.  No load mixes files, *)
(* and no mixture is unmarked, unless a recovery begins to change a voice  *)
(* that readers may open, or an interrupt comes after the marker is gone;  *)
(* runs that follow one another never do the first.                        *)
(***************************************************************************)
EXTENDS VoiceTransaction, TLAPS

\* Steps of a run that has a transaction of its own and no backup of it yet.
Planning == {"plan", "publish", "backup"}

\* Steps from the backup to the replacement of model.json.
Replacing == {"mark", "publishing", "replace", "deploy", "probe", "config"}

\* Only a run that has not begun, or that recovers, has no transaction in hand.
InHand == \A p \in Preparers :
  prep[p].at \notin {"idle", "recover", "unresolved"} => prep[p].txn \in Transactions

TypeInv == TypeOK /\ InHand

\* A transaction without a backup directory's contents.
NoBackup(k) == \A i \in Items : backup[k][i] # Original

\* Nothing of an original is in the backups of a transaction that is not begun.
Begun == \A k \in Transactions : stage[k] = Unused => NoBackup(k)

\* A run that still plans owns a transaction that is begun and not backed up.
Fresh == \A p \in Preparers :
  prep[p].at \in Planning => stage[prep[p].txn] # Unused /\ NoBackup(prep[p].txn)

\* No two runs that plan have the same transaction.
Distinct == \A p, q \in Preparers :
  p # q /\ prep[p].at \in Planning /\ prep[q].at \in Planning => prep[p].txn # prep[q].txn

Saved(i) == \E k \in Transactions : backup[k][i] = Original

\* A run that replaces files has seen every original in a backup.
SavedFirst == \A p \in Preparers :
  prep[p].at \in Replacing => \A i \in installed \ replaced : Saved(i)

KeepInv == TypeInv /\ Begun /\ Fresh /\ Distinct /\ SavedFirst /\ OriginalsSurvive

-----------------------------------------------------------------------------
(* What the small steps do.                                                *)

LEMMA Members ==
  /\ Planning \subseteq Labels /\ Replacing \subseteq Labels
  /\ InPublish \subseteq Labels /\ InRollback \subseteq Labels
  /\ {"idle", "recover", "unresolved", "plan", "publish", "backup", "mark",
      "publishing", "rollback", "block", "replace", "probe", "config", "commit",
      "clear", "leave", "check", "restore", "unmark"} \subseteq Labels
  /\ {Unused, "CREATED", "STAGED", "BACKED_UP", "PUBLISHING", "DEPLOYED_PROBE",
      "READY_TO_COMMIT", "COMMITTED", "ROLLING_BACK", "ROLLED_BACK",
      "RECOVERY_BLOCKED", "ABORTED"} \subseteq Stages
  /\ NoMarker \in Inodes /\ Original \in Inodes /\ Absent \in Inodes
  /\ Transactions \subseteq Inodes /\ Last \in Items /\ Last \in 0..Last
  /\ 1 \in Items /\ Items \subseteq 0..Last /\ NoMarker \notin Transactions
<1>1. /\ NoMarker \in Inodes /\ Original \in Inodes /\ Absent \in Inodes
      /\ Transactions \subseteq Inodes /\ Last \in Items /\ Last \in 0..Last
      /\ 1 \in Items /\ Items \subseteq 0..Last /\ NoMarker \notin Transactions
  BY VoiceTransactionAssumption
  DEF VoiceTransactionAssumption, Inodes, NoMarker, Original, Absent, Transactions, Items
<1> QED
  BY <1>1 DEF Planning, Replacing, Labels, InPublish, InRollback, Stages, Unused

LEMMA IdleRun == Idle \in Runs
BY Members, VoiceTransactionAssumption
DEF VoiceTransactionAssumption, Idle, Runs, NoMarker, Items

\* A run that moves on keeps the rest of its state, and so do the other runs.
LEMMA GotoMoves ==
  ASSUME TypeInv, NEW p \in Preparers, NEW label \in Labels, Goto(p, label)
  PROVE  /\ prep' \in [Preparers -> Runs]
         /\ prep'[p].at = label /\ prep'[p].txn = prep[p].txn
         /\ \A q \in Preparers \ {p} : prep'[q] = prep[q]
BY DEF Goto, TypeInv, TypeOK, Runs

LEMMA GotoItemMoves ==
  ASSUME TypeInv, NEW p \in Preparers, NEW label \in Labels, NEW i \in 0..Last,
         GotoItem(p, label, i)
  PROVE  /\ prep' \in [Preparers -> Runs]
         /\ prep'[p].at = label /\ prep'[p].txn = prep[p].txn
         /\ \A q \in Preparers \ {p} : prep'[q] = prep[q]
BY DEF GotoItem, TypeInv, TypeOK, Runs

LEMMA EndMoves ==
  ASSUME TypeInv, NEW p \in Preparers, prep' = [prep EXCEPT ![p] = Idle]
  PROVE  /\ prep' \in [Preparers -> Runs] /\ prep'[p].at = "idle"
         /\ \A q \in Preparers \ {p} : prep'[q] = prep[q]
BY IdleRun DEF TypeInv, TypeOK, Idle

LEMMA ReleaseTypes ==
  ASSUME TypeInv, NEW p \in Preparers, Release(p)
  PROVE  LeaseTypes'
BY DEF Release, TypeInv, TypeOK, LeaseTypes

LEMMA LeaseIsTyped ==
  ASSUME TypeInv, NEW p \in Preparers, Lease(p)
  PROVE  LeaseTypes'
BY VoiceTransactionAssumption
DEF VoiceTransactionAssumption, Lease, TypeInv, TypeOK, LeaseTypes

\* Where an exception leaves a run: rolling back or blocked with the same
\* transaction, or at its end.
LEMMA RaiseMoves ==
  ASSUME TypeInv, NEW p \in Preparers, Raise(p)
  PROVE  /\ prep' \in [Preparers -> Runs] /\ LeaseTypes'
         /\ \/ prep'[p].at \in {"rollback", "block"} /\ prep'[p].txn = prep[p].txn
               /\ prep[p].at \in InPublish \cup InRollback
            \/ prep'[p].at = "idle"
         /\ \A q \in Preparers \ {p} : prep'[q] = prep[q]
<1>1. CASE prep[p].at \in InPublish /\ Goto(p, "rollback") /\ UNCHANGED leaseVars
  BY <1>1, GotoMoves, Members DEF leaseVars, LeaseTypes, TypeInv, TypeOK
<1>2. CASE prep[p].at \in InRollback /\ Goto(p, "block") /\ UNCHANGED leaseVars
  BY <1>2, GotoMoves, Members DEF leaseVars, LeaseTypes, TypeInv, TypeOK
<1>3. CASE End(p)
  BY <1>3, EndMoves, ReleaseTypes DEF End
<1> QED
  BY <1>1, <1>2, <1>3 DEF Raise

-----------------------------------------------------------------------------
(* Quiet steps: they leave the files and the backups alone.                *)

Quiet(p) ==
  /\ UNCHANGED <<file, backup, installed, replaced>>
  /\ \A k \in Transactions : stage'[k] = Unused => stage[k] = Unused
  /\ \A q \in Preparers \ {p} : prep'[q] = prep[q]
  /\ prep'[p].at \in Planning => prep[p].at \in Planning /\ prep'[p].txn = prep[p].txn
  /\ prep'[p].at \in Replacing => prep[p].at \in Replacing

LEMMA QuietKeeps ==
  ASSUME KeepInv, NEW p \in Preparers, Quiet(p)
  PROVE  (Begun /\ Fresh /\ Distinct /\ SavedFirst /\ OriginalsSurvive)'
<1>1. (Begun /\ OriginalsSurvive)'
  BY DEF KeepInv, Quiet, Begun, NoBackup, OriginalsSurvive
<1>2. Fresh'
  <2> SUFFICES ASSUME NEW q \in Preparers, prep'[q].at \in Planning
               PROVE  /\ stage'[prep'[q].txn] # Unused
                      /\ \A i \in Items : backup'[prep'[q].txn][i] # Original
    BY DEF Fresh, NoBackup
  <2>1. prep[q].at \in Planning /\ prep'[q].txn = prep[q].txn
    BY DEF Quiet
  <2>2. prep[q].txn \in Transactions
    BY <2>1 DEF KeepInv, TypeInv, InHand, Planning
  <2>3. stage[prep[q].txn] # Unused /\ NoBackup(prep[q].txn)
    BY <2>1 DEF KeepInv, Fresh
  <2> QED
    BY <2>1, <2>2, <2>3 DEF Quiet, NoBackup
<1>3. Distinct'
  BY DEF KeepInv, Quiet, Distinct
<1>4. SavedFirst'
  BY DEF KeepInv, Quiet, SavedFirst, Saved
<1> QED
  BY <1>1, <1>2, <1>3, <1>4

\* A run moved, with its transaction, or is where it needs none.
LEMMA InHandMoves ==
  ASSUME TypeInv, NEW p \in Preparers,
         prep'[p].at \notin {"idle", "recover", "unresolved"} => prep'[p].txn \in Transactions,
         \A q \in Preparers \ {p} : prep'[q] = prep[q]
  PROVE  InHand'
BY DEF TypeInv, InHand

LEMMA RecordIsTyped ==
  ASSUME TypeInv, NEW k, NEW s \in Stages \ {Unused}, Record(k, s)
  PROVE  /\ stage' \in [Transactions -> Stages]
         /\ \A l \in Transactions : stage'[l] = Unused => stage[l] = Unused
BY DEF Record, TypeInv, TypeOK, DiskTypes

LEMMA RaiseQuiet ==
  ASSUME TypeInv, NEW p \in Preparers, Raise(p),
         UNCHANGED <<diskVars, reader, envVars>>, faults' \in 0..MaxFaults
  PROVE  TypeInv' /\ Quiet(p)
<1>1. /\ prep' \in [Preparers -> Runs] /\ LeaseTypes'
      /\ \/ prep'[p].at \in {"rollback", "block"} /\ prep'[p].txn = prep[p].txn
            /\ prep[p].at \in InPublish \cup InRollback
         \/ prep'[p].at = "idle"
      /\ \A q \in Preparers \ {p} : prep'[q] = prep[q]
  BY RaiseMoves
<1>2. InHand'
  BY <1>1 DEF TypeInv, InHand, InPublish, InRollback
<1>3. TypeOK'
  BY <1>1 DEF TypeInv, TypeOK, DiskTypes, EnvTypes, diskVars, envVars
<1>4. Quiet(p)
  BY <1>1 DEF Quiet, Planning, Replacing, diskVars, envVars
<1> QED
  BY <1>2, <1>3, <1>4 DEF TypeInv

LEMMA RecordedQuiet ==
  ASSUME TypeInv, NEW p \in Preparers, NEW from, NEW s \in Stages \ {Unused}, NEW to \in Labels,
         from \notin {"idle", "recover", "unresolved"}, to \notin Planning,
         to \in Replacing => from \in Replacing, Recorded(p, from, s, to)
  PROVE  TypeInv' /\ Quiet(p)
<1>1. /\ prep' \in [Preparers -> Runs]
      /\ prep'[p].at = to /\ prep'[p].txn = prep[p].txn
      /\ \A q \in Preparers \ {p} : prep'[q] = prep[q]
  BY GotoMoves DEF Recorded
<1>2. /\ stage' \in [Transactions -> Stages]
      /\ \A l \in Transactions : stage'[l] = Unused => stage[l] = Unused
  BY RecordIsTyped DEF Recorded
<1>3. InHand'
  BY <1>1 DEF TypeInv, InHand, Recorded, At
<1>4. TypeOK'
  BY <1>1, <1>2 DEF Recorded, TypeInv, TypeOK, DiskTypes, LeaseTypes, EnvTypes, leaseVars, envVars
<1>5. Quiet(p)
  BY <1>1, <1>2 DEF Quiet, Recorded, At, envVars
<1> QED
  BY <1>3, <1>4, <1>5 DEF TypeInv

-----------------------------------------------------------------------------
(* The quiet actions.                                                      *)

RecoveryQuietly(p) ==
  \/ Start(p) \/ \E k \in Transactions : RecoverNext(p, k) \/ RecoverRollsBack(p, k)
  \/ RecoverRefused(p) \/ RecoverFindsMarker(p) \/ Unresolved(p)
  \/ Rollback(p) \/ Check(p) \/ CheckRefused(p) \/ RestoreRefused(p)
  \/ RolledBack(p) \/ RolledBackRefused(p) \/ Unmark(p) \/ UnmarkRefused(p) \/ Block(p)

PublicationQuietly(p) ==
  \/ Plan(p) \/ Staged(p) \/ Publish(p) \/ PublishRefused(p) \/ BackUpRefused(p)
  \/ Mark(p) \/ Publishing(p) \/ Deploy(p) \/ ProbePasses(p) \/ ProbeFails(p)
  \/ ReplaceConfigRefused(p) \/ Commit(p) \/ CommitRefused(p) \/ Clear(p) \/ Leave(p)

LEMMA RefusesQuiet ==
  ASSUME TypeInv, NEW p \in Preparers, Raise(p), UNCHANGED <<diskVars, reader, faults, envVars>>
  PROVE  TypeInv' /\ Quiet(p)
BY RaiseQuiet DEF TypeInv, TypeOK, EnvTypes

LEMMA RecoveryIsQuiet ==
  ASSUME TypeInv, NEW p \in Preparers, RecoveryQuietly(p)
  PROVE  TypeInv' /\ Quiet(p)
<1>1. CASE Start(p)
  <2>1. /\ prep' \in [Preparers -> Runs] /\ prep'[p].at = "recover"
        /\ \A q \in Preparers \ {p} : prep'[q] = prep[q]
    BY <1>1, IdleRun, Members DEF Start, TypeInv, TypeOK, Runs, Idle
  <2>2. LeaseTypes'
    BY <1>1, LeaseIsTyped DEF Start
  <2>3. TypeOK'
    BY <1>1, <2>1, <2>2 DEF Start, TypeInv, TypeOK, DiskTypes, EnvTypes, diskVars, envVars
  <2>4. InHand'
    BY <2>1, InHandMoves
  <2>5. Quiet(p)
    BY <1>1, <2>1 DEF Start, Quiet, Planning, Replacing, diskVars, envVars
  <2> QED
    BY <2>3, <2>4, <2>5 DEF TypeInv
<1>2. ASSUME NEW k \in Transactions, RecoverNext(p, k) PROVE TypeInv' /\ Quiet(p)
  <2>1. /\ prep' \in [Preparers -> Runs]
        /\ prep'[p].at = "recover"
        /\ \A q \in Preparers \ {p} : prep'[q] = prep[q]
    BY <1>2 DEF RecoverNext, At, TypeInv, TypeOK, Runs
  <2>2. /\ stage' \in [Transactions -> Stages] /\ marker' \in Transactions \cup {NoMarker}
        /\ \A l \in Transactions : stage'[l] = Unused => stage[l] = Unused
    <3>1. "ABORTED" \in Stages \ {Unused}
      BY Members DEF Unused
    <3> QED
      BY <1>2, <3>1, RecordIsTyped DEF RecoverNext, TypeInv, TypeOK, DiskTypes
  <2>3. TypeOK'
    BY <1>2, <2>1, <2>2
    DEF RecoverNext, TypeInv, TypeOK, DiskTypes, LeaseTypes, EnvTypes, leaseVars, envVars
  <2>4. InHand'
    BY <2>1, InHandMoves
  <2>5. Quiet(p)
    BY <1>2, <2>1, <2>2 DEF RecoverNext, Quiet, Planning, Replacing, envVars
  <2> QED
    BY <2>3, <2>4, <2>5 DEF TypeInv
<1>3. ASSUME NEW k \in Transactions, RecoverRollsBack(p, k) PROVE TypeInv' /\ Quiet(p)
  <2>1. /\ prep' \in [Preparers -> Runs]
        /\ prep'[p].at = "rollback" /\ prep'[p].txn = k
        /\ \A q \in Preparers \ {p} : prep'[q] = prep[q]
    BY <1>3, IdleRun, Members DEF RecoverRollsBack, At, TypeInv, TypeOK, Runs, Idle
  <2>2. TypeOK'
    BY <1>3, <2>1
    DEF RecoverRollsBack, TypeInv, TypeOK, DiskTypes, LeaseTypes, EnvTypes, diskVars, leaseVars, envVars
  <2>3. InHand'
    BY <2>1, InHandMoves
  <2>4. Quiet(p)
    BY <1>3, <2>1 DEF RecoverRollsBack, Quiet, Planning, Replacing, diskVars, envVars
  <2> QED
    BY <2>2, <2>3, <2>4 DEF TypeInv
<1>4. CASE RecoverFindsMarker(p)
  <2>1. /\ prep' \in [Preparers -> Runs] /\ prep'[p].at = "unresolved"
        /\ \A q \in Preparers \ {p} : prep'[q] = prep[q]
    BY <1>4, GotoMoves, Members DEF RecoverFindsMarker
  <2>2. TypeOK' /\ Quiet(p)
    BY <1>4, <2>1
    DEF RecoverFindsMarker, TypeInv, TypeOK, DiskTypes, LeaseTypes, EnvTypes, diskVars,
        leaseVars, envVars, Quiet, Planning, Replacing
  <2> QED
    BY <2>1, <2>2, InHandMoves DEF TypeInv
<1>5. CASE Rollback(p) \/ Check(p)
  <2>1. PICK label \in {"check", "restore"} :
          /\ prep' \in [Preparers -> Runs]
          /\ prep'[p].at = label /\ prep'[p].txn = prep[p].txn
          /\ \A q \in Preparers \ {p} : prep'[q] = prep[q]
    BY <1>5, GotoMoves, GotoItemMoves, Members DEF Rollback, Check
  <2>2. /\ stage' \in [Transactions -> Stages]
        /\ \A l \in Transactions : stage'[l] = Unused => stage[l] = Unused
    <3>1. "ROLLING_BACK" \in Stages \ {Unused}
      BY Members DEF Unused
    <3> QED
      BY <1>5, <3>1, RecordIsTyped DEF Rollback, Check, diskVars, TypeInv, TypeOK, DiskTypes
  <2>3. prep[p].at \in {"rollback", "check"}
    BY <1>5 DEF Rollback, Check, At
  <2>4. InHand'
    BY <2>1, <2>3 DEF TypeInv, InHand
  <2>5. TypeOK'
    BY <1>5, <2>1, <2>2
    DEF Rollback, Check, TypeInv, TypeOK, DiskTypes, LeaseTypes, EnvTypes, diskVars, leaseVars, envVars
  <2>6. Quiet(p)
    BY <1>5, <2>1, <2>2 DEF Rollback, Check, Quiet, Planning, Replacing, diskVars, envVars
  <2> QED
    BY <2>4, <2>5, <2>6 DEF TypeInv
<1>6. CASE RolledBack(p)
  <2>1. /\ "ROLLED_BACK" \in Stages \ {Unused} /\ "unmark" \in Labels
        /\ "unmark" \notin Planning \cup Replacing
    BY Members DEF Unused, Planning, Replacing
  <2> QED
    BY <1>6, <2>1, RecordedQuiet DEF RolledBack
<1>7. CASE Unmark(p)
  <2>1. /\ prep' \in [Preparers -> Runs] /\ LeaseTypes'
        /\ prep'[p].at \in {"idle", "recover"}
        /\ \A q \in Preparers \ {p} : prep'[q] = prep[q]
    <3>1. CASE End(p)
      BY <3>1, EndMoves, ReleaseTypes DEF End
    <3>2. CASE GotoItem(p, "recover", 1) /\ UNCHANGED leaseVars
      BY <3>2, GotoItemMoves, Members DEF leaseVars, TypeInv, TypeOK, LeaseTypes
    <3> QED
      BY <1>7, <3>1, <3>2 DEF Unmark
  <2>2. TypeOK' /\ Quiet(p)
    BY <1>7, <2>1
    DEF Unmark, ClearMarker, TypeInv, TypeOK, DiskTypes, EnvTypes, envVars, Quiet, Planning, Replacing
  <2> QED
    BY <2>1, <2>2, InHandMoves DEF TypeInv
<1>8. CASE Block(p)
  <2>1. /\ prep' \in [Preparers -> Runs] /\ LeaseTypes' /\ prep'[p].at = "idle"
        /\ \A q \in Preparers \ {p} : prep'[q] = prep[q]
    BY <1>8, EndMoves, ReleaseTypes DEF Block, End
  <2>2. /\ stage' \in [Transactions -> Stages]
        /\ \A l \in Transactions : stage'[l] = Unused => stage[l] = Unused
    <3>1. "RECOVERY_BLOCKED" \in Stages \ {Unused}
      BY Members DEF Unused
    <3> QED
      BY <1>8, <3>1, RecordIsTyped DEF Block
  <2>3. TypeOK' /\ Quiet(p)
    BY <1>8, <2>1, <2>2
    DEF Block, TypeInv, TypeOK, DiskTypes, EnvTypes, envVars, Quiet, Planning, Replacing
  <2> QED
    BY <2>1, <2>3, InHandMoves DEF TypeInv
<1>9. CASE \/ RecoverRefused(p) \/ Unresolved(p) \/ CheckRefused(p) \/ RestoreRefused(p)
           \/ RolledBackRefused(p) \/ UnmarkRefused(p)
  BY <1>9, RefusesQuiet
  DEF Refuses, RecoverRefused, Unresolved, CheckRefused, RestoreRefused, RolledBackRefused, UnmarkRefused
<1> QED
  BY <1>1, <1>2, <1>3, <1>4, <1>5, <1>6, <1>7, <1>8, <1>9 DEF RecoveryQuietly

LEMMA PublicationIsQuiet ==
  ASSUME TypeInv, NEW p \in Preparers, PublicationQuietly(p)
  PROVE  TypeInv' /\ Quiet(p)
<1>1. CASE Plan(p) \/ Staged(p)
  <2>1. PICK label \in {"plan", "publish"} :
          /\ prep' \in [Preparers -> Runs]
          /\ prep'[p].at = label /\ prep'[p].txn = prep[p].txn
          /\ \A q \in Preparers \ {p} : prep'[q] = prep[q]
    <3>1. CASE Plan(p)
      <4>1. prep[p].item + 1 \in 0..Last
        BY <3>1, VoiceTransactionAssumption DEF VoiceTransactionAssumption, Plan, TypeInv, TypeOK, Runs
      <4> QED
        BY <3>1, <4>1, GotoItemMoves, Members DEF Plan
    <3>2. CASE Staged(p)
      BY <3>2, GotoItemMoves, Members DEF Staged, Items
    <3> QED
      BY <1>1, <3>1, <3>2
  <2>2. /\ stage' \in [Transactions -> Stages]
        /\ \A l \in Transactions : stage'[l] = Unused => stage[l] = Unused
    <3>1. "STAGED" \in Stages \ {Unused}
      BY Members DEF Unused
    <3> QED
      BY <1>1, <3>1, RecordIsTyped DEF Plan, Staged, TypeInv, TypeOK, DiskTypes
  <2>3. prep[p].at = "plan" /\ prep[p].txn \in Transactions
    BY <1>1 DEF Plan, Staged, At, TypeInv, InHand
  <2>4. before' \in [Transactions -> [Items -> Inodes]]
    <3>1. PICK i : before' = [before EXCEPT ![prep[p].txn][i] = file[i]] /\ (i \in Items => file[i] \in Inodes)
      BY <1>1 DEF Plan, Staged, TypeInv, TypeOK, DiskTypes
    <3> QED
      BY <3>1 DEF TypeInv, TypeOK, DiskTypes
  <2>5. InHand'
    BY <2>1, <2>3 DEF TypeInv, InHand
  <2>6. TypeOK'
    BY <1>1, <2>1, <2>2, <2>4
    DEF Plan, Staged, TypeInv, TypeOK, DiskTypes, LeaseTypes, EnvTypes, leaseVars, envVars
  <2>7. Quiet(p)
    BY <1>1, <2>1, <2>2, <2>3 DEF Plan, Staged, Quiet, Planning, Replacing, envVars
  <2> QED
    BY <2>5, <2>6, <2>7 DEF TypeInv
<1>2. CASE Publish(p)
  <2>1. /\ prep' \in [Preparers -> Runs] /\ LeaseTypes'
        /\ prep'[p].at = "backup" /\ prep'[p].txn = prep[p].txn
        /\ \A q \in Preparers \ {p} : prep'[q] = prep[q]
    BY <1>2, GotoMoves, LeaseIsTyped, Members DEF Publish
  <2>2. prep[p].at = "publish" /\ prep[p].txn \in Transactions
    BY <1>2 DEF Publish, At, TypeInv, InHand
  <2>3. InHand'
    BY <2>1, <2>2 DEF TypeInv, InHand
  <2>4. TypeOK' /\ Quiet(p)
    BY <1>2, <2>1, <2>2
    DEF Publish, TypeInv, TypeOK, DiskTypes, EnvTypes, diskVars, envVars, Quiet, Planning, Replacing
  <2> QED
    BY <2>3, <2>4 DEF TypeInv
<1>3. CASE Mark(p)
  <2>1. /\ prep' \in [Preparers -> Runs]
        /\ prep'[p].at = "publishing" /\ prep'[p].txn = prep[p].txn
        /\ \A q \in Preparers \ {p} : prep'[q] = prep[q]
    BY <1>3, GotoMoves, Members DEF Mark
  <2>2. prep[p].at = "mark" /\ prep[p].txn \in Transactions
    BY <1>3 DEF Mark, At, TypeInv, InHand
  <2>3. InHand'
    BY <2>1, <2>2 DEF TypeInv, InHand
  <2>4. TypeOK' /\ Quiet(p)
    BY <1>3, <2>1, <2>2
    DEF Mark, TypeInv, TypeOK, DiskTypes, LeaseTypes, EnvTypes, leaseVars, envVars, Quiet, Planning, Replacing
  <2> QED
    BY <2>3, <2>4 DEF TypeInv
<1>4. CASE Publishing(p)
  <2>1. /\ prep' \in [Preparers -> Runs]
        /\ prep'[p].at = "replace" /\ prep'[p].txn = prep[p].txn
        /\ \A q \in Preparers \ {p} : prep'[q] = prep[q]
    BY <1>4, GotoItemMoves, Members DEF Publishing
  <2>2. prep[p].at = "publishing" /\ prep[p].txn \in Transactions
    BY <1>4 DEF Publishing, At, TypeInv, InHand
  <2>3. /\ stage' \in [Transactions -> Stages]
        /\ \A l \in Transactions : stage'[l] = Unused => stage[l] = Unused
    <3>1. "PUBLISHING" \in Stages \ {Unused}
      BY Members DEF Unused
    <3> QED
      BY <1>4, <3>1, RecordIsTyped DEF Publishing
  <2>4. InHand'
    BY <2>1, <2>2 DEF TypeInv, InHand
  <2>5. TypeOK' /\ Quiet(p)
    BY <1>4, <2>1, <2>2, <2>3
    DEF Publishing, TypeInv, TypeOK, DiskTypes, LeaseTypes, EnvTypes, envVars, Quiet, Planning, Replacing
  <2> QED
    BY <2>4, <2>5 DEF TypeInv
<1>5. CASE Deploy(p)
  <2>1. "DEPLOYED_PROBE" \in Stages \ {Unused} /\ "probe" \in Labels /\ "probe" \notin Planning /\ "replace" \in Replacing
    BY Members DEF Unused, Planning, Replacing
  <2> QED
    BY <1>5, <2>1, RecordedQuiet DEF Deploy
<1>6. CASE ProbePasses(p)
  <2>1. "READY_TO_COMMIT" \in Stages \ {Unused} /\ "config" \in Labels /\ "config" \notin Planning /\ "probe" \in Replacing
    BY Members DEF Unused, Planning, Replacing
  <2> QED
    BY <1>6, <2>1, RecordedQuiet DEF ProbePasses
<1>7. CASE Commit(p)
  <2>1. "COMMITTED" \in Stages \ {Unused} /\ "clear" \in Labels /\ "clear" \notin Planning \cup Replacing
    BY Members DEF Unused, Planning, Replacing
  <2> QED
    BY <1>7, <2>1, RecordedQuiet DEF Commit
<1>8. CASE Clear(p)
  <2>1. /\ prep' \in [Preparers -> Runs]
        /\ prep'[p].at = "leave" /\ prep'[p].txn = prep[p].txn
        /\ \A q \in Preparers \ {p} : prep'[q] = prep[q]
    BY <1>8, GotoMoves, Members DEF Clear
  <2>2. prep[p].txn \in Transactions
    BY <1>8 DEF Clear, At, TypeInv, InHand
  <2>3. InHand'
    BY <2>1, <2>2 DEF TypeInv, InHand
  <2>4. TypeOK' /\ Quiet(p)
    BY <1>8, <2>1
    DEF Clear, ClearMarker, TypeInv, TypeOK, DiskTypes, LeaseTypes, EnvTypes, leaseVars, envVars,
        Quiet, Planning, Replacing
  <2> QED
    BY <2>3, <2>4 DEF TypeInv
<1>9. CASE Leave(p)
  <2>1. /\ prep' \in [Preparers -> Runs] /\ LeaseTypes' /\ prep'[p].at = "idle"
        /\ \A q \in Preparers \ {p} : prep'[q] = prep[q]
    BY <1>9, EndMoves, ReleaseTypes DEF Leave, End
  <2>2. TypeOK' /\ Quiet(p)
    BY <1>9, <2>1
    DEF Leave, TypeInv, TypeOK, DiskTypes, EnvTypes, diskVars, envVars, Quiet, Planning, Replacing
  <2> QED
    BY <2>1, <2>2, InHandMoves DEF TypeInv
<1>10. CASE \/ PublishRefused(p) \/ BackUpRefused(p) \/ ProbeFails(p)
            \/ ReplaceConfigRefused(p) \/ CommitRefused(p)
  BY <1>10, RefusesQuiet
  DEF Refuses, PublishRefused, BackUpRefused, ProbeFails, ReplaceConfigRefused, CommitRefused
<1> QED
  BY <1>1, <1>2, <1>3, <1>4, <1>5, <1>6, <1>7, <1>8, <1>9, <1>10 DEF PublicationQuietly

\* An exception, or the end of the process, is quiet wherever it strikes.
LEMMA FailureIsQuiet ==
  ASSUME TypeInv, NEW p \in Preparers, Throw(p) \/ Crash(p)
  PROVE  TypeInv' /\ Quiet(p)
<1>1. CASE Throw(p)
  <2>1. faults' \in 0..MaxFaults
    BY <1>1, VoiceTransactionAssumption DEF VoiceTransactionAssumption, Throw, TypeInv, TypeOK, EnvTypes
  <2> QED
    BY <1>1, <2>1, RaiseQuiet DEF Throw
<1>2. CASE Crash(p)
  <2>1. /\ prep' \in [Preparers -> Runs] /\ LeaseTypes' /\ prep'[p].at = "idle"
        /\ \A q \in Preparers \ {p} : prep'[q] = prep[q]
    BY <1>2, EndMoves, ReleaseTypes DEF Crash
  <2>2. crashes' \in 0..MaxCrashes
    BY <1>2, VoiceTransactionAssumption DEF VoiceTransactionAssumption, Crash, TypeInv, TypeOK, EnvTypes
  <2>3. TypeOK' /\ Quiet(p)
    BY <1>2, <2>1, <2>2
    DEF Crash, TypeInv, TypeOK, DiskTypes, EnvTypes, diskVars, Quiet, Planning, Replacing
  <2> QED
    BY <2>1, <2>3, InHandMoves DEF TypeInv
<1> QED
  BY <1>1, <1>2

-----------------------------------------------------------------------------
(* The steps that write files, backups or new transactions.                *)

LEMMA StageKeeps ==
  ASSUME KeepInv, NEW p \in Preparers, Stage(p)
  PROVE  KeepInv'
<1>1. TypeInv BY DEF KeepInv
<1>2. /\ LeaseTypes' /\ prep[p].at = "recover"
  BY <1>1, ReleaseTypes DEF Stage, At
<1>3. CASE prep' = [prep EXCEPT ![p] = Idle] /\ UNCHANGED stage
  <2>1. /\ prep' \in [Preparers -> Runs] /\ prep'[p].at = "idle"
        /\ \A q \in Preparers \ {p} : prep'[q] = prep[q]
    BY <1>1, <1>3, EndMoves
  <2>2. TypeOK' /\ Quiet(p)
    BY <1>1, <1>2, <1>3, <2>1
    DEF Stage, TypeInv, TypeOK, DiskTypes, EnvTypes, envVars, Quiet, Planning, Replacing
  <2> QED
    BY <1>1, <2>1, <2>2, InHandMoves, QuietKeeps DEF TypeInv, KeepInv
<1>4. ASSUME NEW k \in Transactions, stage[k] = Unused, Record(k, "CREATED"),
             prep' = [prep EXCEPT ![p] = [Idle EXCEPT !.at = "plan", !.txn = k, !.mine = TRUE]]
      PROVE  KeepInv'
  <2>1. /\ prep' \in [Preparers -> Runs]
        /\ prep'[p].at = "plan" /\ prep'[p].txn = k
        /\ \A q \in Preparers \ {p} : prep'[q] = prep[q]
    BY <1>1, <1>4, IdleRun, Members DEF TypeInv, TypeOK, Runs, Idle
  <2>2. /\ stage' \in [Transactions -> Stages] /\ stage'[k] # Unused
        /\ \A l \in Transactions : stage'[l] = Unused => stage[l] = Unused
    <3>1. "CREATED" \in Stages \ {Unused}
      BY Members DEF Unused
    <3> QED
      BY <1>1, <1>4, <3>1, RecordIsTyped DEF Record, TypeInv, TypeOK, DiskTypes
  <2>3. NoBackup(k)
    BY <1>4 DEF KeepInv, Begun
  <2>4. UNCHANGED <<file, marker, before, backup, reader, faults, envVars>>
    BY DEF Stage
  <2>5. TypeInv'
    BY <1>1, <1>2, <2>1, <2>2, <2>4, InHandMoves DEF TypeInv, TypeOK, DiskTypes, EnvTypes, envVars
  <2>6. ASSUME NEW q \in Preparers \ {p}, prep'[q].at \in Planning
        PROVE  prep'[q].txn \in Transactions \ {k} /\ stage[prep'[q].txn] # Unused /\ NoBackup(prep'[q].txn)
    BY <1>1, <1>4, <2>1, <2>6 DEF KeepInv, Fresh, TypeInv, InHand, Planning
  <2>7. Fresh'
    <3> SUFFICES ASSUME NEW q \in Preparers, prep'[q].at \in Planning
                 PROVE  /\ stage'[prep'[q].txn] # Unused
                        /\ \A i \in Items : backup'[prep'[q].txn][i] # Original
      BY DEF Fresh, NoBackup
    <3>1. CASE q = p
      BY <3>1, <2>1, <2>2, <2>3, <2>4 DEF NoBackup
    <3>2. CASE q # p
      BY <3>2, <2>2, <2>4, <2>6 DEF NoBackup
    <3> QED
      BY <3>1, <3>2
  <2>8. Distinct'
    BY <2>1, <2>6 DEF KeepInv, Distinct
  <2>9. (Begun /\ OriginalsSurvive)'
    BY <2>2, <2>4 DEF KeepInv, Begun, NoBackup, OriginalsSurvive, envVars
  <2>10. SavedFirst'
    <3>1. "plan" \notin Replacing
      BY DEF Replacing
    <3> QED
      BY <3>1, <2>1, <2>4 DEF KeepInv, SavedFirst, Saved, envVars
  <2> QED
    BY <2>5, <2>7, <2>8, <2>9, <2>10 DEF KeepInv
<1> QED
  BY <1>3, <1>4 DEF Stage

\* A backup is taken of every file as it is, before any of them is replaced.
LEMMA BackUpKeeps ==
  ASSUME KeepInv, NEW p \in Preparers, BackUp(p)
  PROVE  KeepInv'
<1> DEFINE k == prep[p].txn
<1>1. TypeInv BY DEF KeepInv
<1>2. /\ k \in Transactions /\ prep[p].at = "backup" /\ NoBackup(k)
  BY <1>1 DEF BackUp, At, KeepInv, Fresh, TypeInv, InHand, Planning
<1>3. /\ prep' \in [Preparers -> Runs]
      /\ prep'[p].at = "mark" /\ prep'[p].txn = k
      /\ \A q \in Preparers \ {p} : prep'[q] = prep[q]
  BY <1>1, GotoMoves, Members DEF BackUp
<1>4. /\ stage' \in [Transactions -> Stages]
      /\ \A l \in Transactions : stage'[l] = Unused => stage[l] = Unused
      /\ stage'[k] # Unused
  <2>1. "BACKED_UP" \in Stages \ {Unused}
    BY Members DEF Unused
  <2> QED
    BY <1>1, <1>2, <2>1, RecordIsTyped DEF BackUp, Record, TypeInv, TypeOK, DiskTypes
<1>5. /\ backup' \in [Transactions -> [Items -> Inodes]]
      /\ backup'[k] = file /\ \A l \in Transactions \ {k} : backup'[l] = backup[l]
  BY <1>1, <1>2 DEF BackUp, TypeInv, TypeOK, DiskTypes
<1>6. UNCHANGED <<file, marker, before, leaseVars, reader, faults, envVars>>
  BY DEF BackUp
<1>7. TypeInv'
  BY <1>1, <1>2, <1>3, <1>4, <1>5, <1>6, InHandMoves
  DEF TypeInv, TypeOK, DiskTypes, LeaseTypes, EnvTypes, leaseVars, envVars
<1>8. installed \subseteq Items
  BY <1>1, VoiceTransactionAssumption
  DEF VoiceTransactionAssumption, TypeInv, TypeOK, EnvTypes, Items
<1>9. ASSUME NEW i \in Items, file[i] = Original \/ Saved(i)
      PROVE  \E l \in Transactions : backup'[l][i] = Original
  <2>1. CASE file[i] = Original
    BY <2>1, <1>2, <1>5
  <2>2. CASE Saved(i)
    BY <2>2, <1>2, <1>5 DEF Saved, NoBackup
  <2> QED
    BY <1>9, <2>1, <2>2
<1>10. \A i \in installed \ replaced : \E l \in Transactions : backup'[l][i] = Original
  BY <1>8, <1>9 DEF KeepInv, OriginalsSurvive, Saved
<1>11. (SavedFirst /\ OriginalsSurvive)'
  BY <1>6, <1>10 DEF SavedFirst, Saved, OriginalsSurvive, envVars
<1>12. Begun'
  BY <1>4, <1>5 DEF KeepInv, Begun, NoBackup
<1>13. "mark" \notin Planning
  BY DEF Planning
<1>14. Fresh'
  <2> SUFFICES ASSUME NEW q \in Preparers, prep'[q].at \in Planning
               PROVE  /\ stage'[prep'[q].txn] # Unused
                      /\ \A i \in Items : backup'[prep'[q].txn][i] # Original
    BY DEF Fresh, NoBackup
  <2>1. q # p /\ prep'[q] = prep[q]
    BY <1>3, <1>13
  <2>2. prep[q].txn \in Transactions \ {k}
    BY <1>1, <1>2, <2>1 DEF KeepInv, Distinct, TypeInv, InHand, Planning
  <2>3. stage[prep[q].txn] # Unused /\ NoBackup(prep[q].txn)
    BY <2>1 DEF KeepInv, Fresh
  <2> QED
    BY <1>4, <1>5, <2>1, <2>2, <2>3 DEF NoBackup
<1>15. Distinct'
  BY <1>3, <1>13 DEF KeepInv, Distinct
<1> QED
  BY <1>7, <1>11, <1>12, <1>14, <1>15 DEF KeepInv

\* A step of a preparer past its planning, or of no preparer, that writes one file and
\* leaves every original that is still the user's in place or in a backup.
LEMMA WriteKeeps ==
  ASSUME KeepInv, TypeInv', UNCHANGED <<stage, backup, installed>>, replaced \subseteq replaced',
         \A q \in Preparers : prep'[q] = prep[q] \/ (/\ prep'[q].at \notin Planning
                                                     /\ prep'[q].at \in Replacing => prep[q].at \in Replacing),
         \A i \in installed \ replaced' : file'[i] = file[i] \/ file'[i] = Original \/ Saved(i)
  PROVE  KeepInv'
<1>1. (Begun /\ Fresh /\ Distinct)'
  BY DEF KeepInv, Begun, NoBackup, Fresh, Distinct
<1>2. SavedFirst'
  BY DEF KeepInv, SavedFirst, Saved
<1>3. OriginalsSurvive'
  BY DEF KeepInv, OriginalsSurvive, Saved
<1> QED
  BY <1>1, <1>2, <1>3 DEF KeepInv

LEMMA ReplaceKeeps ==
  ASSUME KeepInv, NEW p \in Preparers, Replace(p) \/ ReplaceConfig(p)
  PROVE  KeepInv'
<1>1. TypeInv BY DEF KeepInv
<1>2. /\ prep[p].txn \in Transactions /\ prep[p].at \in {"replace", "config"}
  BY <1>1 DEF Replace, ReplaceConfig, At, TypeInv, InHand
<1>3. /\ prep' \in [Preparers -> Runs]
      /\ prep'[p].at \in {"replace", "commit"} /\ prep'[p].txn = prep[p].txn
      /\ \A q \in Preparers \ {p} : prep'[q] = prep[q]
  <2>1. CASE Replace(p)
    <3>1. prep[p].item + 1 \in 0..Last
      BY <1>1, <2>1, VoiceTransactionAssumption
      DEF VoiceTransactionAssumption, Replace, TypeInv, TypeOK, Runs
    <3> QED
      BY <1>1, <2>1, <3>1, GotoItemMoves, Members DEF Replace
  <2>2. CASE ReplaceConfig(p)
    BY <1>1, <2>2, GotoMoves, Members DEF ReplaceConfig
  <2> QED
    BY <2>1, <2>2
<1>4. PICK i : file' = [file EXCEPT ![i] = prep[p].txn]
  BY DEF Replace, ReplaceConfig
<1>5. UNCHANGED <<marker, stage, before, backup, leaseVars, reader, faults, envVars>>
  BY DEF Replace, ReplaceConfig
<1>6. TypeInv'
  BY <1>1, <1>2, <1>3, <1>4, <1>5, InHandMoves, Members
  DEF TypeInv, TypeOK, DiskTypes, LeaseTypes, EnvTypes, leaseVars, envVars
<1>7. \A j \in installed \ replaced : Saved(j)
  BY <1>2 DEF KeepInv, SavedFirst, Replacing
<1>8. /\ prep'[p].at \notin Planning
      /\ prep[p].at \in Replacing
  BY <1>2, <1>3 DEF Planning, Replacing
<1> QED
  BY <1>3, <1>5, <1>6, <1>7, <1>8, WriteKeeps DEF envVars

\* What a rollback puts back over an original is the original: it has recognized the
\* file by its digest, and nothing else has the digest of an original.
LEMMA RestoreKeeps ==
  ASSUME KeepInv, NEW p \in Preparers, Restore(p)
  PROVE  KeepInv'
<1> DEFINE k == prep[p].txn
           i == prep[p].item
<1>1. TypeInv BY DEF KeepInv
<1>2. /\ k \in Transactions /\ prep[p].at = "restore" /\ i \in Items
  BY <1>1, VoiceTransactionAssumption
  DEF VoiceTransactionAssumption, Restore, At, TypeInv, TypeOK, Runs, InHand, Items
<1>3. i - 1 \in 0..Last
  BY <1>2, VoiceTransactionAssumption DEF VoiceTransactionAssumption, Items
<1>4. /\ prep' \in [Preparers -> Runs]
      /\ prep'[p].at = "restore" /\ prep'[p].txn = k
      /\ \A q \in Preparers \ {p} : prep'[q] = prep[q]
  BY <1>1, <1>3, GotoItemMoves, Members DEF Restore
<1>5. /\ file' = [file EXCEPT ![i] = IF before[k][i] = Absent THEN Absent ELSE backup[k][i]]
      /\ UNCHANGED <<marker, stage, before, backup, leaseVars, reader, faults, envVars>>
      /\ Recognized(k, i)
  BY DEF Restore, CanRestore
<1>6. backup[k][i] \in Inodes /\ before[k][i] \in Inodes /\ file[i] \in Inodes
  BY <1>1, <1>2 DEF TypeInv, TypeOK, DiskTypes
<1>7. TypeInv'
  BY <1>1, <1>2, <1>4, <1>5, <1>6, InHandMoves, Members
  DEF TypeInv, TypeOK, DiskTypes, LeaseTypes, EnvTypes, leaseVars, envVars
<1>8. ASSUME NEW x, Digest(x) = Original PROVE x = Original
  BY <1>8 DEF Digest, Prepared, Original
<1>9. file[i] = Original => file'[i] = Original
  <2> SUFFICES ASSUME file[i] = Original PROVE file'[i] = Original
    OBVIOUS
  <2>1. Digest(file[i]) = Original
    BY DEF Digest, Original, Transactions
  <2>2. Original # Absent /\ Original # Prepared
    BY DEF Original, Absent, Prepared
  <2>3. Digest(before[k][i]) = Original
    BY <1>5, <2>1, <2>2 DEF Recognized
  <2>4. before[k][i] = Original
    BY <1>8, <2>3
  <2>5. backup[k][i] = Original
    BY <1>5, <1>8, <2>2, <2>3, <2>4 DEF Recognized
  <2> QED
    BY <1>1, <1>2, <1>5, <2>2, <2>4, <2>5 DEF TypeInv, TypeOK, DiskTypes
<1>10. \A j \in installed : file'[j] = file[j] \/ file'[j] = Original \/ file[j] # Original
  BY <1>1, <1>2, <1>5, <1>9, VoiceTransactionAssumption
  DEF VoiceTransactionAssumption, TypeInv, TypeOK, DiskTypes, EnvTypes, Items
<1>11. \A j \in installed \ replaced : file'[j] = file[j] \/ file'[j] = Original \/ Saved(j)
  BY <1>10 DEF KeepInv, OriginalsSurvive, Saved
<1>12. "restore" \notin Planning \cup Replacing
  BY DEF Planning, Replacing
<1>13. \A q \in Preparers : prep'[q] = prep[q] \/ (/\ prep'[q].at \notin Planning
                                                   /\ prep'[q].at \in Replacing => prep[q].at \in Replacing)
  BY <1>4, <1>12
<1> QED
  BY <1>5, <1>7, <1>11, <1>13, WriteKeeps DEF envVars

LEMMA EditKeeps ==
  ASSUME KeepInv, NEW i \in Items, Edit(i)
  PROVE  KeepInv'
<1>1. TypeInv BY DEF KeepInv
<1>2. Alien \in Inodes /\ edits' \in 0..MaxEdits
  BY <1>1, VoiceTransactionAssumption
  DEF VoiceTransactionAssumption, Edit, Alien, Inodes, TypeInv, TypeOK, EnvTypes
<1>3. /\ file' \in [Items -> Inodes] /\ \A j \in Items \ {i} : file'[j] = file[j]
      /\ replaced' = replaced \cup {i}
      /\ UNCHANGED <<marker, stage, before, backup, leaseVars, prep, reader, faults, installed, crashes, loads>>
  BY <1>1, <1>2 DEF Edit, TypeInv, TypeOK, DiskTypes
<1>4. TypeInv'
  BY <1>1, <1>2, <1>3
  DEF TypeInv, TypeOK, DiskTypes, LeaseTypes, EnvTypes, leaseVars, InHand
<1>5. installed \subseteq Items
  BY <1>1, VoiceTransactionAssumption
  DEF VoiceTransactionAssumption, TypeInv, TypeOK, EnvTypes, Items
<1> QED
  BY <1>3, <1>4, <1>5, WriteKeeps

-----------------------------------------------------------------------------
(* Readers, and steps that change nothing.                                 *)

LEMMA ReaderKeeps ==
  ASSUME KeepInv, NEW r \in Readers, Open(r) \/ Load(r)
  PROVE  KeepInv'
<1>1. TypeInv BY DEF KeepInv
<1>2. reader' \in [Readers -> Loads]
  <2>1. CASE Open(r)
    BY <1>1, <2>1 DEF Open, TypeInv, TypeOK, Loads
  <2>2. Closed \in Loads
    BY Members DEF Closed, Loads
  <2>3. CASE Admit(r)
    BY <1>1, <2>2, <2>3 DEF Admit, TypeInv, TypeOK, Loads
  <2>4. CASE Read(r)
    <3> DEFINE i == reader[r].item
               n == IF i = Last THEN 1 ELSE i + 1
    <3>1. reader[r] \in Loads /\ i \in Items /\ file[i] \in Inodes
      BY <1>1 DEF TypeInv, TypeOK, DiskTypes, Loads
    <3>2. n \in Items
      BY <3>1, VoiceTransactionAssumption DEF VoiceTransactionAssumption, Items
    <3>3. Digest(file[i]) \in Inodes
      BY <3>1, VoiceTransactionAssumption
      DEF VoiceTransactionAssumption, Digest, Prepared, Inodes, Transactions
    <3>4. [at |-> IF i = Last THEN "loaded" ELSE "loading", item |-> n,
           read |-> reader[r].read \cup {Digest(file[i])}] \in Loads
      BY <3>1, <3>2, <3>3 DEF Loads
    <3> QED
      BY <1>1, <2>4, <3>4 DEF Read, TypeInv, TypeOK
  <2>5. CASE Unload(r)
    BY <1>1, <2>2, <2>5 DEF Unload, TypeInv, TypeOK
  <2> QED
    BY <2>1, <2>3, <2>4, <2>5 DEF Load
<1>3. loads' \in 0..MaxLoads
  BY <1>1, VoiceTransactionAssumption
  DEF VoiceTransactionAssumption, Open, Load, Admit, Read, Unload, envVars, TypeInv, TypeOK, EnvTypes
<1>4. UNCHANGED <<diskVars, leaseVars, prep, faults, installed, replaced, crashes, edits>>
  BY DEF Open, Load, Admit, Read, Unload, envVars
<1>5. TypeInv'
  BY <1>1, <1>2, <1>3, <1>4
  DEF TypeInv, TypeOK, DiskTypes, LeaseTypes, EnvTypes, diskVars, leaseVars, InHand
<1> QED
  BY <1>4, <1>5, WriteKeeps DEF diskVars

LEMMA StutterKeeps ==
  ASSUME KeepInv, UNCHANGED vars
  PROVE  KeepInv'
<1>1. TypeInv'
  BY DEF KeepInv, TypeInv, TypeOK, DiskTypes, LeaseTypes, EnvTypes, InHand, vars, diskVars, leaseVars, envVars
<1> QED
  BY <1>1, WriteKeeps DEF vars, diskVars, envVars

-----------------------------------------------------------------------------
(* The invariant, and what it shows.                                       *)

LEMMA KeepInvHolds == Init => KeepInv
<1> SUFFICES ASSUME Init PROVE KeepInv
  OBVIOUS
<1>1. /\ file \in [Items -> Inodes] /\ installed \subseteq Items
      /\ \A i \in installed : file[i] = Original
  BY Members, VoiceTransactionAssumption DEF VoiceTransactionAssumption, Init, Items
<1>2. DiskTypes
  BY <1>1, Members DEF Init, DiskTypes
<1>3. prep \in [Preparers -> Runs] /\ \A p \in Preparers : prep[p].at = "idle"
  BY IdleRun DEF Init, Idle
<1>4. reader \in [Readers -> Loads]
  BY Members DEF Init, Closed, Loads
<1>5. EnvTypes
  BY VoiceTransactionAssumption DEF VoiceTransactionAssumption, Init, EnvTypes
<1>6. TypeInv
  BY <1>2, <1>3, <1>4, <1>5 DEF Init, TypeInv, TypeOK, LeaseTypes, InHand
<1>7. Begun
  BY DEF Init, Begun, NoBackup, Original, Absent
<1>8. Fresh /\ Distinct /\ SavedFirst
  BY <1>3 DEF Fresh, Distinct, SavedFirst, Planning, Replacing
<1>9. OriginalsSurvive
  BY <1>1 DEF OriginalsSurvive
<1> QED
  BY <1>6, <1>7, <1>8, <1>9 DEF KeepInv

LEMMA KeepInvIsKept == KeepInv /\ [Next]_vars => KeepInv'
<1> SUFFICES ASSUME KeepInv, [Next]_vars PROVE KeepInv'
  OBVIOUS
<1>1. TypeInv BY DEF KeepInv
<1>2. ASSUME NEW p \in Preparers, RecoveryQuietly(p) PROVE KeepInv'
  BY <1>1, <1>2, RecoveryIsQuiet, QuietKeeps DEF KeepInv
<1>3. ASSUME NEW p \in Preparers, PublicationQuietly(p) PROVE KeepInv'
  BY <1>1, <1>3, PublicationIsQuiet, QuietKeeps DEF KeepInv
<1>4. ASSUME NEW p \in Preparers, Throw(p) \/ Crash(p) PROVE KeepInv'
  BY <1>1, <1>4, FailureIsQuiet, QuietKeeps DEF KeepInv
<1>5. ASSUME NEW p \in Preparers, Recovery(p) PROVE RecoveryQuietly(p) \/ Restore(p)
  BY <1>5 DEF Recovery, RecoveryQuietly
<1>6. ASSUME NEW p \in Preparers, Publication(p)
      PROVE  PublicationQuietly(p) \/ Stage(p) \/ BackUp(p) \/ Replace(p) \/ ReplaceConfig(p)
  BY <1>6 DEF Publication, PublicationQuietly
<1>7. ASSUME NEW p \in Preparers, Start(p) PROVE RecoveryQuietly(p)
  BY <1>7 DEF RecoveryQuietly
<1> QED
  BY <1>2, <1>3, <1>4, <1>5, <1>6, <1>7, StageKeeps, BackUpKeeps, ReplaceKeeps, RestoreKeeps,
     EditKeeps, ReaderKeeps, StutterKeeps DEF Next

\* Every reachable state of the publication is well typed, and the handle on model.json
\* is never held by nobody: directory_lease gives both back however the run ends.
THEOREM TypeCorrect == Spec => []TypeOK
<1>1. KeepInv => TypeOK
  BY DEF KeepInv, TypeInv
<1> QED
  BY <1>1, KeepInvHolds, KeepInvIsKept, PTL DEF Spec

\* A file that was there before the first run is in its place or in the backup of some
\* transaction until the user replaces it, whatever fails or is killed in
\* VoiceTransaction.publish and rollback, and however many runs recover.
THEOREM NothingIsLost == Spec => []OriginalsSurvive
<1>1. KeepInv => OriginalsSurvive
  BY DEF KeepInv
<1> QED
  BY <1>1, KeepInvHolds, KeepInvIsKept, PTL DEF Spec

-----------------------------------------------------------------------------
(* What keeps readers out: the invariant behind NoMixedLoad and MixIsMarked. *)

\* The files are as k found them, but for those the user has written.
AsFound(k) == \A i \in Items : file[i] = before[k][i] \/ file[i] \notin Transactions \cup {Original, Absent}

\* A rollback of k has something to change, model.json is there or will be restored,
\* and neither the marker nor the handle on model.json keeps readers out.
Uncovered(k) ==
  /\ marker = NoMarker /\ ~barrier
  /\ ~(file[Last] = Absent /\ before[k][Last] = Absent) /\ ~AsFound(k)

\* A recovery begins to change a voice that readers may open.
ExposedRollback == \E p \in Preparers, k \in Transactions : RecoverRollsBack(p, k) /\ Uncovered(k)

\* A publication is interrupted when its marker is gone.
LateInterrupt == \E p \in Preparers : At(p, "leave") /\ Throw(p)

Careful == ~ExposedRollback /\ ~LateInterrupt

\* The stages before a backup, and the steps after it.
Early == {"CREATED", "STAGED", "ABORTED"}
Beyond == {"mark", "publishing", "rollback", "block"} \cup InPublish \cup InRollback

\* The steps at which the marker names the transaction in hand.
Marking == ({"publishing"} \cup InPublish) \ {"leave"}

\* A voice that is half old and half new has no model.json.
Whole(f) ==
  (\E i, j \in Items : Digest(f[i]) = Prepared /\ f[j] \in {Original, Absent}) => f[Last] = Absent

Owned(p) == prep[p].at \notin {"idle", "plan", "publish"} => owner = p
Begins(p) == prep[p].at \in Planning => stage[prep[p].txn] \in Early
Passed(p) == prep[p].at \in Beyond => stage[prep[p].txn] \notin Early
Marked(p) == prep[p].at \in Marking => marker = prep[p].txn

Covered(p) ==
  /\ prep[p].at \in {"backup", "mark"} => marker # NoMarker \/ barrier \/ file[Last] = Absent
  /\ prep[p].at \in {"rollback", "check"} => ~Uncovered(prep[p].txn)
  /\ prep[p].at = "check" => prep[p].item = Last
  /\ prep[p].at = "restore" =>
       IF prep[p].item = Last THEN ~Uncovered(prep[p].txn)
       ELSE marker # NoMarker \/ file[Last] = Absent \/ AsFound(prep[p].txn)
  /\ prep[p].at \in {"clear", "unmark"} => Whole(file)

Safe(p) == Owned(p) /\ Begins(p) /\ Passed(p) /\ Marked(p) /\ Covered(p)

\* What a transaction past its backup has planned on, and would restore.
WholePlans == \A k \in Transactions : stage[k] \notin Early => Whole(before[k]) /\ backup[k] = before[k]

\* What a reader has read or will read.
Seen(r, digest) == digest \in reader[r].read \/ \E i \in Items : Digest(file[i]) = digest

\* A reader keeps model.json where it is, and once admitted meets files of one kind.
Holds(r) == reader[r].at # "closed" => file[Last] # Absent /\ ~barrier
Reads(r) ==
  /\ reader[r].at \in {"closed", "opened"} => reader[r].read = {}
  /\ reader[r].at \in {"loading", "loaded"} =>
       marker = NoMarker /\ ~(Seen(r, Original) /\ Seen(r, Prepared))

KeptOut == \A r \in Readers : Holds(r) /\ Reads(r)

CoverInv == (\A p \in Preparers : Safe(p)) /\ WholePlans /\ MixIsMarked /\ KeptOut

\* Of the stages, a step of p changes that of its transaction, or aborts one.
StageStep(p) ==
  \A k \in Transactions :
    \/ stage'[k] = stage[k] \/ stage'[k] \in Early
    \/ k = prep[p].txn /\ prep[p].at \in Beyond \cup {"backup"}

Others(p) == \A q \in Preparers \ {p} : prep'[q] = prep[q]

-----------------------------------------------------------------------------
(* What any step by the owner of the mutex leaves alone.                   *)

LEMMA OthersAreSafe ==
  ASSUME KeepInv, CoverInv, NEW p \in Preparers, owner = p, Others(p), StageStep(p),
         NEW q \in Preparers, q # p
  PROVE  Safe(q)'
<1>1. prep'[q] = prep[q] /\ Safe(q) /\ Safe(p)
  BY DEF Others, CoverInv
<1>2. prep[q].at \in {"idle", "plan", "publish"}
  BY <1>1 DEF Safe, Owned
<1>3. ASSUME prep[q].at \in Planning PROVE stage'[prep[q].txn] \in Early
  <2>1. prep[q].txn \in Transactions /\ stage[prep[q].txn] \in Early
    BY <1>1, <1>3 DEF KeepInv, TypeInv, InHand, Planning, Safe, Begins
  <2>2. CASE prep[q].txn = prep[p].txn
    <3>1. prep[p].at \notin Beyond
      BY <1>1, <2>1, <2>2 DEF Safe, Passed
    <3>2. prep[p].at # "backup"
      BY <1>3, <2>2 DEF KeepInv, Distinct, Planning
    <3> QED
      BY <2>1, <2>2, <3>1, <3>2 DEF StageStep
  <2> QED
    BY <2>1, <2>2 DEF StageStep
<1>4. prep[q].at \notin Beyond /\ prep[q].at \notin Marking
  BY <1>2 DEF Beyond, Marking, InPublish, InRollback
<1> QED
  BY <1>1, <1>2, <1>3, <1>4 DEF Safe, Owned, Begins, Passed, Marked, Covered, Planning

LEMMA OwnerCovers ==
  ASSUME KeepInv, CoverInv, NEW p \in Preparers, owner = p, Others(p), StageStep(p),
         Safe(p)', WholePlans', MixIsMarked', KeptOut'
  PROVE  CoverInv'
<1>1. \A q \in Preparers : Safe(q)'
  BY OthersAreSafe
<1> QED
  BY <1>1 DEF CoverInv

LEMMA WholePlansStay ==
  ASSUME CoverInv, NEW p \in Preparers, StageStep(p), UNCHANGED before,
         \/ UNCHANGED backup /\ (prep[p].at # "backup" \/ UNCHANGED stage)
         \/ /\ Whole(before[prep[p].txn]) /\ backup'[prep[p].txn] = before[prep[p].txn]
            /\ \A k \in Transactions \ {prep[p].txn} : backup'[k] = backup[k]
  PROVE  WholePlans'
<1> SUFFICES ASSUME NEW k \in Transactions, stage'[k] \notin Early
             PROVE  Whole(before[k])' /\ backup'[k] = before'[k]
  BY DEF WholePlans
<1>1. Whole(before[k]) /\ backup'[k] = before[k]
  <2>1. CASE stage[k] \notin Early
    BY <2>1 DEF CoverInv, WholePlans
  <2>2. CASE stage[k] \in Early
    <3>1. k = prep[p].txn /\ prep[p].at \in Beyond \cup {"backup"} /\ stage'[k] # stage[k]
      BY <2>2 DEF StageStep
    <3>2. prep[p].at = "backup"
      BY <2>2, <3>1 DEF CoverInv, Safe, Passed
    <3> QED
      BY <3>1, <3>2
  <2> QED
    BY <2>1, <2>2
<1> QED
  BY <1>1 DEF Whole

LEMMA MixStays ==
  ASSUME CoverInv, UNCHANGED <<file, marker>>
  PROVE  MixIsMarked'
BY DEF CoverInv, MixIsMarked, Half

\* Readers are kept out as before when the files stay and the marker does not come.
LEMMA KeptOutStays ==
  ASSUME CoverInv, UNCHANGED <<file, reader>>, marker = NoMarker => marker' = NoMarker,
         barrier' => barrier \/ (file[Last] # Absent => ~Held)
  PROVE  KeptOut'
<1> SUFFICES ASSUME NEW r \in Readers PROVE Holds(r)' /\ Reads(r)'
  BY DEF KeptOut
<1>1. Holds(r) /\ Reads(r)
  BY DEF CoverInv, KeptOut
<1>2. Holds(r)'
  BY <1>1 DEF Holds, Held
<1>3. Reads(r)'
  BY <1>1 DEF Reads, Seen
<1> QED
  BY <1>2, <1>3

\* They are kept out of files that change while something covers them.
LEMMA KeptOutOfWrites ==
  ASSUME CoverInv, UNCHANGED reader, marker # NoMarker \/ barrier \/ file[Last] = Absent,
         Held => file'[Last] = file[Last], barrier' => barrier
  PROVE  KeptOut'
<1> SUFFICES ASSUME NEW r \in Readers PROVE Holds(r)' /\ Reads(r)'
  BY DEF KeptOut
<1>1. Holds(r) /\ Reads(r)
  BY DEF CoverInv, KeptOut
<1>2. Holds(r)'
  BY <1>1 DEF Holds, Held
<1>3. Reads(r)'
  BY <1>1 DEF Reads, Holds
<1> QED
  BY <1>2, <1>3

\* MixIsMarked, in the words of Whole.
LEMMA MixIs == MixIsMarked <=> marker # NoMarker \/ Whole(file)
BY DEF MixIsMarked, Half, Whole

-----------------------------------------------------------------------------
(* How a run moves, and where it ends.                                     *)

LEMMA GotoIs ==
  ASSUME TypeInv, NEW p \in Preparers, NEW label, Goto(p, label)
  PROVE  /\ Others(p) /\ prep'[p].at = label
         /\ prep'[p].txn = prep[p].txn /\ prep'[p].item = prep[p].item
         /\ prep'[p].todo = prep[p].todo /\ prep'[p].mine = prep[p].mine
BY DEF Goto, TypeInv, TypeOK, Runs, Others

LEMMA GotoItemIs ==
  ASSUME TypeInv, NEW p \in Preparers, NEW label, NEW i, GotoItem(p, label, i)
  PROVE  /\ Others(p) /\ prep'[p].at = label
         /\ prep'[p].txn = prep[p].txn /\ prep'[p].item = i
         /\ prep'[p].todo = prep[p].todo /\ prep'[p].mine = prep[p].mine
BY DEF GotoItem, TypeInv, TypeOK, Runs, Others

LEMMA EndIs ==
  ASSUME TypeInv, NEW p \in Preparers, prep' = [prep EXCEPT ![p] = Idle]
  PROVE  Others(p) /\ prep'[p].at = "idle" /\ Safe(p)'
<1>1. Others(p) /\ prep'[p].at = "idle"
  BY DEF TypeInv, TypeOK, Others, Idle
<1>2. Safe(p)'
  BY <1>1 DEF Safe, Owned, Begins, Passed, Marked, Covered, Planning, Beyond, Marking, InPublish, InRollback
<1> QED
  BY <1>1, <1>2

LEMMA StageStays == ASSUME UNCHANGED stage, NEW p PROVE StageStep(p)
BY DEF StageStep

\* A label past the planning of a transaction belongs to the owner of the mutex.
LEMMA BeyondOwns ==
  ASSUME CoverInv, NEW p \in Preparers, prep[p].at \in Beyond
  PROVE  owner = p /\ stage[prep[p].txn] \notin Early
BY DEF CoverInv, Safe, Owned, Passed, Beyond, InPublish, InRollback

LEMMA EndCovers ==
  ASSUME KeepInv, CoverInv, NEW p \in Preparers, prep' = [prep EXCEPT ![p] = Idle],
         Release(p), UNCHANGED <<diskVars, reader>>
  PROVE  CoverInv'
<1>1. TypeInv
  BY DEF KeepInv
<1>2. Others(p) /\ prep'[p].at = "idle" /\ Safe(p)'
  BY <1>1, EndIs
<1>3. StageStep(p)
  BY StageStays DEF diskVars
<1>4. ASSUME NEW q \in Preparers, q # p PROVE Safe(q)'
  <2>1. CASE owner = p
    BY <1>2, <1>3, <1>4, <2>1, OthersAreSafe
  <2>2. CASE owner # p
    <3>1. UNCHANGED <<diskVars, leaseVars>> /\ prep'[q] = prep[q]
      BY <1>1, <1>2, <1>4, <2>2 DEF Release, leaseVars, TypeInv, TypeOK, LeaseTypes, Others
    <3>2. Safe(q)
      BY DEF CoverInv
    <3> QED
      BY <3>1, <3>2
      DEF diskVars, leaseVars, Safe, Owned, Begins, Passed, Marked, Covered, Uncovered, AsFound, Whole
  <2> QED
    BY <2>1, <2>2
<1>5. \A q \in Preparers : Safe(q)'
  BY <1>2, <1>4
<1>6. WholePlans' /\ MixIsMarked' /\ KeptOut'
  <2>1. UNCHANGED <<file, marker, stage, before, backup, reader>> /\ (barrier' => barrier)
    BY DEF diskVars, Release
  <2>2. MixIsMarked'
    BY <2>1, MixStays
  <2>3. KeptOut'
    BY <2>1, KeptOutStays
  <2>4. WholePlans'
    BY <1>3, <2>1, WholePlansStay
  <2> QED
    BY <2>2, <2>3, <2>4
<1> QED
  BY <1>5, <1>6 DEF CoverInv

\* A step of the owner that touches no file and no marker, and keeps the lease.
LEMMA StillCovers ==
  ASSUME KeepInv, CoverInv, NEW p \in Preparers, owner = p, Others(p), StageStep(p),
         UNCHANGED <<file, marker, before, backup, reader, leaseVars>>,
         prep[p].at # "backup", Safe(p)'
  PROVE  CoverInv'
<1>1. MixIsMarked'
  BY MixStays
<1>2. KeptOut'
  BY KeptOutStays DEF leaseVars
<1>3. WholePlans'
  BY WholePlansStay
<1> QED
  BY <1>1, <1>2, <1>3, OwnerCovers

LEMMA RaiseCovers ==
  ASSUME KeepInv, CoverInv, NEW p \in Preparers, prep[p].at # "leave", Raise(p),
         UNCHANGED <<diskVars, reader>>
  PROVE  CoverInv'
<1>1. TypeInv
  BY DEF KeepInv
<1>2. StageStep(p)
  BY StageStays DEF diskVars
<1>3. CASE prep[p].at \in InPublish /\ Goto(p, "rollback") /\ UNCHANGED leaseVars
  <2>1. Others(p) /\ prep'[p].at = "rollback" /\ prep'[p].txn = prep[p].txn
    BY <1>1, <1>3, GotoIs
  <2>2. owner = p /\ stage[prep[p].txn] \notin Early
    BY <1>3, BeyondOwns DEF Beyond
  <2>3. marker = prep[p].txn /\ prep[p].txn \in Transactions
    BY <1>1, <1>3 DEF CoverInv, Safe, Marked, Marking, InPublish, TypeInv, InHand
  <2>4. marker # NoMarker
    BY <2>3, Members
  <2>5. Safe(p)'
    BY <1>3, <2>1, <2>2, <2>4
    DEF Safe, Owned, Begins, Passed, Marked, Covered, Uncovered, AsFound, Planning, Marking, InPublish,
        diskVars, leaseVars
  <2>6. prep[p].at # "backup"
    BY <1>3 DEF InPublish
  <2> QED
    BY <1>2, <1>3, <2>1, <2>2, <2>5, <2>6, StillCovers DEF diskVars
<1>4. CASE prep[p].at \in InRollback /\ Goto(p, "block") /\ UNCHANGED leaseVars
  <2>1. Others(p) /\ prep'[p].at = "block" /\ prep'[p].txn = prep[p].txn
    BY <1>1, <1>4, GotoIs
  <2>2. owner = p /\ stage[prep[p].txn] \notin Early
    BY <1>4, BeyondOwns DEF Beyond
  <2>3. Safe(p)'
    BY <1>4, <2>1, <2>2
    DEF Safe, Owned, Begins, Passed, Marked, Covered, Planning, Marking, InPublish, diskVars, leaseVars
  <2>4. prep[p].at # "backup"
    BY <1>4 DEF InRollback
  <2> QED
    BY <1>2, <1>4, <2>1, <2>2, <2>3, <2>4, StillCovers DEF diskVars
<1>5. CASE End(p)
  BY <1>5, EndCovers DEF End
<1> QED
  BY <1>3, <1>4, <1>5 DEF Raise

LEMMA LeaseCovers ==
  ASSUME KeepInv, CoverInv, NEW p \in Preparers, Lease(p), Others(p),
         UNCHANGED <<diskVars, reader>>, Safe(p)'
  PROVE  CoverInv'
<1>1. ASSUME NEW q \in Preparers, q # p PROVE Safe(q)'
  <2>1. prep'[q] = prep[q] /\ Safe(q)
    BY <1>1 DEF Others, CoverInv
  <2>2. prep[q].at \in {"idle", "plan", "publish"}
    BY <2>1, VoiceTransactionAssumption DEF VoiceTransactionAssumption, Lease, Safe, Owned
  <2> QED
    BY <2>1, <2>2
    DEF diskVars, Safe, Owned, Begins, Passed, Marked, Covered, Planning, Beyond, Marking,
        InPublish, InRollback
<1>2. StageStep(p) /\ UNCHANGED stage
  BY StageStays DEF diskVars
<1>3. WholePlans'
  BY <1>2, WholePlansStay DEF diskVars
<1>4. MixIsMarked'
  BY MixStays DEF diskVars
<1>5. KeptOut'
  BY KeptOutStays DEF Lease, diskVars
<1> QED
  BY <1>1, <1>3, <1>4, <1>5 DEF CoverInv

\* The lease is the run's own at every step that is neither planning nor idle.
LEMMA OwnerAt ==
  ASSUME CoverInv, NEW p \in Preparers, NEW label, At(p, label),
         label \notin {"idle", "plan", "publish"}
  PROVE  owner = p
BY DEF CoverInv, Safe, Owned, At

LEMMA MarkedOrWhole ==
  ASSUME marker' # NoMarker \/ Whole(file)'
  PROVE  MixIsMarked'
BY DEF MixIsMarked, Half, Whole

LEMMA PublishedIsWhole == Published => Whole(file)
BY DEF Published, Whole, Digest, Prepared, Original, Absent, Transactions

-----------------------------------------------------------------------------
(* The actions of a recovery.                                              *)

LEMMA StartCovers ==
  ASSUME KeepInv, CoverInv, NEW p \in Preparers, Start(p)
  PROVE  CoverInv'
<1>1. Others(p) /\ prep'[p].at = "recover"
  BY DEF Start, KeepInv, TypeInv, TypeOK, Others, Idle
<1>2. Safe(p)'
  BY <1>1
  DEF Start, Lease, Safe, Owned, Begins, Passed, Marked, Covered, Planning, Beyond, Marking,
      InPublish, InRollback
<1> QED
  BY <1>1, <1>2, LeaseCovers DEF Start

\* A run that goes on looking at journals has no obligation but the mutex.
LEMMA RecoveringIsSafe ==
  ASSUME NEW p \in Preparers, prep'[p].at \in {"recover", "unresolved"}, owner' = p
  PROVE  Safe(p)'
BY DEF Safe, Owned, Begins, Passed, Marked, Covered, Planning, Beyond, Marking, InPublish, InRollback

LEMMA RecoverNextCovers ==
  ASSUME KeepInv, CoverInv, NEW p \in Preparers, NEW k \in Transactions, RecoverNext(p, k)
  PROVE  CoverInv'
<1>1. owner = p /\ owner' = p /\ barrier' = barrier /\ UNCHANGED <<file, before, backup, reader>>
  BY OwnerAt DEF RecoverNext, leaseVars
<1>2. Others(p) /\ prep'[p].at = "recover" /\ prep[p].at = "recover"
  BY DEF RecoverNext, At, KeepInv, TypeInv, TypeOK, Runs, Others
<1>3. Safe(p)'
  BY <1>1, <1>2, RecoveringIsSafe
<1>4. StageStep(p)
  BY DEF RecoverNext, Record, StageStep, Early, KeepInv, TypeInv, TypeOK, DiskTypes
<1>5. WholePlans'
  BY <1>1, <1>2, <1>4, WholePlansStay
<1>6. MixIsMarked'
  <2>1. CASE UNCHANGED marker
    BY <1>1, <2>1, MixStays
  <2>2. CASE marker' # marker
    <3>1. Whole(file)
      BY <2>2, PublishedIsWhole DEF RecoverNext
    <3>2. Whole(file)'
      BY <1>1, <3>1 DEF Whole
    <3> QED
      BY <3>2, MarkedOrWhole
  <2> QED
    BY <2>1, <2>2
<1>7. KeptOut'
  BY <1>1, KeptOutStays DEF RecoverNext
<1> QED
  BY <1>1, <1>2, <1>3, <1>4, <1>5, <1>6, <1>7, OwnerCovers

LEMMA RecoverRollsBackCovers ==
  ASSUME KeepInv, CoverInv, NEW p \in Preparers, NEW k \in Transactions, RecoverRollsBack(p, k),
         ~Uncovered(k)
  PROVE  CoverInv'
<1>1. owner = p /\ UNCHANGED <<file, marker, stage, before, backup, reader, leaseVars>>
  BY OwnerAt DEF RecoverRollsBack, diskVars
<1>2. /\ Others(p) /\ prep[p].at = "recover"
      /\ prep'[p].at = "rollback" /\ prep'[p].txn = k
  BY DEF RecoverRollsBack, At, KeepInv, TypeInv, TypeOK, Runs, Idle, Others
<1>3. stage[k] \notin Early
  BY DEF RecoverRollsBack, ToRollBack, Settled, ToAbort, Early
<1>4. Safe(p)'
  BY <1>1, <1>2, <1>3
  DEF leaseVars, Safe, Owned, Begins, Passed, Marked, Covered, Uncovered, AsFound, Planning, Marking, InPublish
<1>5. StageStep(p)
  BY <1>1, StageStays
<1> QED
  BY <1>1, <1>2, <1>4, <1>5, StillCovers

LEMMA RecoverFindsMarkerCovers ==
  ASSUME KeepInv, CoverInv, NEW p \in Preparers, RecoverFindsMarker(p)
  PROVE  CoverInv'
<1>1. owner = p /\ UNCHANGED <<file, marker, stage, before, backup, reader, leaseVars>>
  BY OwnerAt DEF RecoverFindsMarker, diskVars
<1>2. Others(p) /\ prep'[p].at = "unresolved" /\ prep[p].at = "recover"
  BY GotoIs DEF RecoverFindsMarker, At, KeepInv
<1>3. Safe(p)' /\ StageStep(p)
  BY <1>1, <1>2, RecoveringIsSafe, StageStays DEF leaseVars
<1> QED
  BY <1>1, <1>2, <1>3, StillCovers

LEMMA RollbackCovers ==
  ASSUME KeepInv, CoverInv, NEW p \in Preparers, Rollback(p)
  PROVE  CoverInv'
<1>1. owner = p /\ UNCHANGED <<file, marker, before, backup, reader, leaseVars>>
  BY OwnerAt DEF Rollback
<1>2. /\ Others(p) /\ prep[p].at = "rollback" /\ prep[p].txn \in Transactions
      /\ prep'[p].at = "check" /\ prep'[p].txn = prep[p].txn /\ prep'[p].item = Last
  BY GotoItemIs DEF Rollback, At, KeepInv, TypeInv, InHand
<1>3. StageStep(p) /\ stage'[prep[p].txn] = "ROLLING_BACK"
  BY <1>2 DEF Rollback, Record, StageStep, Beyond, KeepInv, TypeInv, TypeOK, DiskTypes
<1>4. ~Uncovered(prep[p].txn)
  BY <1>2 DEF CoverInv, Safe, Covered
<1>5. Safe(p)'
  BY <1>1, <1>2, <1>3, <1>4
  DEF leaseVars, Safe, Owned, Begins, Passed, Marked, Covered, Uncovered, AsFound, Planning, Marking, InPublish, Early
<1> QED
  BY <1>1, <1>2, <1>3, <1>5, StillCovers

LEMMA CheckCovers ==
  ASSUME KeepInv, CoverInv, NEW p \in Preparers, Check(p)
  PROVE  CoverInv'
<1>1. owner = p /\ UNCHANGED <<file, marker, stage, before, backup, reader, leaseVars>>
  BY OwnerAt DEF Check, diskVars
<1>2. /\ Others(p) /\ prep[p].at = "check"
      /\ prep'[p].at = "restore" /\ prep'[p].txn = prep[p].txn /\ prep'[p].item = prep[p].item
  BY GotoIs DEF Check, At, KeepInv
<1>3. /\ ~Uncovered(prep[p].txn) /\ prep[p].item = Last /\ stage[prep[p].txn] \notin Early
  BY <1>2 DEF CoverInv, Safe, Covered, Passed, Beyond, InRollback
<1>4. Safe(p)'
  BY <1>1, <1>2, <1>3
  DEF leaseVars, Safe, Owned, Begins, Passed, Marked, Covered, Uncovered, AsFound, Planning, Marking, InPublish
<1>5. StageStep(p)
  BY <1>1, StageStays
<1> QED
  BY <1>1, <1>2, <1>4, <1>5, StillCovers

\* Where the files are as they were found, there is nothing to put back.
LEMMA RestoresNothing ==
  ASSUME KeepInv, CoverInv, NEW p \in Preparers, Restore(p), AsFound(prep[p].txn)
  PROVE  UNCHANGED file
<1> DEFINE k == prep[p].txn
           i == prep[p].item
<1>1. k \in Transactions /\ i \in Items /\ prep[p].at = "restore"
  BY VoiceTransactionAssumption
  DEF VoiceTransactionAssumption, Restore, At, KeepInv, TypeInv, TypeOK, Runs, InHand, Items
<1>2. backup[k] = before[k]
  BY <1>1 DEF CoverInv, Safe, Passed, Beyond, InRollback, WholePlans
<1>3. file[i] = before[k][i]
  <2>1. /\ file[i] = before[k][i] \/ file[i] \notin Transactions \cup {Original, Absent}
        /\ Recognized(k, i)
    BY <1>1 DEF AsFound, Restore, CanRestore
  <2> SUFFICES ASSUME file[i] \notin Transactions \cup {Original, Absent} PROVE file[i] = before[k][i]
    BY <2>1
  <2>2. 1 \in Transactions
    BY <1>1, VoiceTransactionAssumption DEF VoiceTransactionAssumption, Transactions
  <2>3. Digest(file[i]) = file[i] /\ file[i] # Prepared
    BY <2>2 DEF Digest, Prepared
  <2>4. Digest(before[k][i]) = file[i]
    BY <2>1, <2>3 DEF Recognized
  <2> QED
    BY <2>3, <2>4 DEF Digest
<1>4. file' = [file EXCEPT ![i] = IF before[k][i] = Absent THEN Absent ELSE backup[k][i]]
  BY DEF Restore
<1>5. file' = [file EXCEPT ![i] = file[i]]
  BY <1>2, <1>3, <1>4
<1> QED
  BY <1>1, <1>5 DEF KeepInv, TypeInv, TypeOK, DiskTypes

\* Without the marker, model.json is the first file to go, and stays away until the
\* marker is looked at: nobody can load the voice while the others are put back.
LEMMA RestoreCovers ==
  ASSUME KeepInv, CoverInv, NEW p \in Preparers, Restore(p)
  PROVE  CoverInv'
<1> DEFINE k == prep[p].txn
           i == prep[p].item
<1>1. owner = p /\ UNCHANGED <<marker, stage, before, backup, reader, leaseVars>>
  BY OwnerAt DEF Restore
<1>2. /\ Others(p) /\ prep[p].at = "restore" /\ k \in Transactions /\ i \in Items
      /\ prep'[p].at = "restore" /\ prep'[p].txn = k /\ prep'[p].item = i - 1
  BY GotoItemIs, VoiceTransactionAssumption
  DEF VoiceTransactionAssumption, Restore, At, KeepInv, TypeInv, TypeOK, Runs, InHand, Items
<1>3. i - 1 # Last
  BY <1>2, VoiceTransactionAssumption DEF VoiceTransactionAssumption, Items
<1>4. /\ i # Last => file'[Last] = file[Last]
      /\ i = Last => file'[Last] = (IF before[k][Last] = Absent THEN Absent ELSE backup[k][Last])
  BY <1>2, Members DEF Restore, KeepInv, TypeInv, TypeOK, DiskTypes
<1>5. CASE AsFound(k)
  <2>1. UNCHANGED file /\ stage[k] \notin Early
    BY <1>2, <1>5, RestoresNothing DEF CoverInv, Safe, Passed, Beyond, InRollback
  <2>2. AsFound(k)'
    BY <1>1, <1>2, <1>5, <2>1 DEF AsFound
  <2>3. Safe(p)'
    BY <1>1, <1>2, <1>3, <2>1, <2>2
    DEF leaseVars, Safe, Owned, Begins, Passed, Marked, Covered, Planning, Marking, InPublish
  <2>4. StageStep(p)
    BY <1>1, StageStays
  <2> QED
    BY <1>1, <1>2, <2>1, <2>3, <2>4, StillCovers
<1> SUFFICES ASSUME ~AsFound(k) PROVE CoverInv'
  BY <1>5
<1>6. /\ i = Last => ~Uncovered(k) /\ ~Locked(k)
      /\ i # Last => marker # NoMarker \/ file[Last] = Absent
      /\ stage[k] \notin Early
  BY <1>2 DEF CoverInv, Safe, Covered, Passed, Beyond, InRollback, Restore, CanRestore
<1>7. marker # NoMarker \/ file'[Last] = Absent
  BY <1>4, <1>6 DEF Uncovered, Locked
<1>8. Safe(p)'
  BY <1>1, <1>2, <1>3, <1>6, <1>7
  DEF leaseVars, Safe, Owned, Begins, Passed, Marked, Covered, Planning, Marking, InPublish
<1>9. StageStep(p)
  BY <1>1, StageStays
<1>10. WholePlans'
  BY <1>1, <1>2, <1>9, WholePlansStay
<1>11. MixIsMarked'
  BY <1>1, <1>7 DEF MixIsMarked
<1>12. KeptOut'
  <2>1. marker # NoMarker \/ barrier \/ file[Last] = Absent
    BY <1>6 DEF Uncovered
  <2>2. Held => file'[Last] = file[Last]
    <3>1. Held => file[Last] # Absent
      BY DEF Held, CoverInv, KeptOut, Holds
    <3> QED
      BY <1>4, <1>6, <3>1 DEF Locked
  <2> QED
    BY <1>1, <2>1, <2>2, KeptOutOfWrites DEF leaseVars
<1> QED
  BY <1>1, <1>2, <1>8, <1>9, <1>10, <1>11, <1>12, OwnerCovers

LEMMA RolledBackCovers ==
  ASSUME KeepInv, CoverInv, NEW p \in Preparers, RolledBack(p)
  PROVE  CoverInv'
<1>1. owner = p /\ UNCHANGED <<file, marker, before, backup, reader, leaseVars>>
  BY OwnerAt DEF RolledBack, Recorded
<1>2. /\ Others(p) /\ prep[p].at = "restore" /\ prep[p].txn \in Transactions
      /\ prep'[p].at = "unmark" /\ prep'[p].txn = prep[p].txn
  BY GotoIs DEF RolledBack, Recorded, At, KeepInv, TypeInv, InHand
<1>3. StageStep(p) /\ stage'[prep[p].txn] = "ROLLED_BACK"
  BY <1>2 DEF RolledBack, Recorded, Record, StageStep, Beyond, InRollback, KeepInv, TypeInv, TypeOK, DiskTypes
<1>4. Whole(file)
  <2>1. Whole(before[prep[p].txn])
    BY <1>2 DEF CoverInv, Safe, Passed, Beyond, InRollback, WholePlans
  <2> QED
    BY <2>1 DEF RolledBack, Restored
<1>5. Safe(p)'
  BY <1>1, <1>2, <1>3, <1>4
  DEF leaseVars, Safe, Owned, Begins, Passed, Marked, Covered, Whole, Planning, Marking, InPublish, Early
<1> QED
  BY <1>1, <1>2, <1>3, <1>5, StillCovers

LEMMA UnmarkCovers ==
  ASSUME KeepInv, CoverInv, NEW p \in Preparers, Unmark(p)
  PROVE  CoverInv'
<1>1. owner = p /\ UNCHANGED <<file, stage, before, backup, reader>> /\ marker' = NoMarker
  BY OwnerAt DEF Unmark, ClearMarker
<1>2. prep[p].at = "unmark" /\ Whole(file)
  BY DEF Unmark, At, CoverInv, Safe, Covered
<1>3. Others(p) /\ Safe(p)' /\ (barrier' => barrier)
  <2>1. CASE End(p)
    BY <2>1, EndIs DEF End, Release, KeepInv
  <2>2. CASE GotoItem(p, "recover", 1) /\ UNCHANGED leaseVars
    BY <1>1, <2>2, GotoItemIs, RecoveringIsSafe DEF leaseVars, KeepInv
  <2> QED
    BY <2>1, <2>2 DEF Unmark
<1>4. StageStep(p)
  BY <1>1, StageStays
<1>5. WholePlans'
  BY <1>1, <1>2, <1>4, WholePlansStay
<1>6. MixIsMarked'
  BY <1>1, <1>2, MarkedOrWhole DEF Whole
<1>7. KeptOut'
  BY <1>1, <1>3, KeptOutStays
<1> QED
  BY <1>1, <1>3, <1>4, <1>5, <1>6, <1>7, OwnerCovers

LEMMA BlockCovers ==
  ASSUME KeepInv, CoverInv, NEW p \in Preparers, Block(p)
  PROVE  CoverInv'
<1>1. /\ owner = p /\ UNCHANGED <<file, marker, before, backup, reader>> /\ (barrier' => barrier)
      /\ prep[p].at = "block" /\ prep[p].txn \in Transactions
  BY OwnerAt DEF Block, End, Release, At, KeepInv, TypeInv, InHand
<1>2. Others(p) /\ Safe(p)'
  BY EndIs DEF Block, End, KeepInv
<1>3. StageStep(p)
  BY <1>1 DEF Block, Record, StageStep, Beyond, KeepInv, TypeInv, TypeOK, DiskTypes
<1>4. WholePlans'
  BY <1>1, <1>3, WholePlansStay
<1>5. MixIsMarked' /\ KeptOut'
  BY <1>1, MixStays, KeptOutStays
<1> QED
  BY <1>1, <1>2, <1>3, <1>4, <1>5, OwnerCovers

-----------------------------------------------------------------------------
(* The actions of a publication.                                           *)

\* What a run plans on may change while it plans: no journal that is past its backup
\* is planned on any more.
LEMMA PlanningCovers ==
  ASSUME KeepInv, CoverInv, NEW p \in Preparers, prep[p].at = "plan", Others(p),
         prep'[p].at \in {"plan", "publish"}, prep'[p].txn = prep[p].txn,
         UNCHANGED <<file, marker, reader, leaseVars>>,
         \A l \in Transactions \ {prep[p].txn} : before'[l] = before[l] /\ stage'[l] = stage[l] /\ backup'[l] = backup[l],
         stage'[prep[p].txn] \in Early
  PROVE  CoverInv'
<1> DEFINE k == prep[p].txn
<1>1. k \in Transactions /\ stage[k] \in Early
  BY DEF KeepInv, TypeInv, InHand, CoverInv, Safe, Begins, Planning
<1>2. Safe(p)'
  BY DEF Safe, Owned, Begins, Passed, Marked, Covered, Planning, Beyond, Marking, InPublish, InRollback
<1>3. ASSUME NEW q \in Preparers, q # p PROVE Safe(q)'
  <2>1. prep'[q] = prep[q] /\ Safe(q)
    BY <1>3 DEF Others, CoverInv
  <2>2. Owned(q)' /\ Marked(q)'
    BY <2>1 DEF Safe, Owned, Marked, leaseVars
  <2>3. Begins(q)'
    <3>1. ASSUME prep[q].at \in Planning PROVE stage'[prep[q].txn] \in Early
      <4>1. prep[q].txn \in Transactions
        BY <3>1 DEF KeepInv, TypeInv, InHand, Planning
      <4> QED
        BY <2>1, <3>1, <4>1 DEF Safe, Begins
    <3> QED
      BY <2>1, <3>1 DEF Begins
  <2>4. prep[q].at \in Beyond => prep[q].txn \in Transactions \ {k} /\ stage[prep[q].txn] \notin Early
    BY <1>1, <2>1 DEF KeepInv, TypeInv, InHand, Beyond, InPublish, InRollback, Safe, Passed
  <2>5. Passed(q)'
    BY <2>1, <2>4 DEF Passed
  <2>6. Covered(q)'
    BY <2>1, <2>4 DEF Safe, Covered, Uncovered, AsFound, Whole, leaseVars, Beyond, InRollback
  <2> QED
    BY <2>2, <2>3, <2>5, <2>6 DEF Safe
<1>4. WholePlans'
  <2> SUFFICES ASSUME NEW l \in Transactions, stage'[l] \notin Early
               PROVE  Whole(before[l])' /\ backup'[l] = before'[l]
    BY DEF WholePlans
  <2>1. l # k
    OBVIOUS
  <2>2. Whole(before[l]) /\ backup[l] = before[l] /\ before'[l] = before[l] /\ backup'[l] = backup[l]
    BY <2>1 DEF CoverInv, WholePlans
  <2> QED
    BY <2>2 DEF Whole
<1>5. MixIsMarked' /\ KeptOut'
  BY MixStays, KeptOutStays DEF leaseVars
<1> QED
  BY <1>2, <1>3, <1>4, <1>5 DEF CoverInv

LEMMA PlanCovers ==
  ASSUME KeepInv, CoverInv, NEW p \in Preparers, Plan(p) \/ Staged(p)
  PROVE  CoverInv'
<1>1. prep[p].at = "plan" /\ prep[p].txn \in Transactions /\ stage[prep[p].txn] \in Early
  BY DEF Plan, Staged, At, KeepInv, TypeInv, InHand, CoverInv, Safe, Begins, Planning
<1>2. Others(p) /\ prep'[p].at \in {"plan", "publish"} /\ prep'[p].txn = prep[p].txn
  BY GotoItemIs DEF Plan, Staged, KeepInv
<1>3. UNCHANGED <<file, marker, reader, leaseVars>>
  BY DEF Plan, Staged
<1>4. /\ \A l \in Transactions \ {prep[p].txn} : before'[l] = before[l] /\ stage'[l] = stage[l] /\ backup'[l] = backup[l]
      /\ stage'[prep[p].txn] \in Early
  BY <1>1 DEF Plan, Staged, Record, Early, KeepInv, TypeInv, TypeOK, DiskTypes
<1> QED
  BY <1>1, <1>2, <1>3, <1>4, PlanningCovers

LEMMA StageCovers ==
  ASSUME KeepInv, CoverInv, NEW p \in Preparers, Stage(p)
  PROVE  CoverInv'
<1>1. owner = p /\ UNCHANGED <<file, marker, before, backup, reader>> /\ prep[p].at = "recover" /\ Release(p)
  BY OwnerAt DEF Stage, At
<1>2. CASE prep' = [prep EXCEPT ![p] = Idle] /\ UNCHANGED stage
  BY <1>1, <1>2, EndCovers DEF Stage, diskVars
<1>3. ASSUME NEW k \in Transactions, Record(k, "CREATED"),
             prep' = [prep EXCEPT ![p] = [Idle EXCEPT !.at = "plan", !.txn = k, !.mine = TRUE]]
      PROVE  CoverInv'
  <2>1. Others(p) /\ prep'[p].at = "plan" /\ prep'[p].txn = k
    BY <1>3 DEF KeepInv, TypeInv, TypeOK, Others, Idle
  <2>2. StageStep(p) /\ stage'[k] \in Early
    BY <1>3 DEF Record, StageStep, Early, KeepInv, TypeInv, TypeOK, DiskTypes
  <2>3. Safe(p)'
    BY <2>1, <2>2
    DEF Safe, Owned, Begins, Passed, Marked, Covered, Planning, Beyond, Marking, InPublish, InRollback
  <2>4. WholePlans'
    BY <1>1, <2>2, WholePlansStay
  <2>5. MixIsMarked' /\ KeptOut'
    BY <1>1, MixStays, KeptOutStays DEF Release
  <2> QED
    BY <1>1, <2>1, <2>2, <2>3, <2>4, <2>5, OwnerCovers
<1> QED
  BY <1>2, <1>3 DEF Stage

LEMMA PublishCovers ==
  ASSUME KeepInv, CoverInv, NEW p \in Preparers, Publish(p)
  PROVE  CoverInv'
<1>1. /\ Others(p) /\ prep[p].at = "publish"
      /\ prep'[p].at = "backup" /\ prep'[p].txn = prep[p].txn
  BY GotoIs DEF Publish, At, KeepInv
<1>2. stage[prep[p].txn] \in Early
  BY <1>1 DEF CoverInv, Safe, Begins, Planning
<1>3. Safe(p)'
  BY <1>1, <1>2
  DEF Publish, Lease, diskVars, Safe, Owned, Begins, Passed, Marked, Covered, Planning, Beyond,
      Marking, InPublish, InRollback
<1> QED
  BY <1>1, <1>3, LeaseCovers DEF Publish

\* The files a transaction is to replace are whole when it takes their backup.
LEMMA BackUpCovers ==
  ASSUME KeepInv, CoverInv, NEW p \in Preparers, BackUp(p)
  PROVE  CoverInv'
<1> DEFINE k == prep[p].txn
<1>1. owner = p /\ UNCHANGED <<file, marker, before, reader, leaseVars>>
  BY OwnerAt DEF BackUp
<1>2. /\ Others(p) /\ prep[p].at = "backup" /\ k \in Transactions
      /\ prep'[p].at = "mark" /\ prep'[p].txn = k
  BY GotoIs DEF BackUp, At, KeepInv, TypeInv, InHand
<1>3. StageStep(p) /\ stage'[k] = "BACKED_UP"
  BY <1>2 DEF BackUp, Record, StageStep, KeepInv, TypeInv, TypeOK, DiskTypes
<1>4. Safe(p)'
  BY <1>1, <1>2, <1>3
  DEF CoverInv, leaseVars, Safe, Owned, Begins, Passed, Marked, Covered, Planning, Marking, InPublish, Early
<1>5. /\ Whole(before[k]) /\ backup'[k] = before[k]
      /\ \A l \in Transactions \ {k} : backup'[l] = backup[l]
  BY <1>2, MixIs DEF BackUp, Unchanged, CoverInv, KeepInv, TypeInv, TypeOK, DiskTypes
<1>6. WholePlans'
  BY <1>1, <1>3, <1>5, WholePlansStay
<1>7. MixIsMarked' /\ KeptOut'
  BY <1>1, MixStays, KeptOutStays DEF leaseVars
<1> QED
  BY <1>1, <1>2, <1>3, <1>4, <1>6, <1>7, OwnerCovers

\* The marker comes while the handle still keeps readers out, or there is no model.json.
LEMMA MarkCovers ==
  ASSUME KeepInv, CoverInv, NEW p \in Preparers, Mark(p)
  PROVE  CoverInv'
<1>1. owner = p /\ UNCHANGED <<file, stage, before, backup, reader, leaseVars>> /\ marker' = prep[p].txn
  BY OwnerAt DEF Mark
<1>2. /\ Others(p) /\ prep[p].at = "mark" /\ prep[p].txn \in Transactions
      /\ prep'[p].at = "publishing" /\ prep'[p].txn = prep[p].txn
  BY GotoIs DEF Mark, At, KeepInv, TypeInv, InHand
<1>3. stage[prep[p].txn] \notin Early /\ (marker # NoMarker \/ barrier \/ file[Last] = Absent)
  BY <1>2 DEF CoverInv, Safe, Passed, Covered, Beyond
<1>4. Safe(p)'
  BY <1>1, <1>2, <1>3
  DEF leaseVars, Safe, Owned, Begins, Passed, Marked, Covered, Planning, Marking, InPublish
<1>5. StageStep(p)
  BY <1>1, StageStays
<1>6. WholePlans'
  BY <1>1, <1>2, <1>5, WholePlansStay
<1>7. MixIsMarked'
  BY <1>1, <1>2, Members, MarkedOrWhole
<1>8. KeptOut'
  BY <1>1, <1>3, KeptOutOfWrites DEF leaseVars
<1> QED
  BY <1>1, <1>2, <1>4, <1>5, <1>6, <1>7, <1>8, OwnerCovers

\* A step of a publication under its marker.
LEMMA UnderMarker ==
  ASSUME KeepInv, CoverInv, NEW p \in Preparers, prep[p].at \in Marking, Others(p),
         prep'[p].at \in Marking, prep'[p].txn = prep[p].txn,
         UNCHANGED <<marker, before, backup, owner, reader>>, barrier' => barrier,
         StageStep(p), stage'[prep[p].txn] \notin Early,
         Held => file'[Last] = file[Last],
         prep'[p].at = "clear" => Whole(file)'
  PROVE  CoverInv'
<1>1. /\ prep[p].at \in Beyond /\ prep[p].txn \in Transactions /\ marker = prep[p].txn
      /\ prep[p].at # "backup" /\ owner = p
  BY BeyondOwns
  DEF Marking, Beyond, InPublish, KeepInv, TypeInv, InHand, CoverInv, Safe, Marked
<1>2. marker # NoMarker
  BY <1>1, Members
<1>3. prep'[p].at \notin Planning \cup {"mark", "rollback", "check", "restore", "unmark", "idle"}
  BY DEF Marking, InPublish, Planning
<1>4. Safe(p)'
  BY <1>1, <1>3 DEF Safe, Owned, Begins, Passed, Marked, Covered, Planning
<1>5. WholePlans'
  BY <1>1, WholePlansStay
<1>6. MixIsMarked'
  BY <1>2, MarkedOrWhole
<1>7. KeptOut'
  BY <1>2, KeptOutOfWrites
<1> QED
  BY <1>1, <1>4, <1>5, <1>6, <1>7, OwnerCovers

LEMMA PublishingCovers ==
  ASSUME KeepInv, CoverInv, NEW p \in Preparers, Publishing(p)
  PROVE  CoverInv'
<1>1. /\ Others(p) /\ prep[p].at = "publishing" /\ prep[p].txn \in Transactions
      /\ prep'[p].at = "replace" /\ prep'[p].txn = prep[p].txn
  BY GotoItemIs DEF Publishing, At, KeepInv, TypeInv, InHand
<1>2. StageStep(p) /\ stage'[prep[p].txn] \notin Early
  BY <1>1 DEF Publishing, Record, StageStep, Beyond, Early, KeepInv, TypeInv, TypeOK, DiskTypes
<1>3. {"publishing", "replace"} \subseteq Marking
  BY DEF Marking, InPublish
<1> QED
  BY <1>1, <1>2, <1>3, UnderMarker DEF Publishing

LEMMA ReplaceCovers ==
  ASSUME KeepInv, CoverInv, NEW p \in Preparers, Replace(p) \/ ReplaceConfig(p)
  PROVE  CoverInv'
<1>1. /\ Others(p) /\ prep[p].at \in {"replace", "config"} /\ prep[p].txn \in Transactions
      /\ prep'[p].at \in {"replace", "commit"} /\ prep'[p].txn = prep[p].txn
  BY GotoIs, GotoItemIs DEF Replace, ReplaceConfig, At, KeepInv, TypeInv, InHand
<1>2. StageStep(p) /\ stage'[prep[p].txn] \notin Early
  BY <1>1, BeyondOwns, StageStays DEF Replace, ReplaceConfig, Beyond, InPublish
<1>3. {"replace", "config", "commit"} \subseteq Marking
  BY DEF Marking, InPublish
<1>4. Held => file[Last] # Absent
  BY DEF Held, CoverInv, KeptOut, Holds
<1>5. Held => file'[Last] = file[Last]
  <2>1. CASE Replace(p)
    <3>1. prep[p].item # Last /\ file \in [Items -> Inodes] /\ Last \in Items
      BY <2>1, Members, VoiceTransactionAssumption
      DEF VoiceTransactionAssumption, Replace, KeepInv, TypeInv, TypeOK, DiskTypes, Runs
    <3> QED
      BY <2>1, <3>1 DEF Replace
  <2>2. CASE ReplaceConfig(p)
    BY <1>4, <2>2 DEF ReplaceConfig
  <2> QED
    BY <2>1, <2>2
<1> QED
  BY <1>1, <1>2, <1>3, <1>5, UnderMarker DEF Replace, ReplaceConfig, leaseVars

LEMMA RecordedCovers ==
  ASSUME KeepInv, CoverInv, NEW p \in Preparers, NEW from \in Marking, NEW s \in Stages \ Early,
         NEW to \in Marking, Recorded(p, from, s, to), to = "clear" => Whole(file)
  PROVE  CoverInv'
<1>1. /\ Others(p) /\ prep[p].at = from /\ prep[p].txn \in Transactions
      /\ prep'[p].at = to /\ prep'[p].txn = prep[p].txn
  BY GotoIs DEF Recorded, At, KeepInv, TypeInv, InHand, Marking, InPublish
<1>2. from \in Beyond
  BY DEF Marking, Beyond
<1>3. StageStep(p) /\ stage'[prep[p].txn] \notin Early
  BY <1>1, <1>2 DEF Recorded, Record, StageStep, KeepInv, TypeInv, TypeOK, DiskTypes
<1>4. to = "clear" => Whole(file)'
  BY DEF Recorded, Whole
<1> QED
  BY <1>1, <1>3, <1>4, UnderMarker DEF Recorded, leaseVars

LEMMA MilestoneCovers ==
  ASSUME KeepInv, CoverInv, NEW p \in Preparers, Deploy(p) \/ ProbePasses(p) \/ Commit(p)
  PROVE  CoverInv'
<1>1. /\ {"replace", "probe", "config", "commit", "clear"} \subseteq Marking
      /\ {"DEPLOYED_PROBE", "READY_TO_COMMIT", "COMMITTED"} \subseteq Stages \ Early
  BY DEF Marking, InPublish, Stages, Early
<1>2. Published => Whole(file)
  BY PublishedIsWhole
<1>3. CASE Deploy(p)
  BY <1>1, <1>3, RecordedCovers DEF Deploy
<1>4. CASE ProbePasses(p)
  BY <1>1, <1>4, RecordedCovers DEF ProbePasses
<1>5. CASE Commit(p)
  BY <1>1, <1>2, <1>5, RecordedCovers DEF Commit
<1> QED
  BY <1>3, <1>4, <1>5

LEMMA ClearCovers ==
  ASSUME KeepInv, CoverInv, NEW p \in Preparers, Clear(p)
  PROVE  CoverInv'
<1>1. owner = p /\ UNCHANGED <<file, stage, before, backup, reader, leaseVars>> /\ marker' = NoMarker
  BY OwnerAt DEF Clear, ClearMarker
<1>2. /\ Others(p) /\ prep[p].at = "clear" /\ prep'[p].at = "leave" /\ prep'[p].txn = prep[p].txn
  BY GotoIs DEF Clear, At, KeepInv
<1>3. Whole(file) /\ stage[prep[p].txn] \notin Early
  BY <1>2 DEF CoverInv, Safe, Covered, Passed, Beyond, InPublish
<1>4. Safe(p)'
  BY <1>1, <1>2, <1>3 DEF leaseVars, Safe, Owned, Begins, Passed, Marked, Covered, Planning, Marking
<1>5. StageStep(p)
  BY <1>1, StageStays
<1>6. WholePlans'
  BY <1>1, <1>2, <1>5, WholePlansStay
<1>7. MixIsMarked'
  BY <1>1, <1>3, MarkedOrWhole DEF Whole
<1>8. KeptOut'
  BY <1>1, KeptOutStays DEF leaseVars
<1> QED
  BY <1>1, <1>2, <1>4, <1>5, <1>6, <1>7, <1>8, OwnerCovers

-----------------------------------------------------------------------------
(* Exceptions, kills, the user and the readers.                            *)

LEMMA LeaveCovers ==
  ASSUME KeepInv, CoverInv, NEW p \in Preparers, Leave(p)
  PROVE  CoverInv'
BY EndCovers DEF Leave, End

LEMMA RefusesCovers ==
  ASSUME KeepInv, CoverInv, NEW p \in Preparers, NEW label, NEW reason, Refuses(p, label, reason),
         label # "leave"
  PROVE  CoverInv'
BY RaiseCovers DEF Refuses, At

LEMMA RefusalCovers ==
  ASSUME KeepInv, CoverInv, NEW p \in Preparers,
         \/ RecoverRefused(p) \/ Unresolved(p) \/ CheckRefused(p) \/ RestoreRefused(p)
         \/ RolledBackRefused(p) \/ UnmarkRefused(p) \/ PublishRefused(p) \/ BackUpRefused(p)
         \/ ProbeFails(p) \/ ReplaceConfigRefused(p) \/ CommitRefused(p)
  PROVE  CoverInv'
<1>1. Raise(p) /\ prep[p].at # "leave" /\ UNCHANGED <<diskVars, reader>>
  BY DEF RecoverRefused, Unresolved, CheckRefused, RestoreRefused, RolledBackRefused, UnmarkRefused,
         PublishRefused, BackUpRefused, ProbeFails, ReplaceConfigRefused, CommitRefused, Refuses, At
<1> QED
  BY <1>1, RaiseCovers

LEMMA FailureCovers ==
  ASSUME KeepInv, CoverInv, NEW p \in Preparers, Throw(p) \/ Crash(p), ~LateInterrupt
  PROVE  CoverInv'
<1>1. CASE Throw(p)
  <2>1. prep[p].at # "leave"
    BY <1>1 DEF LateInterrupt, At
  <2> QED
    BY <1>1, <2>1, RaiseCovers DEF Throw
<1>2. CASE Crash(p)
  BY <1>2, EndCovers DEF Crash
<1> QED
  BY <1>1, <1>2

\* The files a user writes are of no publication.
LEMMA EditCovers ==
  ASSUME KeepInv, CoverInv, NEW i \in Items, Edit(i)
  PROVE  CoverInv'
<1>1. /\ Digest(Alien) \notin {Prepared, Original, Absent} /\ Alien \notin {Original, Absent}
  BY DEF KeepInv, TypeInv, TypeOK, EnvTypes, Alien, Digest, Prepared, Original, Absent, Transactions
<1>2. /\ file'[i] = Alien /\ \A j \in Items \ {i} : file'[j] = file[j]
      /\ UNCHANGED <<marker, stage, before, backup, leaseVars, prep, reader>>
  BY DEF Edit, KeepInv, TypeInv, TypeOK, DiskTypes
<1>3. (file'[Last] = Absent <=> file[Last] = Absent)
  BY <1>1, <1>2, Members DEF Edit
<1>4. Whole(file) => Whole(file)'
  BY <1>1, <1>2, <1>3 DEF Whole
<1>5. ASSUME NEW p \in Preparers PROVE Safe(p)'
  <2>1. Alien \notin Transactions \cup {Original, Absent}
    BY <1>1 DEF Digest
  <2>2. AsFound(prep[p].txn) => AsFound(prep[p].txn)'
    BY <1>2, <2>1 DEF AsFound
  <2>3. Covered(p)'
    BY <1>2, <1>3, <1>4, <2>2 DEF CoverInv, Safe, Covered, Uncovered, leaseVars
  <2> QED
    BY <1>2, <2>3 DEF CoverInv, Safe, Owned, Begins, Passed, Marked, leaseVars
<1>6. WholePlans'
  BY <1>2 DEF CoverInv, WholePlans, Whole
<1>7. MixIsMarked'
  BY <1>2, <1>4, MixIs, MarkedOrWhole DEF CoverInv
<1>8. KeptOut'
  <2> SUFFICES ASSUME NEW r \in Readers PROVE Holds(r)' /\ Reads(r)'
    BY DEF KeptOut
  <2>1. Holds(r) /\ Reads(r)
    BY DEF CoverInv, KeptOut
  <2>2. Holds(r)'
    BY <1>2, <1>3, <2>1 DEF Holds, leaseVars
  <2>3. /\ Seen(r, Original)' => Seen(r, Original)
        /\ Seen(r, Prepared)' => Seen(r, Prepared)
    BY <1>1, <1>2 DEF Seen
  <2>4. Reads(r)'
    BY <1>2, <2>1, <2>3 DEF Reads
  <2> QED
    BY <2>2, <2>4
<1> QED
  BY <1>5, <1>6, <1>7, <1>8 DEF CoverInv

\* A reader leaves the disk and the runs as they are.
LEMMA KeptOutCovers ==
  ASSUME CoverInv, UNCHANGED <<diskVars, leaseVars, prep>>, KeptOut'
  PROVE  CoverInv'
<1>1. MixIsMarked'
  BY MixStays DEF diskVars
<1>2. WholePlans'
  BY DEF diskVars, CoverInv, WholePlans, Whole
<1>3. ASSUME NEW p \in Preparers PROVE Safe(p)'
  BY DEF CoverInv, Safe, Owned, Begins, Passed, Marked, Covered, Uncovered, AsFound, Whole, leaseVars, diskVars
<1> QED
  BY <1>1, <1>2, <1>3 DEF CoverInv

\* The other readers go on as they did.
LEMMA OneReader ==
  ASSUME CoverInv, NEW r \in Readers, \A s \in Readers \ {r} : reader'[s] = reader[s],
         UNCHANGED <<file, marker, barrier>>, Holds(r)', Reads(r)'
  PROVE  KeptOut'
<1>1. ASSUME NEW s \in Readers \ {r} PROVE Holds(s)' /\ Reads(s)'
  BY DEF CoverInv, KeptOut, Holds, Reads, Seen
<1> QED
  BY <1>1 DEF KeptOut

\* The files of a voice that is not marked and has its model.json are of one kind.
LEMMA OneKind ==
  ASSUME CoverInv, marker = NoMarker, file[Last] # Absent
  PROVE  ~((\E i \in Items : Digest(file[i]) = Original) /\ (\E i \in Items : Digest(file[i]) = Prepared))
<1> SUFFICES ASSUME NEW i \in Items, Digest(file[i]) = Original, NEW j \in Items, Digest(file[j]) = Prepared
             PROVE  FALSE
  OBVIOUS
<1>1. file[i] = Original
  BY DEF Digest, Prepared, Original
<1> QED
  BY <1>1 DEF CoverInv, MixIsMarked, Half

LEMMA OpenCovers ==
  ASSUME KeepInv, CoverInv, NEW r \in Readers, Open(r)
  PROVE  CoverInv'
<1>1. /\ UNCHANGED <<diskVars, leaseVars, prep>>
      /\ reader'[r].at = "opened" /\ reader'[r].read = reader[r].read
      /\ \A s \in Readers \ {r} : reader'[s] = reader[s]
      /\ reader[r].at = "closed" /\ file[Last] # Absent /\ ~barrier
  BY DEF Open, KeepInv, TypeInv, TypeOK, Loads
<1>2. UNCHANGED <<file, marker, barrier>>
  BY <1>1 DEF diskVars, leaseVars
<1>3. Holds(r)' /\ Reads(r)'
  BY <1>1, <1>2 DEF Holds, Reads, CoverInv, KeptOut
<1> QED
  BY <1>1, <1>2, <1>3, OneReader, KeptOutCovers

LEMMA ClosedIsKeptOut ==
  ASSUME NEW r \in Readers, reader'[r] = Closed
  PROVE  Holds(r)' /\ Reads(r)'
BY DEF Closed, Holds, Reads

\* Once admitted, it meets the files of a voice that is not half published.
LEMMA AdmitCovers ==
  ASSUME KeepInv, CoverInv, NEW r \in Readers, Admit(r)
  PROVE  CoverInv'
<1>1. /\ UNCHANGED <<diskVars, leaseVars, prep>> /\ reader[r].at = "opened"
      /\ \A s \in Readers \ {r} : reader'[s] = reader[s]
  BY DEF Admit, envVars, KeepInv, TypeInv, TypeOK
<1>2. UNCHANGED <<file, marker, barrier>>
  BY <1>1 DEF diskVars, leaseVars
<1>3. CASE reader'[r] = Closed
  BY <1>1, <1>2, <1>3, ClosedIsKeptOut, OneReader, KeptOutCovers
<1>4. CASE Admitted /\ reader'[r].at = "loading" /\ reader'[r].read = reader[r].read
  <2>1. file[Last] # Absent /\ ~barrier /\ reader[r].read = {} /\ marker = NoMarker
    BY <1>1, <1>4 DEF CoverInv, KeptOut, Holds, Reads, Admitted
  <2>2. Holds(r)'
    BY <1>2, <2>1 DEF Holds
  <2>3. ~(Seen(r, Original)' /\ Seen(r, Prepared)')
    BY <1>2, <1>4, <2>1, OneKind DEF Seen
  <2>4. Reads(r)'
    BY <1>2, <1>4, <2>1, <2>3 DEF Reads
  <2> QED
    BY <1>1, <1>2, <2>2, <2>4, OneReader, KeptOutCovers
<1>5. \/ reader'[r] = Closed
      \/ Admitted /\ reader'[r].at = "loading" /\ reader'[r].read = reader[r].read
  BY DEF Admit, KeepInv, TypeInv, TypeOK, Loads
<1> QED
  BY <1>3, <1>4, <1>5

LEMMA ReadCovers ==
  ASSUME KeepInv, CoverInv, NEW r \in Readers, Read(r)
  PROVE  CoverInv'
<1> DEFINE i == reader[r].item
<1>1. /\ UNCHANGED <<diskVars, leaseVars, prep>>
      /\ reader[r].at = "loading" /\ reader'[r].at \in {"loading", "loaded"}
      /\ reader'[r].read = reader[r].read \cup {Digest(file[i])} /\ i \in Items
      /\ \A s \in Readers \ {r} : reader'[s] = reader[s]
  BY DEF Read, KeepInv, TypeInv, TypeOK, Loads
<1>2. UNCHANGED <<file, marker, barrier>>
  BY <1>1 DEF diskVars, leaseVars
<1>3. Holds(r) /\ Reads(r)
  BY DEF CoverInv, KeptOut
<1>4. Holds(r)'
  BY <1>1, <1>2, <1>3 DEF Holds
<1>5. /\ Seen(r, Original)' => Seen(r, Original)
      /\ Seen(r, Prepared)' => Seen(r, Prepared)
  BY <1>1, <1>2 DEF Seen
<1>6. Reads(r)'
  BY <1>1, <1>2, <1>3, <1>5 DEF Reads
<1> QED
  BY <1>1, <1>2, <1>4, <1>6, OneReader, KeptOutCovers

LEMMA UnloadCovers ==
  ASSUME KeepInv, CoverInv, NEW r \in Readers, Unload(r)
  PROVE  CoverInv'
<1>1. /\ UNCHANGED <<diskVars, leaseVars, prep>> /\ reader'[r] = Closed
      /\ \A s \in Readers \ {r} : reader'[s] = reader[s]
  BY DEF Unload, KeepInv, TypeInv, TypeOK
<1>2. UNCHANGED <<file, marker, barrier>>
  BY <1>1 DEF diskVars, leaseVars
<1> QED
  BY <1>1, <1>2, ClosedIsKeptOut, OneReader, KeptOutCovers

LEMMA StutterCovers ==
  ASSUME CoverInv, UNCHANGED vars
  PROVE  CoverInv'
<1>1. KeptOut'
  BY KeptOutStays DEF vars, diskVars, leaseVars
<1> QED
  BY <1>1, KeptOutCovers DEF vars, leaseVars

-----------------------------------------------------------------------------
(* The invariant, and the two steps that break it.                         *)

LEMMA CoverInvHolds == Init => CoverInv
<1> SUFFICES ASSUME Init PROVE CoverInv
  OBVIOUS
<1>1. \A p \in Preparers : prep[p].at = "idle"
  BY DEF Init, Idle
<1>2. ASSUME NEW p \in Preparers PROVE Safe(p)
  BY <1>1
  DEF Safe, Owned, Begins, Passed, Marked, Covered, Planning, Beyond, Marking, InPublish, InRollback
<1>3. \A i \in Items : file[i] \in {Original, Absent} /\ Digest(file[i]) # Prepared
  BY DEF Init, Digest, Prepared, Original, Absent, Transactions
<1>4. MixIsMarked
  BY <1>3 DEF MixIsMarked, Half
<1>5. WholePlans
  BY Members DEF Init, WholePlans, Whole
<1>6. KeptOut
  BY DEF Init, KeptOut, Closed, Holds, Reads
<1> QED
  BY <1>2, <1>4, <1>5, <1>6 DEF CoverInv

LEMMA RecoveryCovers ==
  ASSUME KeepInv, CoverInv, NEW p \in Preparers, Recovery(p), ~ExposedRollback
  PROVE  CoverInv'
<1>1. ASSUME NEW k \in Transactions, RecoverRollsBack(p, k) PROVE CoverInv'
  BY <1>1, RecoverRollsBackCovers DEF ExposedRollback
<1> QED
  BY <1>1, RecoverNextCovers, RecoverFindsMarkerCovers, RollbackCovers, CheckCovers, RestoreCovers,
     RolledBackCovers, UnmarkCovers, BlockCovers, RefusalCovers
  DEF Recovery

LEMMA PublicationCovers ==
  ASSUME KeepInv, CoverInv, NEW p \in Preparers, Publication(p)
  PROVE  CoverInv'
BY StageCovers, PlanCovers, PublishCovers, BackUpCovers, MarkCovers, PublishingCovers, ReplaceCovers,
   MilestoneCovers, ClearCovers, LeaveCovers, RefusalCovers
DEF Publication

LEMMA CoverInvIsKept == KeepInv /\ CoverInv /\ [Next]_vars /\ [Careful]_vars => CoverInv'
<1> SUFFICES ASSUME KeepInv, CoverInv, [Next]_vars, [Careful]_vars PROVE CoverInv'
  OBVIOUS
<1>1. CASE UNCHANGED vars
  BY <1>1, StutterCovers
<1>2. CASE Next /\ ~ExposedRollback /\ ~LateInterrupt
  BY <1>2, StartCovers, RecoveryCovers, PublicationCovers, FailureCovers, EditCovers, OpenCovers,
     AdmitCovers, ReadCovers, UnloadCovers
  DEF Next, Load
<1> QED
  BY <1>1, <1>2 DEF Careful

LEMMA CoverInvShows == KeepInv /\ CoverInv => NoMixedLoad /\ MixIsMarked
<1> SUFFICES ASSUME KeepInv, CoverInv, NEW r \in Readers, {Original, Prepared} \subseteq reader[r].read
             PROVE  FALSE
  BY DEF CoverInv, NoMixedLoad
<1>1. Reads(r) /\ Seen(r, Original) /\ Seen(r, Prepared)
  BY DEF CoverInv, KeptOut, Seen
<1>2. reader[r].at \in {"closed", "opened", "loading", "loaded"}
  BY DEF KeepInv, TypeInv, TypeOK, Loads
<1> QED
  BY <1>1, <1>2 DEF Reads

\* When recovery never begins to change a voice that readers may open (src/scripts/
\* prepare_downloaded_voices.py:374) and nothing interrupts a publication whose marker
\* is gone (:610), no desktop ever loads a mixture of old and new files: the handle on
\* model.json and the marker hand over without a gap, through every failure and kill.
THEOREM MixedLoadNeedsExposure ==
  Spec /\ [][~ExposedRollback /\ ~LateInterrupt]_vars => []NoMixedLoad
<1>1. KeepInv /\ CoverInv => NoMixedLoad
  BY CoverInvShows
<1> QED
  BY <1>1, KeepInvHolds, KeepInvIsKept, CoverInvHolds, CoverInvIsKept, PTL DEF Spec, Careful

\* Under the same two conditions, a voice that is half old and half new is marked or
\* has no model.json: what VoiceTransaction.rollback and publish write, and in which
\* order, leaves no third way to break it.
THEOREM UnmarkedMixNeedsExposure ==
  Spec /\ [][~ExposedRollback /\ ~LateInterrupt]_vars => []MixIsMarked
<1>1. KeepInv /\ CoverInv => MixIsMarked
  BY CoverInvShows
<1> QED
  BY <1>1, KeepInvHolds, KeepInvIsKept, CoverInvHolds, CoverInvIsKept, PTL DEF Spec, Careful

-----------------------------------------------------------------------------
(* One run at a time, not interrupted late: the two steps do not happen.   *)

Single == \A p, q \in Preparers : p = q

\* A transaction whose files the next run has to put back or to confirm.
Unfinished(k) ==
  \/ stage[k] # Unused /\ ToRollBack(stage[k])
  \/ stage[k] = "COMMITTED" /\ marker = k

\* Without its marker and without model.json, k did not find one either.
Spared(k) == marker = NoMarker /\ file[Last] = Absent => before[k][Last] = Absent

NoneUnfinished == \A k \in Transactions : ~Unfinished(k)

\* The steps at which a run leaves nothing to recover.
Finished == Planning \cup {"leave", "unmark"}

Recovers(p) ==
  /\ \A k \in prep[p].todo : stage[k] # Unused
  /\ prep[p].at \in {"recover", "unresolved"} =>
       \A k \in Transactions : Unfinished(k) => k \in prep[p].todo
  /\ prep[p].at = "recover" => marker # NoMarker \/ barrier \/ file[Last] = Absent \/ NoneUnfinished

Finishes(p) ==
  /\ prep[p].at \in Finished => NoneUnfinished
  /\ prep[p].at \in Beyond => \A k \in Transactions : Unfinished(k) => k = prep[p].txn
  /\ prep[p].at \in Beyond \ {"leave"} => Spared(prep[p].txn)
  /\ prep[p].at = "clear" => stage[prep[p].txn] = "COMMITTED"

AloneInv ==
  /\ \A k \in Transactions : Unfinished(k) => Spared(k)
  /\ \A k, l \in Transactions : Unfinished(k) /\ Unfinished(l) => k = l
  /\ \A p \in Preparers : Recovers(p) /\ Finishes(p)

\* Between two steps of a transaction, or when it takes its backup.
LEMMA BeyondAlone ==
  ASSUME Single, KeepInv, AloneInv, NEW p \in Preparers,
         prep[p].at \in (Beyond \ {"leave"}) \cup {"backup"}, prep'[p].at \in Beyond \ {"leave"},
         prep'[p].txn = prep[p].txn, prep'[p].todo = prep[p].todo,
         \A l \in Transactions : stage'[l] = stage[l] \/ (l = prep[p].txn /\ stage'[l] # Unused),
         marker' \in {marker, prep[p].txn}, Spared(prep[p].txn)',
         prep'[p].at = "unmark" => stage'[prep[p].txn] = "ROLLED_BACK",
         prep'[p].at = "clear" => stage'[prep[p].txn] = "COMMITTED"
  PROVE  AloneInv'
<1> DEFINE k == prep[p].txn
<1>1. prep[p].at \in Finished \/ prep[p].at \in Beyond
  BY DEF Finished, Planning
<1>2. \A l \in Transactions : Unfinished(l) => l = k
  BY <1>1 DEF AloneInv, Finishes, NoneUnfinished
<1>3. ASSUME NEW l \in Transactions, Unfinished(l)' PROVE l = k
  BY <1>2, <1>3 DEF Unfinished
<1>4. Recovers(p)'
  <2>1. prep'[p].at \notin {"recover", "unresolved"}
    BY DEF Beyond, InPublish, InRollback
  <2>2. prep[p].todo \subseteq Transactions
    BY DEF KeepInv, TypeInv, TypeOK, Runs
  <2>3. \A l \in prep[p].todo : stage'[l] # Unused
    BY <2>2 DEF AloneInv, Recovers
  <2> QED
    BY <2>1, <2>3 DEF Recovers
<1>5. Finishes(p)'
  <2>1. prep'[p].at \in Finished => prep'[p].at = "unmark"
    BY DEF Finished, Planning, Beyond, InPublish, InRollback
  <2>2. prep'[p].at = "unmark" => NoneUnfinished'
    BY <1>3 DEF NoneUnfinished, Unfinished, ToRollBack, Settled
  <2> QED
    BY <1>3, <2>1, <2>2 DEF Finishes
<1>6. \A q \in Preparers : q = p
  BY DEF Single
<1>7. \A l \in Transactions : Unfinished(l)' => Spared(l)'
  BY <1>3
<1> QED
  BY <1>3, <1>4, <1>5, <1>6, <1>7 DEF AloneInv

\* Where nothing is left to recover.
LEMMA NoneAlone ==
  ASSUME Single, NEW p \in Preparers, NoneUnfinished', prep'[p].at \notin Beyond \ {"leave"},
         \A l \in prep'[p].todo : stage'[l] # Unused
  PROVE  AloneInv'
<1>1. prep'[p].at # "clear"
  BY DEF Beyond, InPublish
<1>2. Recovers(p)'
  BY DEF NoneUnfinished, Recovers
<1>3. Finishes(p)'
  BY <1>1 DEF NoneUnfinished, Finishes
<1>4. \A q \in Preparers : q = p
  BY DEF Single
<1>5. \A l \in Transactions : ~Unfinished(l)'
  BY DEF NoneUnfinished
<1> QED
  BY <1>2, <1>3, <1>4, <1>5 DEF AloneInv

\* A run that ends, whatever it leaves.
LEMMA EndAlone ==
  ASSUME Single, KeepInv, AloneInv, NEW p \in Preparers, prep' = [prep EXCEPT ![p] = Idle],
         UNCHANGED <<file, marker, before>>,
         \A l \in Transactions :
           stage'[l] = stage[l] \/ (l = prep[p].txn /\ prep[p].at \in Beyond \ {"leave"})
  PROVE  AloneInv'
<1>1. /\ prep'[p].at = "idle" /\ prep'[p].todo = {}
      /\ \A q \in Preparers : q = p
  BY DEF KeepInv, TypeInv, TypeOK, Idle, Single
<1>2. ASSUME NEW l \in Transactions, Unfinished(l)'
      PROVE  Unfinished(l) \/ (l = prep[p].txn /\ prep[p].at \in Beyond \ {"leave"})
  BY <1>2 DEF Unfinished
<1>3. ASSUME NEW l \in Transactions, Unfinished(l)' PROVE Spared(l)'
  <2>1. Spared(l)
    BY <1>2, <1>3 DEF AloneInv, Finishes
  <2> QED
    BY <2>1 DEF Spared
<1>4. \A l, m \in Transactions : Unfinished(l)' /\ Unfinished(m)' => l = m
  BY <1>2 DEF AloneInv, Finishes
<1>5. Recovers(p)' /\ Finishes(p)'
  BY <1>1 DEF Recovers, Finishes, Finished, Planning, Beyond, InPublish, InRollback
<1> QED
  BY <1>1, <1>3, <1>4, <1>5 DEF AloneInv

\* A step that only moves the run.
LEMMA UnfinishedStay ==
  ASSUME UNCHANGED <<stage, marker, file, before>>
  PROVE  /\ \A k \in Transactions : (Unfinished(k)' <=> Unfinished(k)) /\ (Spared(k)' <=> Spared(k))
         /\ NoneUnfinished' <=> NoneUnfinished
<1>1. \A k \in Transactions : (Unfinished(k)' <=> Unfinished(k)) /\ (Spared(k)' <=> Spared(k))
  BY DEF Unfinished, Spared
<1> QED
  BY <1>1 DEF NoneUnfinished

LEMMA RaiseAlone ==
  ASSUME Single, KeepInv, CoverInv, AloneInv, NEW p \in Preparers, prep[p].at # "leave", Raise(p),
         UNCHANGED diskVars
  PROVE  AloneInv'
<1>1. ASSUME prep[p].at \in (InPublish \ {"leave"}) \cup InRollback, NEW label \in {"rollback", "block"},
             Goto(p, label)
      PROVE  AloneInv'
  <2>1. prep[p].at \in Beyond \ {"leave"} /\ label \in Beyond \ {"leave"}
    BY <1>1 DEF Beyond, InRollback
  <2>2. prep'[p].at = label /\ prep'[p].txn = prep[p].txn /\ prep'[p].todo = prep[p].todo
    BY <1>1, GotoIs DEF KeepInv
  <2>3. Spared(prep[p].txn)'
    BY <2>1, <2>2 DEF diskVars, AloneInv, Finishes, Spared
  <2>4. label \notin {"unmark", "clear"}
    OBVIOUS
  <2> QED
    BY <2>1, <2>2, <2>3, <2>4, BeyondAlone DEF diskVars
<1>2. CASE End(p)
  BY <1>2, EndAlone DEF End, diskVars
<1> QED
  BY <1>1, <1>2 DEF Raise

-----------------------------------------------------------------------------
(* Each action, with one run at a time.                                    *)

LEMMA StartAlone ==
  ASSUME Single, KeepInv, AloneInv, NEW p \in Preparers, Start(p)
  PROVE  AloneInv'
<1>1. /\ prep'[p].at = "recover" /\ prep'[p].todo = {k \in Transactions : stage[k] # Unused}
      /\ \A q \in Preparers : q = p
  BY DEF Start, KeepInv, TypeInv, TypeOK, Idle, Single
<1>2. UNCHANGED <<stage, marker, file, before>> /\ barrier' = (file[Last] # Absent /\ marker = NoMarker)
  BY DEF Start, Lease, diskVars
<1>3. \A k \in Transactions : Unfinished(k) => stage[k] # Unused
  BY DEF Unfinished, Unused
<1>4. Recovers(p)'
  BY <1>1, <1>2, <1>3, UnfinishedStay DEF Recovers
<1>5. Finishes(p)'
  BY <1>1 DEF Finishes, Finished, Planning, Beyond, InPublish, InRollback
<1> QED
  BY <1>1, <1>2, <1>4, <1>5, UnfinishedStay DEF AloneInv

LEMMA RecoverNextAlone ==
  ASSUME Single, KeepInv, AloneInv, NEW p \in Preparers, NEW k \in Transactions, RecoverNext(p, k)
  PROVE  AloneInv'
<1>1. /\ prep[p].at = "recover" /\ prep'[p].at = "recover" /\ prep'[p].todo = prep[p].todo \ {k}
      /\ \A q \in Preparers : q = p
      /\ UNCHANGED <<file, before, leaseVars>>
  BY DEF RecoverNext, At, KeepInv, TypeInv, TypeOK, Runs, Single
<1>2. /\ prep[p].todo \subseteq Transactions
      /\ \A l \in Transactions : stage'[l] = stage[l] \/ (l = k /\ stage'[l] = "ABORTED" /\ ToAbort(stage[l]))
      /\ marker' = marker \/ (marker' = NoMarker /\ UNCHANGED stage /\ stage[k] = "COMMITTED" /\ marker = k)
  BY DEF RecoverNext, Record, KeepInv, TypeInv, TypeOK, DiskTypes, Runs
<1>3. ~Unfinished(k)'
  BY Members DEF RecoverNext, Record, Unfinished, ToRollBack, Settled, ToAbort, KeepInv, TypeInv, TypeOK, DiskTypes
<1>4. ASSUME NEW l \in Transactions, Unfinished(l)' PROVE Unfinished(l) /\ l # k
  <2>1. l # k /\ stage'[l] = stage[l]
    BY <1>2, <1>3, <1>4
  <2> QED
    BY <1>2, <1>4, <2>1, Members DEF Unfinished
<1>5. marker' # marker => NoneUnfinished'
  <2>1. marker' # marker => Unfinished(k)
    BY <1>2 DEF Unfinished
  <2> QED
    BY <1>4, <2>1 DEF AloneInv, NoneUnfinished
<1>6. Recovers(p)'
  <2>1. \A l \in prep'[p].todo : stage'[l] # Unused
    BY <1>1, <1>2 DEF AloneInv, Recovers, Unused
  <2>2. \A l \in Transactions : Unfinished(l)' => l \in prep'[p].todo
    BY <1>1, <1>4 DEF AloneInv, Recovers
  <2>3. NoneUnfinished => NoneUnfinished'
    BY <1>4 DEF NoneUnfinished
  <2>4. marker' # NoMarker \/ barrier' \/ file'[Last] = Absent \/ NoneUnfinished'
    BY <1>1, <1>5, <2>3 DEF AloneInv, Recovers, leaseVars
  <2> QED
    BY <2>1, <2>2, <2>4 DEF Recovers
<1>7. Finishes(p)'
  BY <1>1 DEF Finishes, Finished, Planning, Beyond, InPublish, InRollback
<1>8. ASSUME NEW l \in Transactions, Unfinished(l)' PROVE Spared(l)'
  <2>1. Spared(l) /\ marker' = marker
    BY <1>4, <1>5, <1>8 DEF AloneInv, NoneUnfinished
  <2> QED
    BY <1>1, <2>1 DEF Spared
<1> QED
  BY <1>1, <1>4, <1>6, <1>7, <1>8 DEF AloneInv

\* The only journal it rolls back is one whose voice readers cannot open.
LEMMA RollsBackUnexposed ==
  ASSUME AloneInv, NEW p \in Preparers, NEW k \in Transactions, RecoverRollsBack(p, k)
  PROVE  Unfinished(k) /\ Spared(k) /\ ~Uncovered(k)
<1>1. Unfinished(k)
  BY DEF RecoverRollsBack, AloneInv, Recovers, Unfinished
<1>2. Spared(k)
  BY <1>1 DEF AloneInv
<1>3. marker # NoMarker \/ barrier \/ file[Last] = Absent
  BY <1>1 DEF RecoverRollsBack, At, AloneInv, Recovers, NoneUnfinished
<1> QED
  BY <1>1, <1>2, <1>3 DEF Spared, Uncovered

LEMMA RecoverRollsBackAlone ==
  ASSUME Single, KeepInv, AloneInv, NEW p \in Preparers, NEW k \in Transactions, RecoverRollsBack(p, k)
  PROVE  AloneInv'
<1>1. /\ prep'[p].at = "rollback" /\ prep'[p].txn = k /\ prep'[p].todo = prep[p].todo \ {k}
      /\ \A q \in Preparers : q = p
  BY DEF RecoverRollsBack, KeepInv, TypeInv, TypeOK, Runs, Idle, Single
<1>2. Unfinished(k) /\ Spared(k)
  BY RollsBackUnexposed
<1>3. UNCHANGED <<stage, marker, file, before>>
  BY DEF RecoverRollsBack, diskVars
<1>4. Recovers(p)'
  BY <1>1, <1>3 DEF Recovers, AloneInv
<1>5. Finishes(p)'
  BY <1>1, <1>2, <1>3, UnfinishedStay DEF AloneInv, Finishes, Finished, Planning
<1> QED
  BY <1>1, <1>3, <1>4, <1>5, UnfinishedStay DEF AloneInv

LEMMA RecoverFindsMarkerAlone ==
  ASSUME Single, KeepInv, AloneInv, NEW p \in Preparers, RecoverFindsMarker(p)
  PROVE  AloneInv'
<1>1. /\ prep[p].at = "recover" /\ prep'[p].at = "unresolved" /\ prep'[p].todo = prep[p].todo
      /\ \A q \in Preparers : q = p
  BY GotoIs DEF RecoverFindsMarker, At, KeepInv, Single
<1>2. UNCHANGED <<stage, marker, file, before>>
  BY DEF RecoverFindsMarker, diskVars
<1>3. Recovers(p)'
  BY <1>1, <1>2, UnfinishedStay DEF AloneInv, Recovers
<1>4. Finishes(p)'
  BY <1>1 DEF Finishes, Finished, Planning, Beyond, InPublish, InRollback
<1> QED
  BY <1>1, <1>2, <1>3, <1>4, UnfinishedStay DEF AloneInv

\* With nothing in hand but the planning of a transaction.
LEMMA PlanningAlone ==
  ASSUME Single, KeepInv, AloneInv, NEW p \in Preparers,
         Stage(p) \/ Plan(p) \/ Staged(p) \/ Publish(p)
  PROVE  AloneInv'
<1>1. NoneUnfinished
  <2>1. CASE Stage(p)
    BY <2>1 DEF Stage, At, AloneInv, Recovers, NoneUnfinished
  <2>2. CASE Plan(p) \/ Staged(p) \/ Publish(p)
    BY <2>2 DEF Plan, Staged, Publish, At, AloneInv, Finishes, Finished, Planning
  <2> QED
    BY <2>1, <2>2
<1>2. /\ marker' = marker
      /\ \A l \in Transactions : stage'[l] = stage[l] \/ stage'[l] \in {"CREATED", "STAGED"}
  BY DEF Stage, Plan, Staged, Publish, diskVars, Record, KeepInv, TypeInv, TypeOK, DiskTypes
<1>3. NoneUnfinished'
  BY <1>1, <1>2 DEF NoneUnfinished, Unfinished, ToRollBack, ToAbort
<1>4. prep'[p].at \in {"idle", "plan", "publish", "backup"} /\ prep'[p].todo \subseteq prep[p].todo
  <2>1. CASE Stage(p)
    <3>1. Idle.at = "idle" /\ Idle.todo = {} /\ prep \in [Preparers -> Runs]
      BY DEF Idle, KeepInv, TypeInv, TypeOK
    <3>2. CASE prep' = [prep EXCEPT ![p] = Idle]
      BY <3>1, <3>2
    <3>3. ASSUME NEW k, prep' = [prep EXCEPT ![p] = [Idle EXCEPT !.at = "plan", !.txn = k, !.mine = TRUE]]
          PROVE  prep'[p].at = "plan" /\ prep'[p].todo = {}
      BY <3>1, <3>3 DEF Idle
    <3> QED
      BY <2>1, <3>2, <3>3 DEF Stage
  <2>2. CASE Plan(p) \/ Staged(p) \/ Publish(p)
    BY <2>2, GotoIs, GotoItemIs DEF Plan, Staged, Publish, KeepInv
  <2> QED
    BY <2>1, <2>2
<1>5. \A l \in prep'[p].todo : stage'[l] # Unused
  BY <1>2, <1>4 DEF AloneInv, Recovers, Unused, KeepInv, TypeInv, TypeOK, Runs
<1> QED
  BY <1>3, <1>4, <1>5, NoneAlone DEF Beyond, InPublish, InRollback

LEMMA ClearedAlone ==
  ASSUME Single, KeepInv, AloneInv, NEW p \in Preparers, Clear(p) \/ Unmark(p)
  PROVE  AloneInv'
<1>1. UNCHANGED <<file, stage, before>> /\ marker' = NoMarker
  BY DEF Clear, Unmark, ClearMarker
<1>2. NoneUnfinished'
  <2>1. ASSUME NEW l \in Transactions PROVE ~Unfinished(l)'
    <3>1. ~(stage[l] # Unused /\ ToRollBack(stage[l]))
      BY DEF Clear, Unmark, At, AloneInv, Finishes, Finished, NoneUnfinished, Beyond, InPublish,
             Unfinished, ToRollBack
    <3> QED
      BY <1>1, <3>1, Members DEF Unfinished
  <2> QED
    BY <2>1 DEF NoneUnfinished
<1>3. prep'[p].at \in {"idle", "recover", "leave"} /\ prep'[p].todo \subseteq prep[p].todo
  <2>1. CASE End(p)
    BY <2>1 DEF End, Idle, KeepInv, TypeInv, TypeOK
  <2>2. CASE Clear(p) \/ GotoItem(p, "recover", 1)
    BY <2>2, GotoIs, GotoItemIs DEF Clear, KeepInv
  <2> QED
    BY <2>1, <2>2 DEF Unmark
<1>4. \A l \in prep'[p].todo : stage'[l] # Unused
  BY <1>1, <1>3 DEF AloneInv, Recovers
<1> QED
  BY <1>2, <1>3, <1>4, NoneAlone DEF Beyond, InPublish, InRollback

\* A transaction on its way, in either direction.
LEMMA OnItsWayAlone ==
  ASSUME Single, KeepInv, CoverInv, AloneInv, NEW p \in Preparers,
         \/ BackUp(p) \/ Mark(p) \/ Publishing(p) \/ Replace(p) \/ Deploy(p) \/ ProbePasses(p)
         \/ ReplaceConfig(p) \/ Commit(p) \/ Rollback(p) \/ Check(p) \/ RolledBack(p)
  PROVE  AloneInv'
<1> DEFINE k == prep[p].txn
<1>1. /\ prep[p].at \in {"backup", "mark", "publishing", "replace", "probe", "config", "commit",
                         "rollback", "check", "restore"}
      /\ prep'[p].at \in {"mark", "publishing", "replace", "probe", "config", "commit", "clear",
                          "check", "restore", "unmark"}
      /\ prep'[p].txn = k /\ prep'[p].todo = prep[p].todo
  BY GotoIs, GotoItemIs
  DEF BackUp, Mark, Publishing, Replace, Deploy, ProbePasses, ReplaceConfig, Commit, Rollback, Check,
      RolledBack, Recorded, At, KeepInv
<1>2. /\ prep[p].at \in (Beyond \ {"leave"}) \cup {"backup"} /\ prep'[p].at \in Beyond \ {"leave"}
      /\ k \in Transactions
  BY <1>1 DEF Beyond, InPublish, InRollback, KeepInv, TypeInv, InHand
<1>3. /\ \A l \in Transactions : stage'[l] = stage[l] \/ (l = k /\ stage'[l] # Unused)
      /\ prep'[p].at = "unmark" => stage'[k] = "ROLLED_BACK"
      /\ prep'[p].at = "clear" => stage'[k] = "COMMITTED"
  <2>1. stage \in [Transactions -> Stages]
    BY DEF KeepInv, TypeInv, TypeOK, DiskTypes
  <2>2. CASE Mark(p) \/ Replace(p) \/ ReplaceConfig(p) \/ Check(p)
    <3>1. UNCHANGED stage
      BY <2>2 DEF Mark, Replace, ReplaceConfig, Check, diskVars
    <3>2. prep'[p].at \notin {"unmark", "clear"}
      BY <2>2, GotoIs, GotoItemIs DEF Mark, Replace, ReplaceConfig, Check, KeepInv
    <3> QED
      BY <3>1, <3>2
  <2>3. CASE BackUp(p) \/ Publishing(p) \/ Rollback(p)
    <3>1. PICK s \in {"BACKED_UP", "PUBLISHING", "ROLLING_BACK"} : Record(k, s)
      BY <2>3 DEF BackUp, Publishing, Rollback
    <3>2. prep'[p].at \notin {"unmark", "clear"}
      BY <2>3, GotoIs, GotoItemIs DEF BackUp, Publishing, Rollback, KeepInv
    <3> QED
      BY <2>1, <3>1, <3>2 DEF Record, Unused
  <2>4. CASE Deploy(p) \/ ProbePasses(p)
    <3>1. PICK s \in {"DEPLOYED_PROBE", "READY_TO_COMMIT"} : Record(k, s)
      BY <2>4 DEF Deploy, ProbePasses, Recorded
    <3>2. prep'[p].at \notin {"unmark", "clear"}
      BY <2>4, GotoIs DEF Deploy, ProbePasses, Recorded, KeepInv
    <3> QED
      BY <2>1, <3>1, <3>2 DEF Record, Unused
  <2>5. CASE Commit(p)
    BY <1>2, <2>1, <2>5, GotoIs DEF Commit, Recorded, Record, Unused, KeepInv
  <2>6. CASE RolledBack(p)
    BY <1>2, <2>1, <2>6, GotoIs DEF RolledBack, Recorded, Record, Unused, KeepInv
  <2> QED
    BY <2>2, <2>3, <2>4, <2>5, <2>6
<1>4. marker' \in {marker, k}
  BY DEF BackUp, Mark, Publishing, Replace, Deploy, ProbePasses, ReplaceConfig, Commit, Rollback, Check,
         RolledBack, Recorded, diskVars
<1>5. Spared(k)'
  <2>1. CASE Replace(p) \/ ReplaceConfig(p)
    <3>1. marker' = k
      BY <2>1 DEF CoverInv, Safe, Marked, Marking, InPublish, Replace, ReplaceConfig, At
    <3> QED
      BY <1>1, <1>2, <3>1, Members DEF Spared
  <2>2. CASE BackUp(p)
    <3>1. UNCHANGED <<file, before>> /\ file = before[k]
      BY <2>2 DEF BackUp, Unchanged
    <3> QED
      BY <1>1, <3>1 DEF Spared
  <2>3. CASE Mark(p)
    BY <1>1, <1>2, <2>3, Members DEF Spared, Mark
  <2>4. CASE \/ Publishing(p) \/ Deploy(p) \/ ProbePasses(p) \/ Commit(p) \/ Rollback(p) \/ Check(p)
             \/ RolledBack(p)
    <3>1. UNCHANGED <<file, before, marker>> /\ prep[p].at # "backup"
      BY <2>4 DEF Publishing, Deploy, ProbePasses, Commit, Rollback, Check, RolledBack, Recorded, diskVars, At
    <3>2. Spared(k)
      BY <1>2, <3>1 DEF AloneInv, Finishes
    <3> QED
      BY <1>1, <3>1, <3>2 DEF Spared
  <2> QED
    BY <2>1, <2>2, <2>3, <2>4
<1> QED
  BY <1>1, <1>2, <1>3, <1>4, <1>5, BeyondAlone

\* What takes model.json away has not found one.
LEMMA RestoreAlone ==
  ASSUME Single, KeepInv, CoverInv, AloneInv, NEW p \in Preparers, Restore(p)
  PROVE  AloneInv'
<1> DEFINE k == prep[p].txn
           i == prep[p].item
<1>1. /\ prep[p].at = "restore" /\ prep'[p].at = "restore" /\ prep'[p].txn = k
      /\ prep'[p].todo = prep[p].todo /\ k \in Transactions /\ i \in Items
      /\ UNCHANGED <<stage, marker, before>>
  BY GotoItemIs, VoiceTransactionAssumption
  DEF VoiceTransactionAssumption, Restore, At, KeepInv, TypeInv, TypeOK, Runs, InHand, Items
<1>2. "restore" \in Beyond \ {"leave"}
  BY DEF Beyond, InRollback
<1>3. Spared(k)
  BY <1>1, <1>2 DEF AloneInv, Finishes
<1>4. Recognized(k, i) /\ file' = [file EXCEPT ![i] = IF before[k][i] = Absent THEN Absent ELSE backup[k][i]]
  BY DEF Restore, CanRestore
<1>5. \A x : Digest(x) = Absent => x = Absent
  BY DEF Digest, Prepared, Absent
<1>6. Digest(Absent) = Absent
  BY DEF Digest, Absent, Transactions
<1>7. file'[Last] = Absent => before[k][Last] = Absent \/ (i # Last /\ file[Last] = Absent)
  BY <1>1, <1>4, <1>5, <1>6, Members DEF Recognized, KeepInv, TypeInv, TypeOK, DiskTypes
<1>8. Spared(k)'
  BY <1>1, <1>3, <1>7 DEF Spared
<1> QED
  BY <1>1, <1>2, <1>8, BeyondAlone

LEMMA EndsAlone ==
  ASSUME Single, KeepInv, AloneInv, NEW p \in Preparers, Leave(p) \/ Crash(p) \/ Block(p)
  PROVE  AloneInv'
<1>1. prep' = [prep EXCEPT ![p] = Idle] /\ UNCHANGED <<file, marker, before>>
  BY DEF Leave, Crash, Block, End, diskVars
<1>2. CASE Leave(p) \/ Crash(p)
  BY <1>1, <1>2, EndAlone DEF Leave, Crash, diskVars
<1>3. CASE Block(p)
  <2>1. prep[p].at \in Beyond \ {"leave"} /\ Record(prep[p].txn, "RECOVERY_BLOCKED")
    BY <1>3 DEF Block, At, Beyond
  <2>2. \A l \in Transactions : stage'[l] = stage[l] \/ (l = prep[p].txn /\ prep[p].at \in Beyond \ {"leave"})
    BY <2>1 DEF Record, KeepInv, TypeInv, TypeOK, DiskTypes
  <2> QED
    BY <1>1, <2>2, EndAlone
<1> QED
  BY <1>2, <1>3

LEMMA RefusalAlone ==
  ASSUME Single, KeepInv, CoverInv, AloneInv, NEW p \in Preparers,
         \/ RecoverRefused(p) \/ Unresolved(p) \/ CheckRefused(p) \/ RestoreRefused(p)
         \/ RolledBackRefused(p) \/ UnmarkRefused(p) \/ PublishRefused(p) \/ BackUpRefused(p)
         \/ ProbeFails(p) \/ ReplaceConfigRefused(p) \/ CommitRefused(p)
  PROVE  AloneInv'
<1>1. Raise(p) /\ prep[p].at # "leave" /\ UNCHANGED diskVars
  BY DEF RecoverRefused, Unresolved, CheckRefused, RestoreRefused, RolledBackRefused, UnmarkRefused,
         PublishRefused, BackUpRefused, ProbeFails, ReplaceConfigRefused, CommitRefused, Refuses, At
<1> QED
  BY <1>1, RaiseAlone

LEMMA EditAlone ==
  ASSUME Single, KeepInv, AloneInv, NEW i \in Items, Edit(i)
  PROVE  AloneInv'
<1>1. Alien # Absent /\ UNCHANGED <<stage, marker, before, barrier, prep>>
  BY DEF KeepInv, TypeInv, TypeOK, EnvTypes, Alien, Absent, Edit, leaseVars
<1>2. file'[Last] = Absent <=> file[Last] = Absent
  BY <1>1, Members DEF Edit, KeepInv, TypeInv, TypeOK, DiskTypes
<1>3. \A k \in Transactions : (Unfinished(k)' <=> Unfinished(k)) /\ (Spared(k)' <=> Spared(k))
  BY <1>1, <1>2 DEF Unfinished, Spared
<1>4. NoneUnfinished' <=> NoneUnfinished
  BY <1>3 DEF NoneUnfinished
<1>5. ASSUME NEW p \in Preparers PROVE Recovers(p)' /\ Finishes(p)'
  <2>1. Recovers(p) /\ Finishes(p)
    BY DEF AloneInv
  <2>2. Recovers(p)'
    BY <1>1, <1>2, <1>3, <1>4, <2>1 DEF Recovers
  <2>3. Finishes(p)'
    BY <1>1, <1>2, <1>3, <1>4, <2>1 DEF Finishes, Spared
  <2> QED
    BY <2>2, <2>3
<1> QED
  BY <1>3, <1>5 DEF AloneInv

LEMMA StillAlone ==
  ASSUME AloneInv, UNCHANGED <<diskVars, leaseVars, prep>>
  PROVE  AloneInv'
<1>1. UNCHANGED <<stage, marker, file, before, barrier, prep>>
  BY DEF diskVars, leaseVars
<1>2. ASSUME NEW p \in Preparers PROVE Recovers(p)' /\ Finishes(p)'
  <2>1. Recovers(p) /\ Finishes(p)
    BY DEF AloneInv
  <2>2. Recovers(p)'
    BY <1>1, <2>1, UnfinishedStay DEF Recovers
  <2>3. Finishes(p)'
    BY <1>1, <2>1, UnfinishedStay DEF Finishes, Spared
  <2> QED
    BY <2>2, <2>3
<1> QED
  BY <1>1, <1>2, UnfinishedStay DEF AloneInv

LEMMA AloneInvHolds == Init => AloneInv
<1> SUFFICES ASSUME Init PROVE AloneInv
  OBVIOUS
<1>1. \A p \in Preparers : prep[p].at = "idle" /\ prep[p].todo = {}
  BY DEF Init, Idle
<1>2. \A k \in Transactions : ~Unfinished(k)
  BY DEF Init, Unfinished, Unused
<1>3. ASSUME NEW p \in Preparers PROVE Recovers(p) /\ Finishes(p)
  BY <1>1 DEF Recovers, Finishes, Finished, Planning, Beyond, InPublish, InRollback
<1> QED
  BY <1>2, <1>3 DEF AloneInv

LEMMA AloneIsCareful ==
  ASSUME AloneInv, ~Interrupts, [Next]_vars
  PROVE  Careful
<1>1. ~ExposedRollback
  BY RollsBackUnexposed DEF ExposedRollback
<1>2. ~LateInterrupt
  BY DEF LateInterrupt, Throw
<1> QED
  BY <1>1, <1>2 DEF Careful

LEMMA AloneInvIsKept ==
  ASSUME Single, ~Interrupts, KeepInv, CoverInv, AloneInv, [Next]_vars
  PROVE  AloneInv'
<1>1. CASE UNCHANGED vars
  BY <1>1, StillAlone DEF vars
<1>2. ASSUME NEW p \in Preparers, Start(p) PROVE AloneInv'
  BY <1>2, StartAlone
<1>3. ASSUME NEW p \in Preparers, Recovery(p) PROVE AloneInv'
  BY <1>3, RecoverNextAlone, RecoverRollsBackAlone, RecoverFindsMarkerAlone, OnItsWayAlone, RestoreAlone,
     ClearedAlone, EndsAlone, RefusalAlone
  DEF Recovery
<1>4. ASSUME NEW p \in Preparers, Publication(p) PROVE AloneInv'
  BY <1>4, PlanningAlone, OnItsWayAlone, ClearedAlone, EndsAlone, RefusalAlone DEF Publication
<1>5. ASSUME NEW p \in Preparers, Throw(p) PROVE AloneInv'
  BY <1>5, RaiseAlone DEF Throw, At
<1>6. ASSUME NEW p \in Preparers, Crash(p) PROVE AloneInv'
  BY <1>6, EndsAlone
<1>7. ASSUME NEW i \in Items, Edit(i) PROVE AloneInv'
  BY <1>7, EditAlone
<1>8. ASSUME NEW r \in Readers, Open(r) \/ Load(r) PROVE AloneInv'
  BY <1>8, StillAlone DEF Open, Load, Admit, Read, Unload
<1> QED
  BY <1>1, <1>2, <1>3, <1>4, <1>5, <1>6, <1>7, <1>8 DEF Next

LEMMA AloneKeepsAll ==
  ASSUME Single, ~Interrupts
  PROVE  KeepInv /\ CoverInv /\ AloneInv /\ [Next]_vars => KeepInv' /\ CoverInv' /\ AloneInv'
BY AloneIsCareful, AloneInvIsKept, KeepInvIsKept, CoverInvIsKept

\* Runs of the script that follow one another, and are not interrupted once their
\* marker is gone, never let a desktop load a mixture of old and new files, however
\* often they fail, are killed or find the user's own files: recover meets at most one
\* journal to roll back (src/scripts/prepare_downloaded_voices.py:353), under its marker,
\* under the lease's handle or without a model.json to load.
THEOREM OneRunNeverMixesALoad ==
  ASSUME Single, ~Interrupts
  PROVE  Spec => []NoMixedLoad
<1>1. KeepInv /\ CoverInv /\ AloneInv => NoMixedLoad
  BY CoverInvShows
<1>2. KeepInv /\ CoverInv /\ AloneInv /\ [Next]_vars => KeepInv' /\ CoverInv' /\ AloneInv'
  BY AloneKeepsAll
<1> QED
  BY <1>1, <1>2, KeepInvHolds, CoverInvHolds, AloneInvHolds, PTL DEF Spec

\* Under the same conditions a voice that is half old and half new is always marked, or
\* has no model.json: what voice_recovery checks for one run, two failures and two
\* kills, for any number of them.
THEOREM OneRunMarksAMix ==
  ASSUME Single, ~Interrupts
  PROVE  Spec => []MixIsMarked
<1>1. KeepInv /\ CoverInv /\ AloneInv => MixIsMarked
  BY CoverInvShows
<1>2. KeepInv /\ CoverInv /\ AloneInv /\ [Next]_vars => KeepInv' /\ CoverInv' /\ AloneInv'
  BY AloneKeepsAll
<1> QED
  BY <1>1, <1>2, KeepInvHolds, CoverInvHolds, AloneInvHolds, PTL DEF Spec

=============================================================================
