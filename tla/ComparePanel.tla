---------------------------- MODULE ComparePanel ----------------------------
(***************************************************************************)
(* The comparison panel: groups of two files each, the draft that edits    *)
(* one of them, the options in the controls, and the job that hashes,      *)
(* reads, hashes again and compares on the background WorkerQueue and      *)
(* posts its report back to the window.  Other programs change the files.  *)
(*                                                                         *)
(* One handler of the window is one step, and so is one stage of the job.  *)
(* A hash is modelled by the contents.  A file that changes never returns  *)
(* to what it held: what it gets is newer, and Age orders the contents.    *)
(* stop_source copies share one flag, and only one comparison is ever      *)
(* under way, so the flag is the variable cancel.                          *)
(***************************************************************************)
EXTENDS CompareAlgorithms

CONSTANTS
  Files, Contents, Later,  \* a file holds one of Contents first, one of Later when changed
  Age,            \* orders the contents in time
  Drafts,         \* what the user enters: a label and two paths
  NoPath,
  OptionChoices, Invalid,
  Nothing,
  Longest,        \* bound on the lengths the reference definitions enumerate
  MaxEdits,       \* bound on the changes to options and drafts
  MaxComparisons, \* bound on the comparisons and exports
  MaxChanges,     \* bound on the changes of the files
  MaxFaults       \* bound on the reads and saves that fail

Paths == Files \cup {NoPath}
Texts == Contents \cup Later

\* Drafts have three fields, whose paths are those of files.
ASSUME ComparePanelAssumption ==
  /\ Drafts \subseteq [label : {d.label : d \in Drafts}, reference : Paths, actual : Paths]
  /\ NoPath \notin Files
  /\ Age \in [Texts -> Nat]
  /\ Invalid \notin OptionChoices

\* The texts are of characters, within the bound, and the limits are numbers.
ASSUME ComparedAssumption ==
  /\ Longest \in Nat
  /\ \A text \in Texts :
       /\ text \in Seq(Seq(DOMAIN Fold)) /\ Len(text) <= Longest
       /\ \A k \in DOMAIN text : Len(text[k]) <= Longest
  /\ \A options \in OptionChoices :
       {options.threshold, options.anchor, options.margin, options.gap} \subseteq Int

VARIABLES
  files,
  controls,       \* the options in the controls
  observed, valid, \* observed_options_, options_valid_
  saved,          \* config.compare
  groups, draft, editing, dirty, nextId,
  revision, report, reportRevision,
  busy, comparing, closing, cancel,
  job,            \* the task of the background queue
  posted,         \* its CallAfter
  edits, comparisons, changes, faults

optionVars == <<controls, observed, valid, saved>>
groupVars == <<groups, draft, editing, dirty, nextId>>
reportVars == <<revision, report, reportRevision>>
stateVars == <<busy, comparing, closing, cancel>>
taskVars == <<job, posted>>
boundVars == <<edits, comparisons, changes, faults>>
vars == <<files, optionVars, groupVars, reportVars, stateVars, taskVars, boundVars>>

NoDraft == [label |-> "", reference |-> NoPath, actual |-> NoPath]
Complete(d) == d.reference # NoPath /\ d.actual # NoPath
\* DefaultLabel takes the stem of the reference's file name.
Labelled(d) == IF d.label = "" THEN [d EXCEPT !.label = d.reference] ELSE d
Ids(gs) == {gs[k].id : k \in DOMAIN gs}
Position(gs, id) == CHOOSE k \in DOMAIN gs : gs[k].id = id
InputOf(gs, id) == IF id \in Ids(gs) THEN gs[Position(gs, id)].input ELSE NoDraft

Init ==
  /\ files \in [Files -> Contents]
  /\ controls \in OptionChoices /\ observed = controls /\ saved = controls /\ valid = TRUE
  /\ groups = <<>> /\ draft = NoDraft /\ editing = 0 /\ dirty = FALSE /\ nextId = 0
  /\ revision = 0 /\ report = <<>> /\ reportRevision = -1
  /\ busy = FALSE /\ comparing = FALSE /\ closing = FALSE /\ cancel = FALSE
  /\ job = Nothing /\ posted = Nothing
  /\ edits = 0 /\ comparisons = 0 /\ changes = 0 /\ faults = 0

\* SetBusy and BeginShutdown disable every control that changes the inputs.
InputsEnabled == ~busy /\ ~closing

Edit == InputsEnabled /\ edits < MaxEdits /\ edits' = edits + 1
Fault == faults < MaxFaults /\ faults' = faults + 1
NoFault == faults' = faults

InvalidateReport == report' = <<>> /\ reportRevision' = -1

\* MarkInputChanged, when something changed
MarkInput(changed) ==
  IF changed THEN revision' = revision + 1 /\ InvalidateReport
  ELSE UNCHANGED reportVars

-----------------------------------------------------------------------------
(* The options                                                             *)

\* CommitOptions after the observation: a save that fails leaves the
\* configuration as it was.
Commit(options) ==
  \/ saved' = options /\ NoFault
  \/ saved # options /\ UNCHANGED saved /\ Fault

ObserveOptions(options) ==
  /\ controls' = options /\ valid' = (options # Invalid)
  /\ observed' = IF valid' THEN options ELSE observed
  /\ MarkInput(IF valid' THEN ~valid \/ options # observed ELSE valid)

\* A typed value is observed at once and saved when its field is left.
ChangeOption(options) ==
  /\ Edit /\ options # controls
  /\ ObserveOptions(options)
  /\ (valid' /\ Commit(options)) \/ (UNCHANGED saved /\ NoFault)
  /\ UNCHANGED <<files, groupVars, stateVars, taskVars, comparisons, changes>>

LeaveField ==
  /\ InputsEnabled /\ valid /\ saved # controls /\ Commit(controls)
  /\ UNCHANGED <<files, controls, observed, valid, groupVars, reportVars, stateVars, taskVars,
                 edits, comparisons, changes>>

-----------------------------------------------------------------------------
(* The groups and the draft                                                *)

CanApply ==
  /\ Complete(draft)
  /\ \A k \in DOMAIN groups :
       groups[k].input.label = Labelled(draft).label => groups[k].id = editing

\* ApplyGroupDraft
Applied ==
  LET group == [id |-> IF editing = 0 THEN nextId + 1 ELSE editing, input |-> Labelled(draft)]
  IN [groups |-> IF editing = 0 THEN Append(groups, group)
                 ELSE [k \in DOMAIN groups |-> IF groups[k].id = editing THEN group ELSE groups[k]],
      id |-> group.id]

LoadGroupDraft(gs, id) ==
  /\ editing' = IF id \in Ids(gs) THEN id ELSE 0
  /\ draft' = InputOf(gs, id)
  /\ dirty' = FALSE

EditDraft(d) ==
  /\ Edit /\ d # draft
  /\ draft' = d
  /\ dirty' = (d # InputOf(groups, editing))
  /\ MarkInput(groups = <<>>)
  /\ UNCHANGED <<files, optionVars, groups, editing, nextId, stateVars, taskVars,
                 comparisons, changes, faults>>

\* The button that adds a group is enabled for a draft without one, the
\* button that applies the draft for a changed draft of a group.
ApplyGroup ==
  /\ InputsEnabled /\ (editing = 0 \/ dirty) /\ CanApply
  /\ groups' = Applied.groups
  /\ nextId' = IF editing = 0 THEN nextId + 1 ELSE nextId
  /\ LoadGroupDraft(groups', Applied.id)
  /\ MarkInput(groups' # groups)
  /\ UNCHANGED <<files, optionVars, stateVars, taskVars, boundVars>>

CancelGroup ==
  /\ InputsEnabled /\ dirty
  /\ LoadGroupDraft(groups, editing)
  /\ MarkInput(groups = <<>>)
  /\ UNCHANGED <<files, optionVars, groups, nextId, stateVars, taskVars, boundVars>>

\* ResolveGroupDraft asks whether to apply or drop a changed draft, then
\* another group, or none, is loaded.
LoadAnother(id) ==
  /\ InputsEnabled
  /\ \/ UNCHANGED <<groups, nextId>>
     \/ /\ dirty /\ CanApply
        /\ groups' = Applied.groups
        /\ nextId' = IF editing = 0 THEN nextId + 1 ELSE nextId
  /\ LoadGroupDraft(groups', id)
  /\ MarkInput(groups' # groups \/ (groups' = <<>> /\ draft # NoDraft))
  /\ UNCHANGED <<files, optionVars, stateVars, taskVars, boundVars>>

NewGroup == LoadAnother(0)
SelectInputGroup(id) == id \in Ids(groups) \ {editing} /\ LoadAnother(id)

OnRemoveGroup ==
  /\ InputsEnabled /\ editing # 0
  /\ groups' = RemoveAt(groups, Position(groups, editing))
  /\ LoadGroupDraft(groups', 0)
  /\ MarkInput(TRUE)
  /\ UNCHANGED <<files, optionVars, nextId, stateVars, taskVars, boundVars>>

CurrentInputGroups ==
  IF groups # <<>> THEN [k \in DOMAIN groups |-> groups[k].input]
  ELSE IF Complete(draft) THEN <<Labelled(draft)>> ELSE <<>>

-----------------------------------------------------------------------------
(* Comparing and exporting                                                 *)

Submit(task) ==
  /\ comparisons < MaxComparisons /\ comparisons' = comparisons + 1
  /\ busy' = TRUE /\ job' = task
  /\ UNCHANGED <<files, controls, observed, valid, groupVars, closing, posted, edits, changes>>

OnCompare ==
  /\ InputsEnabled /\ valid /\ (groups = <<>> \/ ~dirty) /\ CurrentInputGroups # <<>>
  /\ Commit(controls) /\ saved' = controls
  /\ InvalidateReport
  /\ cancel' = FALSE /\ comparing' = TRUE
  /\ Submit([at |-> "hash", groups |-> CurrentInputGroups, options |-> controls,
             revision |-> revision, hash |-> Nothing, read |-> Nothing, reports |-> <<>>])
  /\ UNCHANGED revision

OnExport ==
  /\ InputsEnabled /\ report # <<>> /\ reportRevision = revision
  /\ comparing' = FALSE
  /\ Submit([at |-> "export", reports |-> report])
  /\ UNCHANGED <<saved, reportVars, cancel, faults>>

CancelComparison ==
  /\ busy /\ comparing /\ ~cancel /\ ~closing
  /\ cancel' = TRUE
  /\ UNCHANGED <<files, optionVars, groupVars, reportVars, busy, comparing, closing, taskVars, boundVars>>

BeginShutdown ==
  /\ ~closing
  /\ closing' = TRUE /\ cancel' = TRUE /\ busy' = TRUE
  /\ UNCHANGED <<files, optionVars, groupVars, reportVars, comparing, taskVars, boundVars>>

-----------------------------------------------------------------------------
(* The job                                                                 *)

JobIs(at) == job # Nothing /\ job.at = at /\ ~closing
Group == job.groups[Len(job.reports) + 1]
Held == <<files[Group.reference], files[Group.actual]>>
JobUnchanged == UNCHANGED <<files, optionVars, groupVars, reportVars, stateVars, edits, comparisons, changes>>
Advance(next) == job' = next /\ UNCHANGED posted /\ NoFault /\ JobUnchanged
Post(message) == job' = Nothing /\ posted' = message /\ JobUnchanged

HashInputs ==
  JobIs("hash") /\ ~cancel /\ Advance([job EXCEPT !.at = "read", !.hash = Held])

ReadInputs ==
  JobIs("read") /\ Advance([job EXCEPT !.at = "rehash", !.read = Held])

\* Mutated: the files are not hashed again.
SameAsHashed == TRUE

StillAsHashed == Held = job.hash

\* Its rows are what Compare makes of what was read.
CompareGroup ==
  /\ JobIs("rehash") /\ ~cancel /\ StillAsHashed
  /\ LET reports == Append(job.reports, [group |-> Group, options |-> job.options,
                                         hash |-> job.hash, read |-> job.read])
     IN Advance([job EXCEPT !.reports = reports,
                            !.at = IF Len(reports) = Len(job.groups) THEN "post" ELSE "hash"])

PostReport ==
  JobIs("post") /\ ~cancel /\ NoFault
    /\ Post([kind |-> "report", revision |-> job.revision, reports |-> job.reports])

\* Mutated: the job ends without a word.
JobFailsQuietly ==
  /\ \/ JobIs("hash") /\ (Fault \/ (cancel /\ NoFault))
     \/ JobIs("read") /\ Fault
     \/ JobIs("rehash") /\ (Fault \/ ((cancel \/ ~StillAsHashed) /\ NoFault))
     \/ JobIs("post") /\ cancel /\ NoFault
  /\ Post(Nothing)

\* A read that fails, a file that changed, or Check after a cancellation.
JobFails ==
  /\ \/ JobIs("hash") /\ (Fault \/ (cancel /\ NoFault))
     \/ JobIs("read") /\ Fault
     \/ JobIs("rehash") /\ (Fault \/ ((cancel \/ ~StillAsHashed) /\ NoFault))
     \/ JobIs("post") /\ cancel /\ NoFault
  /\ Post([kind |-> "error"])

ExportEnds ==
  /\ JobIs("export") /\ (Fault \/ NoFault)
  /\ Post([kind |-> "exported"])

\* The stop token ends the job, or its callback finds the panel closing.
JobIsStopped ==
  /\ closing /\ <<job, posted>> # <<Nothing, Nothing>>
  /\ job' = Nothing /\ posted' = Nothing /\ NoFault /\ JobUnchanged

JobStep ==
  \/ HashInputs \/ ReadInputs \/ CompareGroup \/ PostReport \/ JobFails \/ ExportEnds \/ JobIsStopped

-----------------------------------------------------------------------------
(* The callbacks                                                           *)

Delivered(kind) == posted # Nothing /\ posted.kind = kind /\ ~closing /\ posted' = Nothing
CallbackUnchanged ==
  UNCHANGED <<files, optionVars, groupVars, revision, comparing, closing, cancel, job, boundVars>>

ReportCanceled ==
  /\ Delivered("report") /\ cancel
  /\ InvalidateReport /\ busy' = FALSE /\ CallbackUnchanged

\* A report for another revision is dropped, and the window stays busy.
ReportArrives ==
  /\ Delivered("report") /\ ~cancel
  /\ IF posted.revision = revision
     THEN report' = posted.reports /\ reportRevision' = posted.revision /\ busy' = FALSE
     ELSE UNCHANGED <<busy, report, reportRevision>>
  /\ CallbackUnchanged

ComparisonFailed ==
  /\ Delivered("error")
  /\ report' = <<>> /\ busy' = FALSE
  /\ UNCHANGED reportRevision /\ CallbackUnchanged

ExportReported ==
  /\ Delivered("exported")
  /\ busy' = FALSE /\ UNCHANGED <<report, reportRevision>> /\ CallbackUnchanged

Callback == ReportCanceled \/ ReportArrives \/ ComparisonFailed \/ ExportReported

\* Another program writes a file.
FileChanges(f, content) ==
  /\ changes < MaxChanges /\ changes' = changes + 1
  /\ Age[content] > Age[files[f]]
  /\ files' = [files EXCEPT ![f] = content]
  /\ UNCHANGED <<optionVars, groupVars, reportVars, stateVars, taskVars, edits, comparisons, faults>>

Next ==
  \/ \E options \in OptionChoices \cup {Invalid} : ChangeOption(options)
  \/ LeaveField
  \/ \E d \in Drafts : EditDraft(d)
  \/ \E id \in Ids(groups) : SelectInputGroup(id)
  \/ ApplyGroup \/ CancelGroup \/ NewGroup \/ OnRemoveGroup
  \/ OnCompare \/ OnExport \/ CancelComparison \/ BeginShutdown
  \/ JobStep \/ Callback
  \/ \E f \in Files, content \in Later : FileChanges(f, content)

Spec == Init /\ [][Next]_vars /\ WF_vars(JobStep) /\ WF_vars(Callback)
-----------------------------------------------------------------------------
(* Properties                                                              *)

\* ComparePanel: a report that can be seen and exported is of the groups and
\* the options the controls show, and was computed from the very contents its
\* hashes name.
ReportIsCurrent ==
  report # <<>> =>
    /\ reportRevision = revision
    /\ valid
    /\ [k \in DOMAIN report |-> report[k].group] = CurrentInputGroups
    /\ \A k \in DOMAIN report : report[k].options = controls /\ report[k].read = report[k].hash

\* ComparePanel::OnCompare and OnExport: a comparison or export comes to an end
\* that the window shows, whether it succeeds, fails, is canceled or finds its
\* inputs changed, unless the window closes.
ComparisonEnds == busy ~> (~busy \/ closing)

-----------------------------------------------------------------------------
(* What a report contains, against reference definitions                   *)

\* All ways to pair positions of two sequences without crossing.
Matchings ==
  [s \in (0..Longest) \X (0..Longest) |->
     {S \in SUBSET ((1..s[1]) \X (1..s[2])) :
        \A p, q \in S : p # q => (p[1] < q[1] /\ p[2] < q[2]) \/ (q[1] < p[1] /\ q[2] < p[2])}]

CommonLength(a, b) ==
  Max({Cardinality(S) : S \in {S \in Matchings[<<Len(a), Len(b)>>] : \A p \in S : a[p[1]] = b[p[2]]}})

EditDistance(a, b) ==
  Min({Len(a) + Len(b) - 2 * Cardinality(S) + Cardinality({p \in S : a[p[1]] # b[p[2]]}) :
         S \in Matchings[<<Len(a), Len(b)>>]})

Similarity(a, b) ==
  IF a = <<>> /\ b = <<>> THEN Percent(100)
  ELSE (200 * Scale * CommonLength(a, b)) \div (Len(a) + Len(b))

\* Pairs that stand out in their row and column, and the longest chains of them.
Anchors(scores, options) ==
  {p \in DOMAIN scores :
     /\ scores[p] >= Max2(options.anchor, options.threshold)
     /\ scores[p] >= options.margin /\ scores[p] > 0
     /\ \A q \in DOMAIN scores : q # p /\ (q[1] = p[1] \/ q[2] = p[2]) =>
          scores[p] > scores[q] /\ scores[p] - scores[q] >= options.margin}

Total(price, S) == MapThenSumSet(LAMBDA p : price[p], S)

\* The pairs of an alignment contain a longest chain of anchors, none is below
\* the threshold, and no other such alignment is cheaper.
OptimalAmong(paired, all, scores, price, refs, acts, options) ==
  LET chains == {S \in all : S \subseteq Anchors(scores, options)}
      longest == Max({Cardinality(S) : S \in chains})
      Cost(S) == options.gap * (Len(refs) + Len(acts) - 2 * Cardinality(S)) + Total(price, S)
      allowed == {S \in all : \A p \in S : scores[p] >= options.threshold}
  IN /\ paired \in allowed
     /\ \E chain \in chains :
          /\ Cardinality(chain) = longest /\ chain \subseteq paired
          /\ \A S \in allowed : chain \subseteq S => Cost(paired) <= Cost(S)

Optimal(paired, refs, acts, options) ==
  LET scores == [p \in (DOMAIN refs) \X (DOMAIN acts) |-> Similarity(refs[p[1]], acts[p[2]])]
      price == [p \in DOMAIN scores |-> Percent(100) - scores[p]]
  IN OptimalAmong(paired, Matchings[<<Len(refs), Len(acts)>>], scores, price, refs, acts, options)

Kept(side) == Select(side, {fragment \in ToSet(side) : fragment.same})
Characters(side) == [k \in DOMAIN side |-> side[k].text]

\* The differences rebuild both texts and leave as much alike as possible;
\* the edits are as few as possible and account for the lengths.
RowIsSound(row, reference, actual, options) ==
  LET Text(lines, i) == IF i = 0 THEN <<>> ELSE lines[i]
      rawR == Text(reference, row.pair.reference)  rawA == Text(actual, row.pair.actual)
      r == Units(rawR, options)  a == Units(rawA, options)
  IN /\ Characters(row.diff.reference) = rawR /\ Characters(row.diff.actual) = rawA
     /\ Kept(row.diff.reference) = Kept(row.diff.actual)
     /\ Len(Kept(row.diff.reference)) = CommonLength(rawR, rawA)
     /\ options.metric # "indel" =>
          /\ row.edits.s + row.edits.d + row.edits.i = EditDistance(r, a)
          /\ row.edits.i - row.edits.d = Len(a) - Len(r)
     /\ row.status \in {"OK", "NG"} /\ options.maxError = 0 /\ options.pass = Percent(100) =>
          (row.status = "OK" <=> r = a)

\* The numbers other than 0 are those of the lines, each once and in order.
EachOnce(numbers, lines) ==
  LET there == {k \in DOMAIN numbers : numbers[k] # 0}
  IN /\ {numbers[k] : k \in there} = DOMAIN lines
     /\ \A k, l \in there : k < l => numbers[k] < numbers[l]

RowsAreSound(rows, reference, actual, options) ==
  LET Normalized(lines) == [i \in DOMAIN lines |-> Normalize(lines[i], options)]
      both == {row \in ToSet(rows) : row.pair.reference # 0 /\ row.pair.actual # 0}
      paired == {<<row.pair.reference, row.pair.actual>> : row \in both}
  IN /\ EachOnce([k \in DOMAIN rows |-> rows[k].pair.reference], reference)
     /\ EachOnce([k \in DOMAIN rows |-> rows[k].pair.actual], actual)
     /\ options.pairing = "sequence" =>
          Optimal(paired, Normalized(reference), Normalized(actual), options)
     /\ \A i \in DOMAIN rows : RowIsSound(rows[i], reference, actual, options)

\* As a set of tuples: TLC evaluates a filter of it once, of a product at every use.
Inputs == {<<f, g, options>> : f \in Texts, g \in Texts, options \in OptionChoices}

SoundComparisons ==
  {c \in Inputs :
     LET reference == Import(c[1], c[3])  actual == Import(c[2], c[3])
     IN RowsAreSound(Compare(reference, actual, c[3]), reference, actual, c[3])}

\* CompareService::Compare: in every report, every record of either file occurs
\* once and in order; the automatic alignment is the cheapest one around its
\* anchors; distances and differences are minimal; without tolerance a row is
\* OK exactly when its texts agree.
ReportIsSound ==
  posted # Nothing /\ posted.kind = "report" =>
    \A k \in DOMAIN posted.reports :
      LET part == posted.reports[k] IN <<part.read[1], part.read[2], part.options>> \in SoundComparisons

=============================================================================
