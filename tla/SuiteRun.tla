------------------------------ MODULE SuiteRun ------------------------------
(***************************************************************************)
(* The evaluation suite on disk (src/eval/run_suite.py): each mode runs    *)
(* its scenarios and flushes one line per finished scenario to the files   *)
(* of the mode, so that a suite that was killed, or whose scenario raised, *)
(* can be launched again with --resume.  The summary is written once all   *)
(* modes are through.                                                      *)
(*                                                                         *)
(* A file is what its lines say, that is, how many lines each scenario     *)
(* has: nothing reads their order.  A line is written whole.  Scenarios    *)
(* and modes are taken in any order, where the code takes them as listed.  *)
(***************************************************************************)
EXTENDS Naturals, Sequences

CONSTANTS
  Scenarios,
  Stale,       \* those of the staleness category
  Modes,       \* the ablation modes, "full" among them
  Drifted,     \* the <<mode, scenario>> whose runs report drift
  Launches,    \* the command lines that may be given
  NoVal,
  MaxTorn      \* bound of the model

\* runs_<mode>.jsonl has the name of its mode; "runs" is runs.jsonl.
Paths == Modes \cup {"runs"}

ASSUME SuiteAssumption ==
  /\ Stale \subseteq Scenarios
  /\ "full" \in Modes /\ "runs" \notin Modes /\ NoVal \notin Modes
  /\ Drifted \subseteq (Modes \ {"no_revalidation"}) \X Stale
  /\ Launches \subseteq [modes : SUBSET Modes, scenarios : SUBSET Scenarios, resume : BOOLEAN]
  /\ MaxTorn \in Nat

VARIABLES
  disk,     \* the result files
  at,       \* where the suite's process is; "off" when there is none
  args,     \* its command line
  left,     \* the modes it has not begun
  mode,     \* the mode it is in
  todo,     \* the scenarios of the mode it has not begun
  current,  \* the scenario whose line is being written
  pending,  \* the files still to be opened, or to be written to, in order
  append,   \* write_mode is "a"
  records,  \* the lines it has in memory, by mode
  summary,  \* metrics_summary.json: by mode, the lines it is computed from and
            \* the scenarios it counts as falsely drifted
  (* History.                                                              *)
  flushed,  \* the process has completed a line
  torn      \* kills between the writes of one line to the two files

process == <<at, args, left, mode, todo, current, pending, append, records>>
vars    == <<disk, process, summary, flushed, torn>>

Files  == [Scenarios -> Nat]
Empty  == [s \in Scenarios |-> 0]
Lines(f) == {s \in Scenarios : f[s] > 0}
WithLine(f, s) == [f EXCEPT ![s] = @ + 1]

\* Mutant: runs.jsonl is opened first.
_mode_output_paths_MirrorFirst(m) == IF m = "full" THEN <<"runs", m>> ELSE <<m>>

_mode_output_paths(m) == IF m = "full" THEN <<m, "runs">> ELSE <<m>>

Init ==
  /\ disk = [p \in Paths |-> Empty]
  /\ at = "off" /\ args \in Launches
  /\ left = {} /\ mode = NoVal /\ todo = {} /\ current = NoVal
  /\ pending = <<>> /\ append = FALSE
  /\ records = [m \in Modes |-> Empty] /\ summary = NoVal
  /\ flushed = FALSE /\ torn = 0

-----------------------------------------------------------------------------
(* _run_mode.                                                              *)

\* What --resume takes from an earlier launch.
already_done(m) == IF args.resume THEN disk[m] ELSE Empty

\* Mutant: --resume runs every scenario again.
Remaining_All(m) == args.scenarios
Remaining(m) == args.scenarios \ Lines(already_done(m))

\* Mutant: files are always opened for writing.
Appends_Never(m) == FALSE
Appends(m) == args.resume /\ Lines(already_done(m)) # {}

begin_mode ==
  /\ at = "mode"
  /\ \E m \in left :
       /\ mode' = m /\ left' = left \ {m}
       /\ records' = [records EXCEPT ![m] = already_done(m)]
       /\ todo' = Remaining(m)
       /\ append' = Appends(m)
       /\ pending' = _mode_output_paths(m)
  /\ at' = "open"
  /\ UNCHANGED <<disk, args, current, summary, flushed, torn>>

open ==
  /\ at = "open" /\ pending # <<>>
  /\ disk' = IF append THEN disk ELSE [disk EXCEPT ![Head(pending)] = Empty]
  /\ pending' = Tail(pending)
  /\ UNCHANGED <<at, args, left, mode, todo, current, append, records, summary, flushed, torn>>

run_scenario ==
  /\ at = "open" /\ pending = <<>>
  /\ \E s \in todo :
       /\ current' = s /\ todo' = todo \ {s}
       /\ records' = [records EXCEPT ![mode] = WithLine(@, s)]
  /\ pending' = _mode_output_paths(mode)
  /\ at' = "write"
  /\ UNCHANGED <<disk, args, left, mode, append, summary, flushed, torn>>

\* f.write and f.flush, file by file.
write ==
  /\ at = "write"
  /\ disk' = [disk EXCEPT ![Head(pending)] = WithLine(@, current)]
  /\ pending' = Tail(pending)
  /\ at' = IF pending' = <<>> THEN "open" ELSE "write"
  /\ flushed' = TRUE
  /\ UNCHANGED <<args, left, mode, todo, current, append, records, summary, torn>>

end_mode ==
  /\ at = "open" /\ pending = <<>> /\ todo = {}
  /\ at' = "mode" /\ mode' = NoVal
  /\ UNCHANGED <<disk, args, left, todo, current, pending, append, records, summary, flushed, torn>>

-----------------------------------------------------------------------------
(* run_suite.                                                              *)

launch ==
  /\ at = "off" /\ at' = "mode"
  /\ args' \in Launches
  /\ left' = args'.modes
  /\ mode' = NoVal /\ todo' = {} /\ current' = NoVal /\ pending' = <<>>
  /\ append' = FALSE /\ records' = [m \in Modes |-> Empty]
  /\ flushed' = FALSE
  /\ UNCHANGED <<disk, summary, torn>>

\* The record of a scenario says drift was detected: of a staleness scenario
\* whose revalidation is on and whose run was suspended (ScenarioRun).
drift_detected(m, s) == <<m, s>> \in Drifted

\* staleness_detection_rate's false positives.  A record whose scenario is not
\* among those of this launch has no category.
false_positives(m) ==
  {s \in Lines(records[m]) : s \notin Stale \cap args.scenarios /\ drift_detected(m, s)}

\* Mutant: the metrics are computed of what was run now.
Counted_ThisLaunch(m) == [s \in Scenarios |-> records[m][s] - already_done(m)[s]]
Counted(m) == records[m]

compute_all_metrics(m) == [runs |-> Counted(m), false_drift |-> false_positives(m)]

write_summary ==
  /\ at = "mode" /\ left = {}
  /\ summary' = [m \in args.modes |-> compute_all_metrics(m)]
  /\ at' = "off"
  /\ UNCHANGED <<disk, args, left, mode, todo, current, pending, append, records, flushed, torn>>

\* run_scenario raised, or the process was killed.
stop ==
  /\ at # "off" /\ at' = "off"
  /\ torn' = IF at = "write" /\ pending # _mode_output_paths(mode) THEN torn + 1 ELSE torn
  /\ torn' <= MaxTorn
  /\ UNCHANGED <<disk, args, left, mode, todo, current, pending, append, records, summary, flushed>>

work == begin_mode \/ open \/ run_scenario \/ write \/ end_mode \/ write_summary

Next == launch \/ work \/ stop

Spec == Init /\ [][Next]_vars

\* The process runs while it is there, and a suite without a summary is launched
\* again whenever it has stopped.
FairSpec == Spec /\ WF_vars(work) /\ WF_vars(launch /\ summary = NoVal)

-----------------------------------------------------------------------------
(* What the suite promises.                                                *)

Once(f) == \A s \in Scenarios : f[s] <= 1

\* However often the suite was killed and resumed, no file has two lines of one
\* scenario, which would count twice in every metric (_run_mode, done_ids).
NoScenarioTwice == \A p \in Paths : Once(disk[p])

\* A launch with --resume loses no line of the file it resumes from, whatever
\* else it was asked to run (write_mode).
ResumeLosesNothing ==
  [][at # "off" /\ args.resume =>
       \A m \in Modes, s \in Scenarios : disk'[m][s] >= disk[m][s]]_vars

\* The summary is computed from what the files of its modes say, which has
\* every scenario it was asked for, whatever number of launches ran them
\* (records, metrics_summary.json).
SummaryIsOfTheFiles ==
  [][write_summary =>
       \A m \in args.modes : /\ summary'[m].runs = disk[m]
                             /\ args.scenarios \subseteq Lines(disk[m])]_vars

\* Where a suite was written, runs.jsonl lacks a line of runs_full.jsonl only if
\* a kill fell between the two writes of a line, and has none besides
\* (_mode_output_paths).
MirrorLacksOnlyTorn ==
  at = "off" /\ Lines(disk["full"]) # {} =>
    /\ Lines(disk["runs"]) \subseteq Lines(disk["full"])
    /\ torn = 0 => disk["runs"] = disk["full"]

\* From some launch on the suite is resumed with one command line, and stops only
\* when it has completed a line since it was launched.
Patient(a) ==
  a.resume /\ <>[](args = a) /\ <>[](at = "off" /\ summary = NoVal => flushed)

\* Whatever was launched, killed and lost before, every launch that completes a
\* line brings a suite that is patiently resumed nearer to its end: it ends,
\* however often it is stopped after that (--resume).
PatientSuiteEnds == \A a \in Launches : Patient(a) => <>(summary # NoVal)

-----------------------------------------------------------------------------
\* metrics.py:222: what is counted as false drift was flagged on a scenario
\* where nothing material changed.
FalseDriftIsFalse ==
  [][write_summary =>
       \A m \in args.modes : summary'[m].false_drift \cap Stale = {}]_vars
=============================================================================
