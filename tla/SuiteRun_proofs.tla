-------------------------- MODULE SuiteRun_proofs --------------------------
(***************************************************************************)
(* What the suite's files say after any number of launches, kills and      *)
(* resumes, for every set of scenarios and modes.                          *)
(*                                                                         *)
(* The invariant: what a mode has in memory is what its file says, but for *)
(* the line being written; the scenarios still to be run have no line; and *)
(* runs.jsonl is runs_full.jsonl less the lines that were torn, unless     *)
(* runs_full.jsonl was just emptied.                                       *)
(***************************************************************************)
EXTENDS SuiteRun, TLAPS

\* What is left of the files of a mode, as they are opened or written to.
Rests(m) == IF m = "full" THEN {<<"full", "runs">>, <<"runs">>, <<>>} ELSE {<<m>>, <<>>}

InMode == at \in {"open", "write"}

TypeInv ==
  /\ disk \in [Paths -> Files]
  /\ at \in {"off", "mode", "open", "write"}
  /\ args \in Launches
  /\ left \subseteq Modes
  /\ todo \subseteq Scenarios
  /\ records \in [Modes -> Files]
  /\ append \in BOOLEAN
  /\ torn \in Nat
  /\ InMode => mode \in Modes /\ pending \in Rests(mode)
  /\ at = "write" => pending # <<>> /\ current \in Scenarios

\* Nothing of the files of the mode was opened, or written to, yet.
Untouched == pending = _mode_output_paths(mode)

\* What the file of a mode says, once what is under way is done.
Settled ==
  CASE at = "open" /\ Untouched /\ ~append -> Empty
    [] at = "write" /\ Untouched           -> WithLine(disk[mode], current)
    [] OTHER                               -> disk[mode]

RecordsInv ==
  /\ at # "off" => left \subseteq args.modes /\ todo \subseteq args.scenarios
  /\ InMode =>
       /\ mode \in args.modes \ left
       /\ records[mode] = Settled
       /\ todo \cap Lines(records[mode]) = {}
       /\ args.scenarios \subseteq todo \cup Lines(records[mode])
       /\ append => args.resume
       /\ at = "open" /\ Untouched /\ ~append /\ args.resume => Lines(disk[mode]) = {}
  /\ at # "off" =>
       \A m \in args.modes \ left :
         \/ InMode /\ m = mode
         \/ records[m] = disk[m] /\ args.scenarios \subseteq Lines(disk[m])

OnceInv ==
  /\ \A p \in Paths : Once(disk[p])
  /\ InMode => Once(records[mode])

\* f has no line that g lacks, and the same lines if no line was torn.
Copies(f, g) == /\ \A s \in Scenarios : f[s] <= g[s]
                /\ torn = 0 => f = g

MirrorInv ==
  /\ ~(at = "write" /\ mode = "full" /\ pending = <<"runs">>) /\ Lines(disk["full"]) # {} =>
       Copies(disk["runs"], disk["full"])
  /\ at = "open" /\ mode = "full" =>
       /\ pending = <<>> => Copies(disk["runs"], disk["full"])
       /\ pending = <<"runs">> /\ ~append => disk["full"] = Empty
       /\ pending # <<>> /\ append => Lines(disk["full"]) # {}
  /\ at = "write" /\ mode = "full" =>
       IF pending = <<"runs">>
       THEN Copies(WithLine(disk["runs"], current), disk["full"])
       ELSE Copies(disk["runs"], disk["full"])

Inv == TypeInv /\ RecordsInv /\ OnceInv /\ MirrorInv

-----------------------------------------------------------------------------
(* The files of a mode, and lines.                                         *)

\* The file of the mode comes first, and runs.jsonl after it if the mode is
\* "full" (_mode_output_paths).
LEMMA RestFacts ==
  ASSUME NEW m \in Modes, NEW r \in Rests(m)
  PROVE  \/ r = <<>> /\ r # _mode_output_paths(m)
         \/ /\ r = _mode_output_paths(m) /\ r # <<>> /\ r # <<"runs">>
            /\ Head(r) = m
            /\ Tail(r) = IF m = "full" THEN <<"runs">> ELSE <<>>
         \/ /\ m = "full" /\ r = <<"runs">>
            /\ r # _mode_output_paths(m) /\ r # <<>>
            /\ Head(r) = "runs" /\ Tail(r) = <<>>
<1>1. m # "runs"
  BY SuiteAssumption
<1>2. /\ <<"full", "runs">> # <<"runs">> /\ <<"full", "runs">> # <<>>
      /\ <<"runs">> # <<>>
      /\ Head(<<"full", "runs">>) = "full" /\ Tail(<<"full", "runs">>) = <<"runs">>
      /\ Head(<<"runs">>) = "runs" /\ Tail(<<"runs">>) = <<>>
  OBVIOUS
<1>3. <<m>> # <<"runs">> /\ <<m>> # <<>> /\ Head(<<m>>) = m /\ Tail(<<m>>) = <<>>
  BY <1>1
<1>4. CASE m = "full"
  <2>1. r = <<"full", "runs">> \/ r = <<"runs">> \/ r = <<>>
    BY <1>4 DEF Rests
  <2>2. _mode_output_paths(m) = <<"full", "runs">>
    BY <1>4 DEF _mode_output_paths
  <2> QED
    BY <1>2, <1>4, <2>1, <2>2
<1>5. CASE m # "full"
  <2>1. r = <<m>> \/ r = <<>>
    BY <1>5 DEF Rests
  <2>2. _mode_output_paths(m) = <<m>>
    BY <1>5 DEF _mode_output_paths
  <2> QED
    BY <1>3, <1>5, <2>1, <2>2
<1> QED
  BY <1>4, <1>5

\* What is left of them is among what may be left.
LEMMA RestStays ==
  ASSUME NEW m \in Modes
  PROVE  /\ _mode_output_paths(m) \in Rests(m)
         /\ <<>> \in Rests(m)
         /\ \A r \in Rests(m) : r # <<>> => Tail(r) \in Rests(m) /\ Head(r) \in Paths
<1>1. _mode_output_paths(m) \in Rests(m) /\ <<>> \in Rests(m)
  BY DEF _mode_output_paths, Rests
<1>2. ASSUME NEW r \in Rests(m), r # <<>>
      PROVE  Tail(r) \in Rests(m) /\ Head(r) \in Paths
  BY <1>2, RestFacts DEF Rests, Paths
<1> QED
  BY <1>1, <1>2

\* A line adds one to its scenario and nothing to the others.
LEMMA LineFacts ==
  ASSUME NEW f \in Files, NEW c \in Scenarios
  PROVE  /\ WithLine(f, c) \in Files
         /\ Lines(WithLine(f, c)) = Lines(f) \cup {c}
         /\ WithLine(f, c)[c] = f[c] + 1
         /\ \A s \in Scenarios : s # c => WithLine(f, c)[s] = f[s]
BY DEF Files, WithLine, Lines

LEMMA EmptyFacts == Empty \in Files /\ Lines(Empty) = {} /\ Once(Empty)
BY DEF Empty, Files, Lines, Once

\* A file without lines is empty.
LEMMA NoLines ==
  ASSUME NEW f \in Files, Lines(f) = {}
  PROVE  f = Empty
BY DEF Files, Lines, Empty

-----------------------------------------------------------------------------
(* Types.                                                                  *)

LEMMA InitType == Init => TypeInv
<1> SUFFICES ASSUME Init PROVE TypeInv
  OBVIOUS
<1>1. disk \in [Paths -> Files] /\ records \in [Modes -> Files]
  BY EmptyFacts DEF Init
<1>2. at = "off" /\ ~InMode
  BY DEF Init, InMode
<1> QED
  BY <1>1, <1>2 DEF Init, TypeInv

LEMMA NextType == TypeInv /\ [Next]_vars => TypeInv'
<1> SUFFICES ASSUME TypeInv, [Next]_vars PROVE TypeInv'
  OBVIOUS
<1>1. CASE launch
  BY <1>1, SuiteAssumption, EmptyFacts DEF launch, TypeInv, InMode
<1>2. CASE begin_mode
  <2>1. PICK m \in left :
          /\ mode' = m /\ left' = left \ {m}
          /\ records' = [records EXCEPT ![m] = already_done(m)]
          /\ todo' = Remaining(m)
          /\ append' = Appends(m)
          /\ pending' = _mode_output_paths(m)
    BY <1>2 DEF begin_mode
  <2>2. m \in Modes /\ already_done(m) \in Files
    BY EmptyFacts DEF TypeInv, already_done, Paths
  <2>3. todo' \subseteq Scenarios /\ append' \in BOOLEAN
    BY <2>1, SuiteAssumption DEF TypeInv, Remaining, Appends, Lines
  <2> QED
    BY <1>2, <2>1, <2>2, <2>3, RestStays DEF begin_mode, TypeInv, InMode
<1>3. CASE open
  <2>1. mode \in Modes /\ pending \in Rests(mode) /\ pending # <<>>
    BY <1>3 DEF open, TypeInv, InMode
  <2>2. Head(pending) \in Paths /\ Tail(pending) \in Rests(mode)
    BY <2>1, RestStays
  <2>3. disk' \in [Paths -> Files]
    BY <1>3, <2>2, EmptyFacts DEF open, TypeInv
  <2> QED
    BY <1>3, <2>1, <2>2, <2>3 DEF open, TypeInv, InMode
<1>4. CASE run_scenario
  <2>1. PICK s \in todo :
          /\ current' = s /\ todo' = todo \ {s}
          /\ records' = [records EXCEPT ![mode] = WithLine(@, s)]
    BY <1>4 DEF run_scenario
  <2>2. mode \in Modes /\ s \in Scenarios
    BY <1>4 DEF run_scenario, TypeInv, InMode
  <2>3. WithLine(records[mode], s) \in Files
    BY <2>2, LineFacts DEF TypeInv
  <2>4. _mode_output_paths(mode) # <<>>
    BY DEF _mode_output_paths
  <2> QED
    BY <1>4, <2>1, <2>2, <2>3, <2>4, RestStays DEF run_scenario, TypeInv, InMode
<1>5. CASE write
  <2>1. mode \in Modes /\ pending \in Rests(mode) /\ pending # <<>> /\ current \in Scenarios
    BY <1>5 DEF write, TypeInv, InMode
  <2>2. Head(pending) \in Paths /\ Tail(pending) \in Rests(mode)
    BY <2>1, RestStays
  <2>3. disk' \in [Paths -> Files]
    BY <1>5, <2>1, <2>2, LineFacts DEF write, TypeInv
  <2> QED
    BY <1>5, <2>1, <2>2, <2>3 DEF write, TypeInv, InMode
<1>6. CASE end_mode
  BY <1>6 DEF end_mode, TypeInv, InMode
<1>7. CASE write_summary
  BY <1>7 DEF write_summary, TypeInv, InMode
<1>8. CASE stop
  BY <1>8 DEF stop, TypeInv, InMode
<1>9. CASE UNCHANGED vars
  BY <1>9 DEF vars, process, TypeInv, InMode
<1> QED
  BY <1>1, <1>2, <1>3, <1>4, <1>5, <1>6, <1>7, <1>8, <1>9 DEF Next, work

-----------------------------------------------------------------------------
(* What is in memory is what the files say.                                *)

\* What a launch takes over, what it still has to run, and how it opens the
\* files (_run_mode).
LEMMA Takeover ==
  ASSUME TypeInv, NEW m \in Modes
  PROVE  /\ already_done(m) \in Files
         /\ Remaining(m) \cap Lines(already_done(m)) = {}
         /\ args.scenarios \subseteq Remaining(m) \cup Lines(already_done(m))
         /\ Remaining(m) \subseteq args.scenarios
         /\ Appends(m) => /\ args.resume
                          /\ already_done(m) = disk[m]
                          /\ Lines(disk[m]) # {}
         /\ ~Appends(m) => /\ already_done(m) = Empty
                           /\ args.resume => Lines(disk[m]) = {}
<1>1. disk[m] \in Files
  BY DEF TypeInv, Paths
<1>2. args.resume => already_done(m) = disk[m]
  BY DEF already_done
<1>3. ~args.resume => already_done(m) = Empty
  BY DEF already_done
<1>4. already_done(m) \in Files
  BY <1>1, <1>2, <1>3, EmptyFacts
<1>5. ~Appends(m) /\ args.resume => Lines(disk[m]) = {} /\ disk[m] = Empty
  BY <1>1, <1>2, NoLines DEF Appends
<1> QED
  BY <1>2, <1>3, <1>4, <1>5 DEF Remaining, Appends

LEMMA InitRecords == Init => RecordsInv
BY DEF Init, RecordsInv, InMode

LEMMA NextRecords == TypeInv /\ RecordsInv /\ [Next]_vars => RecordsInv'
<1> SUFFICES ASSUME TypeInv, RecordsInv, [Next]_vars PROVE RecordsInv'
  OBVIOUS
<1>1. CASE launch
  <2>1. /\ at' = "mode" /\ ~InMode' /\ left' = args'.modes /\ todo' = {}
        /\ args'.modes \ left' = {}
    BY <1>1 DEF launch, InMode
  <2> QED
    BY <2>1 DEF RecordsInv
<1>2. CASE begin_mode
  <2>1. PICK m \in left :
          /\ mode' = m /\ left' = left \ {m}
          /\ records' = [records EXCEPT ![m] = already_done(m)]
          /\ todo' = Remaining(m)
          /\ append' = Appends(m)
          /\ pending' = _mode_output_paths(m)
    BY <1>2 DEF begin_mode
  <2>2. /\ at = "mode" /\ at' = "open" /\ disk' = disk /\ args' = args
        /\ m \in Modes /\ m \in args.modes /\ InMode' /\ ~InMode
    BY <1>2 DEF begin_mode, TypeInv, RecordsInv, InMode
  <2>3. records'[m] = already_done(m) /\ \A n \in Modes \ {m} : records'[n] = records[n]
    BY <2>1, <2>2 DEF TypeInv
  <2>4. Settled' = already_done(m)
    BY <2>1, <2>2, Takeover DEF Settled, Untouched
  <2>5. args.modes \subseteq Modes
    BY SuiteAssumption DEF TypeInv
  <2>6. ASSUME NEW n \in args'.modes \ left', n # mode'
        PROVE  records'[n] = disk'[n] /\ args'.scenarios \subseteq Lines(disk'[n])
    BY <2>1, <2>2, <2>3, <2>5, <2>6 DEF RecordsInv
  <2>7. /\ left' \subseteq args'.modes /\ todo' \subseteq args'.scenarios
        /\ mode' \in args'.modes \ left'
        /\ append' => args'.resume
        /\ ~append' /\ args'.resume => Lines(disk'[mode']) = {}
    BY <2>1, <2>2, Takeover DEF RecordsInv
  <2>8. /\ todo' \cap Lines(records'[mode']) = {}
        /\ args'.scenarios \subseteq todo' \cup Lines(records'[mode'])
    BY <2>1, <2>2, <2>3, Takeover
  <2> QED
    BY <2>1, <2>2, <2>3, <2>4, <2>6, <2>7, <2>8 DEF RecordsInv
<1>3. CASE open
  <2>1. /\ mode \in Modes /\ pending \in Rests(mode) /\ pending # <<>>
        /\ at = "open" /\ at' = "open" /\ InMode /\ InMode'
        /\ UNCHANGED <<args, left, mode, todo, append, records>>
        /\ disk' = IF append THEN disk ELSE [disk EXCEPT ![Head(pending)] = Empty]
        /\ pending' = Tail(pending)
    BY <1>3 DEF open, TypeInv, InMode
  <2>2. ~Untouched'
    BY <2>1, RestFacts, SuiteAssumption DEF Untouched, _mode_output_paths
  <2>3. /\ disk'[mode] = records[mode]
        /\ \A n \in Modes \ {mode} : disk'[n] = disk[n]
    <3>1. records[mode] = Settled
      BY <2>1 DEF RecordsInv
    <3>2. CASE append
      BY <2>1, <3>1, <3>2 DEF Settled
    <3>3. CASE ~append /\ Untouched
      BY <2>1, <3>1, <3>3, RestFacts, SuiteAssumption DEF Settled, Untouched, TypeInv, Paths
    <3>4. CASE ~append /\ ~Untouched
      <4>1. Head(pending) = "runs" /\ mode # "runs"
        BY <2>1, <3>4, RestFacts, SuiteAssumption DEF Untouched
      <4> QED
        BY <2>1, <3>1, <3>4, <4>1, SuiteAssumption DEF Settled, TypeInv
    <3> QED
      BY <3>2, <3>3, <3>4
  <2>4. Settled' = records'[mode']
    BY <2>1, <2>2, <2>3 DEF Settled
  <2>5. args.modes \subseteq Modes
    BY SuiteAssumption DEF TypeInv
  <2>6. ASSUME NEW n \in args'.modes \ left', n # mode'
        PROVE  records'[n] = disk'[n] /\ args'.scenarios \subseteq Lines(disk'[n])
    BY <2>1, <2>3, <2>5, <2>6 DEF RecordsInv
  <2> QED
    BY <2>1, <2>2, <2>4, <2>6 DEF RecordsInv
<1>4. CASE run_scenario
  <2>1. PICK s \in todo :
          /\ current' = s /\ todo' = todo \ {s}
          /\ records' = [records EXCEPT ![mode] = WithLine(@, s)]
    BY <1>4 DEF run_scenario
  <2>2. /\ mode \in Modes /\ s \in Scenarios /\ pending = <<>>
        /\ at = "open" /\ at' = "write" /\ InMode /\ InMode'
        /\ UNCHANGED <<disk, args, left, mode, append>>
        /\ pending' = _mode_output_paths(mode)
    BY <1>4 DEF run_scenario, TypeInv, InMode
  <2>3. /\ records'[mode] = WithLine(records[mode], s)
        /\ \A n \in Modes \ {mode} : records'[n] = records[n]
        /\ Lines(records'[mode]) = Lines(records[mode]) \cup {s}
    BY <2>1, <2>2, LineFacts DEF TypeInv
  <2>4. records[mode] = disk[mode]
    BY <2>2, RestFacts DEF RecordsInv, Settled, Untouched, TypeInv
  <2>5. Settled' = records'[mode']
    BY <2>1, <2>2, <2>3, <2>4 DEF Settled, Untouched
  <2>6. args.modes \subseteq Modes
    BY SuiteAssumption DEF TypeInv
  <2>7. ASSUME NEW n \in args'.modes \ left', n # mode'
        PROVE  records'[n] = disk'[n] /\ args'.scenarios \subseteq Lines(disk'[n])
    BY <2>2, <2>3, <2>6, <2>7 DEF RecordsInv
  <2>8. /\ todo' \cap Lines(records'[mode']) = {}
        /\ args'.scenarios \subseteq todo' \cup Lines(records'[mode'])
    BY <2>1, <2>2, <2>3 DEF RecordsInv
  <2> QED
    BY <2>1, <2>2, <2>5, <2>7, <2>8 DEF RecordsInv
<1>5. CASE write
  <2>1. /\ mode \in Modes /\ pending \in Rests(mode) /\ pending # <<>>
        /\ current \in Scenarios /\ at = "write" /\ at' \in {"open", "write"}
        /\ InMode /\ InMode'
        /\ UNCHANGED <<args, left, mode, todo, append, records, current>>
        /\ disk' = [disk EXCEPT ![Head(pending)] = WithLine(@, current)]
        /\ pending' = Tail(pending)
    BY <1>5 DEF write, TypeInv, InMode
  <2>2. ~Untouched'
    BY <2>1, RestFacts, SuiteAssumption DEF Untouched, _mode_output_paths
  <2>3. /\ disk'[mode] = records[mode]
        /\ \A n \in Modes \ {mode} : disk'[n] = disk[n]
    <3>1. records[mode] = Settled
      BY <2>1 DEF RecordsInv
    <3>2. CASE Untouched
      BY <2>1, <3>1, <3>2, RestFacts, SuiteAssumption DEF Settled, Untouched, TypeInv, Paths
    <3>3. CASE ~Untouched
      <4>1. Head(pending) = "runs" /\ mode # "runs"
        BY <2>1, <3>3, RestFacts, SuiteAssumption DEF Untouched
      <4> QED
        BY <2>1, <3>1, <3>3, <4>1, SuiteAssumption DEF Settled, TypeInv
    <3> QED
      BY <3>2, <3>3
  <2>4. Settled' = records'[mode']
    BY <2>1, <2>2, <2>3 DEF Settled
  <2>5. args.modes \subseteq Modes
    BY SuiteAssumption DEF TypeInv
  <2>6. ASSUME NEW n \in args'.modes \ left', n # mode'
        PROVE  records'[n] = disk'[n] /\ args'.scenarios \subseteq Lines(disk'[n])
    BY <2>1, <2>3, <2>5, <2>6 DEF RecordsInv
  <2> QED
    BY <2>1, <2>2, <2>4, <2>6 DEF RecordsInv
<1>6. CASE end_mode
  <2>1. /\ InMode /\ ~InMode' /\ at' = "mode" /\ todo = {} /\ pending = <<>> /\ at = "open"
        /\ mode \in Modes
        /\ UNCHANGED <<disk, args, left, todo, records>>
    BY <1>6 DEF end_mode, TypeInv, InMode
  <2>2. records[mode] = disk[mode] /\ args.scenarios \subseteq Lines(disk[mode])
    BY <2>1, RestFacts DEF RecordsInv, Settled, Untouched, TypeInv
  <2> QED
    BY <2>1, <2>2 DEF RecordsInv
<1>7. CASE write_summary
  BY <1>7 DEF write_summary, RecordsInv, InMode
<1>8. CASE stop
  BY <1>8 DEF stop, RecordsInv, InMode
<1>9. CASE UNCHANGED vars
  BY <1>9 DEF vars, process, RecordsInv, InMode, Settled, Untouched
<1> QED
  BY <1>1, <1>2, <1>3, <1>4, <1>5, <1>6, <1>7, <1>8, <1>9 DEF Next, work

-----------------------------------------------------------------------------
(* runs.jsonl follows runs_full.jsonl.                                     *)

\* A line more in both keeps a copy a copy.
LEMMA CopyLine ==
  ASSUME NEW f \in Files, NEW g \in Files, NEW c \in Scenarios, Copies(f, g)
  PROVE  Copies(WithLine(f, c), WithLine(g, c))
<1>1. ASSUME NEW s \in Scenarios
      PROVE  WithLine(f, c)[s] <= WithLine(g, c)[s]
  <2>1. f[s] \in Nat /\ g[s] \in Nat /\ f[s] <= g[s]
    BY DEF Copies, Files
  <2>2. CASE s = c
    BY <2>1, <2>2, LineFacts
  <2>3. CASE s # c
    BY <2>1, <2>3, LineFacts
  <2> QED
    BY <2>2, <2>3
<1>2. torn = 0 => WithLine(f, c) = WithLine(g, c)
  BY DEF Copies
<1> QED
  BY <1>1, <1>2 DEF Copies

LEMMA InitMirror == Init => MirrorInv
<1> SUFFICES ASSUME Init PROVE MirrorInv
  OBVIOUS
<1>1. disk["full"] = Empty /\ at = "off"
  BY SuiteAssumption DEF Init, Paths
<1> QED
  BY <1>1, EmptyFacts DEF MirrorInv

LEMMA NextMirror == TypeInv /\ MirrorInv /\ [Next]_vars => MirrorInv'
<1> SUFFICES ASSUME TypeInv, MirrorInv, [Next]_vars PROVE MirrorInv'
  OBVIOUS
<1> USE DEF MirrorInv
<1>a. /\ disk["full"] \in Files /\ disk["runs"] \in Files
      /\ "full" \in Modes /\ "full" \in Paths /\ "runs" \in Paths
  BY SuiteAssumption DEF TypeInv, Paths
<1>1. CASE launch
  BY <1>1 DEF launch, Copies
<1>2. CASE begin_mode
  <2>1. PICK m \in left :
          /\ mode' = m /\ append' = Appends(m) /\ pending' = _mode_output_paths(m)
    BY <1>2 DEF begin_mode
  <2>2. /\ at = "mode" /\ at' = "open" /\ m \in Modes
        /\ UNCHANGED <<disk, torn>>
    BY <1>2 DEF begin_mode, TypeInv
  <2>3. pending' # <<>> /\ pending' # <<"runs">>
    BY <2>1, <2>2, RestFacts, RestStays
  <2>4. append' => Lines(disk[m]) # {}
    BY <2>1, <2>2, Takeover
  <2> QED
    BY <2>1, <2>2, <2>3, <2>4 DEF Copies
<1>3. CASE open
  <2>1. /\ mode \in Modes /\ pending \in Rests(mode) /\ pending # <<>>
        /\ at = "open" /\ at' = "open"
        /\ UNCHANGED <<mode, append, torn>>
        /\ disk' = IF append THEN disk ELSE [disk EXCEPT ![Head(pending)] = Empty]
        /\ pending' = Tail(pending)
    BY <1>3 DEF open, TypeInv, InMode
  <2>2. CASE mode # "full"
    <3>1. Head(pending) = mode /\ mode # "runs"
      BY <2>1, <2>2, RestFacts, SuiteAssumption
    <3>2. disk'["full"] = disk["full"] /\ disk'["runs"] = disk["runs"]
      BY <1>a, <2>1, <2>2, <3>1 DEF TypeInv
    <3> QED
      BY <2>1, <2>2, <3>2 DEF Copies
  <2>3. CASE mode = "full" /\ append
    BY <2>1, <2>3 DEF Copies
  <2>4. CASE mode = "full" /\ ~append /\ Head(pending) = "full"
    <3>1. disk'["full"] = Empty
      BY <1>a, <2>1, <2>4 DEF TypeInv
    <3>2. pending' = <<"runs">> /\ pending' # <<>>
      BY <2>1, <2>4, RestFacts
    <3> QED
      BY <2>1, <2>4, <3>1, <3>2, EmptyFacts DEF Copies
  <2>5. CASE mode = "full" /\ ~append /\ Head(pending) = "runs"
    <3>1. pending = <<"runs">> /\ pending' = <<>> /\ pending' # <<"runs">>
      BY <2>1, <2>5, RestFacts
    <3>2. disk'["full"] = Empty /\ disk'["runs"] = Empty
      BY <1>a, <2>1, <2>5, <3>1 DEF TypeInv
    <3> QED
      BY <2>1, <2>5, <3>1, <3>2, EmptyFacts DEF Copies, Files
  <2> QED
    BY <2>1, <2>2, <2>3, <2>4, <2>5, RestFacts
<1>4. CASE run_scenario
  <2>1. /\ mode \in Modes /\ pending = <<>> /\ at = "open" /\ at' = "write"
        /\ UNCHANGED <<disk, mode, torn>>
        /\ pending' = _mode_output_paths(mode)
    BY <1>4 DEF run_scenario, TypeInv, InMode
  <2>2. pending' # <<"runs">>
    BY <2>1, RestFacts, RestStays
  <2> QED
    BY <2>1, <2>2 DEF Copies
<1>5. CASE write
  <2>1. /\ mode \in Modes /\ pending \in Rests(mode) /\ pending # <<>>
        /\ current \in Scenarios /\ at = "write"
        /\ UNCHANGED <<mode, current, torn>>
        /\ disk' = [disk EXCEPT ![Head(pending)] = WithLine(@, current)]
        /\ pending' = Tail(pending)
        /\ at' = IF pending' = <<>> THEN "open" ELSE "write"
    BY <1>5 DEF write, TypeInv, InMode
  <2>2. CASE mode # "full"
    <3>1. Head(pending) = mode /\ mode # "runs"
      BY <2>1, <2>2, RestFacts, SuiteAssumption
    <3>2. disk'["full"] = disk["full"] /\ disk'["runs"] = disk["runs"]
      BY <1>a, <2>1, <2>2, <3>1 DEF TypeInv
    <3> QED
      BY <2>1, <2>2, <3>2 DEF Copies
  <2>3. CASE mode = "full" /\ Head(pending) = "full"
    <3>1. /\ pending # <<"runs">> /\ pending' = <<"runs">> /\ at' = "write"
      BY <2>1, <2>3, RestFacts
    <3>2. /\ disk'["full"] = WithLine(disk["full"], current)
          /\ disk'["runs"] = disk["runs"]
      BY <1>a, <2>1, <2>3 DEF TypeInv
    <3>3. Copies(disk["runs"], disk["full"])
      BY <2>1, <2>3, <3>1
    <3> QED
      BY <1>a, <2>1, <2>3, <3>1, <3>2, <3>3, CopyLine DEF Copies
  <2>4. CASE mode = "full" /\ Head(pending) = "runs"
    <3>1. /\ pending = <<"runs">> /\ pending' = <<>> /\ at' = "open"
      BY <2>1, <2>4, RestFacts
    <3>2. /\ disk'["runs"] = WithLine(disk["runs"], current)
          /\ disk'["full"] = disk["full"]
      BY <1>a, <2>1, <2>4 DEF TypeInv
    <3>3. Copies(WithLine(disk["runs"], current), disk["full"])
      BY <2>1, <2>4, <3>1
    <3>4. Copies(disk'["runs"], disk'["full"]) /\ pending' # <<"runs">>
      BY <2>1, <3>1, <3>2, <3>3
    <3> QED
      BY <2>1, <2>4, <3>1, <3>2, <3>3, <3>4 DEF Copies
  <2> QED
    BY <2>1, <2>2, <2>3, <2>4, RestFacts
<1>6. CASE end_mode
  BY <1>6 DEF end_mode, Copies
<1>7. CASE write_summary
  BY <1>7 DEF write_summary, Copies
<1>8. CASE stop
  <2>1. /\ at' = "off" /\ UNCHANGED <<disk, mode, pending, current>>
        /\ torn' = IF at = "write" /\ pending # _mode_output_paths(mode)
                   THEN torn + 1 ELSE torn
    BY <1>8 DEF stop
  <2>2. CASE at = "write" /\ mode = "full" /\ pending = <<"runs">>
    <3>1. pending # _mode_output_paths(mode)
      BY <1>a, <2>2, RestFacts, RestStays
    <3>2. torn' = torn + 1 /\ torn' # 0
      BY <2>1, <2>2, <3>1 DEF TypeInv
    <3>3. current \in Scenarios
      BY <2>2 DEF TypeInv
    <3>4. ASSUME NEW s \in Scenarios
          PROVE  disk["runs"][s] <= disk["full"][s]
      <4>1. /\ disk["runs"][s] \in Nat /\ disk["full"][s] \in Nat
            /\ WithLine(disk["runs"], current)[s] <= disk["full"][s]
        BY <1>a, <2>2 DEF Copies, Files
      <4>2. WithLine(disk["runs"], current)[s] \in {disk["runs"][s], disk["runs"][s] + 1}
        BY <1>a, <3>3, LineFacts
      <4> QED
        BY <4>1, <4>2
    <3> QED
      BY <2>1, <3>2, <3>4 DEF Copies
  <2>3. CASE ~(at = "write" /\ mode = "full" /\ pending = <<"runs">>)
    <3>1. torn' = torn
      <4>1. CASE at = "write"
        BY <2>1, <2>3, <4>1, RestFacts DEF TypeInv, InMode
      <4> QED
        BY <2>1, <4>1
    <3> QED
      BY <2>1, <2>3, <3>1 DEF Copies
  <2> QED
    BY <2>2, <2>3
<1>9. CASE UNCHANGED vars
  BY <1>9 DEF vars, process, Copies
<1> QED
  BY <1>1, <1>2, <1>3, <1>4, <1>5, <1>6, <1>7, <1>8, <1>9 DEF Next, work

-----------------------------------------------------------------------------
(* No scenario twice.                                                      *)

LEMMA InitOnce == Init => OnceInv
<1> SUFFICES ASSUME Init PROVE OnceInv
  OBVIOUS
<1>1. \A p \in Paths : disk[p] = Empty
  BY DEF Init
<1>2. ~InMode
  BY DEF Init, InMode
<1> QED
  BY <1>1, <1>2, EmptyFacts DEF OnceInv

LEMMA NextOnce ==
  TypeInv /\ RecordsInv /\ MirrorInv /\ OnceInv /\ [Next]_vars => OnceInv'
<1> SUFFICES ASSUME TypeInv, RecordsInv, MirrorInv, OnceInv, [Next]_vars PROVE OnceInv'
  OBVIOUS
<1> USE DEF OnceInv
<1>1. CASE launch
  BY <1>1 DEF launch, InMode
<1>2. CASE begin_mode
  <2>1. PICK m \in left :
          /\ mode' = m /\ records' = [records EXCEPT ![m] = already_done(m)]
    BY <1>2 DEF begin_mode
  <2>2. m \in Modes /\ disk' = disk
    BY <1>2 DEF begin_mode, TypeInv
  <2>3. records'[m] = already_done(m)
    BY <2>1, <2>2 DEF TypeInv
  <2>4. Once(already_done(m))
    BY <2>2, EmptyFacts DEF already_done, Paths
  <2> QED
    BY <2>1, <2>2, <2>3, <2>4
<1>3. CASE open
  <2>1. \A p \in Paths : disk'[p] = disk[p] \/ disk'[p] = Empty
    BY <1>3 DEF open, TypeInv
  <2>2. InMode /\ UNCHANGED <<mode, records>>
    BY <1>3 DEF open, InMode
  <2> QED
    BY <2>1, <2>2, EmptyFacts
<1>4. CASE run_scenario
  <2>1. PICK s \in todo : records' = [records EXCEPT ![mode] = WithLine(@, s)]
    BY <1>4 DEF run_scenario
  <2>2. /\ InMode /\ mode \in Modes /\ s \in Scenarios
        /\ UNCHANGED <<disk, mode>> /\ records[mode] \in Files
    BY <1>4 DEF run_scenario, TypeInv, InMode
  <2>3. records'[mode'] = WithLine(records[mode], s)
    BY <2>1, <2>2 DEF TypeInv
  <2>4. records[mode][s] = 0
    BY <2>1, <2>2 DEF RecordsInv, Lines, Files
  <2>5. ASSUME NEW t \in Scenarios
        PROVE  WithLine(records[mode], s)[t] <= 1
    <3>1. records[mode][t] <= 1
      BY <2>2 DEF Once
    <3>2. CASE t = s
      BY <2>2, <2>4, <3>2, LineFacts
    <3>3. CASE t # s
      BY <2>2, <3>1, <3>3, LineFacts
    <3> QED
      BY <3>2, <3>3
  <2> QED
    BY <2>2, <2>3, <2>5 DEF Once
<1>5. CASE write
  <2>1. /\ mode \in Modes /\ pending \in Rests(mode) /\ pending # <<>>
        /\ at = "write" /\ InMode
        /\ UNCHANGED <<mode, records>>
        /\ disk' = [disk EXCEPT ![Head(pending)] = WithLine(@, current)]
    BY <1>5 DEF write, TypeInv, InMode
  <2>2. Head(pending) \in Paths
    BY <2>1, RestStays
  <2>3. /\ disk'[Head(pending)] = WithLine(disk[Head(pending)], current)
        /\ \A p \in Paths \ {Head(pending)} : disk'[p] = disk[p]
    BY <2>1, <2>2 DEF TypeInv
  <2>4. Once(WithLine(disk[Head(pending)], current))
    <3>1. CASE Untouched
      <4>1. Head(pending) = mode /\ records[mode] = WithLine(disk[mode], current)
        BY <2>1, <3>1, RestFacts DEF Untouched, RecordsInv, Settled
      <4> QED
        BY <2>1, <4>1
    <3>2. CASE ~Untouched
      <4>1. mode = "full" /\ pending = <<"runs">> /\ Head(pending) = "runs"
        BY <2>1, <3>2, RestFacts DEF Untouched
      <4>2. ASSUME NEW s \in Scenarios
            PROVE  WithLine(disk["runs"], current)[s] <= 1
        <5>1. WithLine(disk["runs"], current)[s] <= disk["full"][s]
          BY <2>1, <4>1 DEF MirrorInv, Copies
        <5>2. disk["full"][s] <= 1 /\ disk["full"][s] \in Nat
          BY SuiteAssumption DEF Once, TypeInv, Paths, Files
        <5>3. WithLine(disk["runs"], current)[s] \in Nat
          BY <2>1, LineFacts DEF TypeInv, Paths, Files
        <5> QED
          BY <5>1, <5>2, <5>3
      <4> QED
        BY <4>1, <4>2 DEF Once
    <3> QED
      BY <3>1, <3>2
  <2> QED
    BY <2>1, <2>3, <2>4
<1>6. CASE end_mode
  BY <1>6 DEF end_mode, InMode
<1>7. CASE write_summary
  BY <1>7 DEF write_summary, InMode
<1>8. CASE stop
  BY <1>8 DEF stop, InMode
<1>9. CASE UNCHANGED vars
  BY <1>9 DEF vars, process, InMode
<1> QED
  BY <1>1, <1>2, <1>3, <1>4, <1>5, <1>6, <1>7, <1>8, <1>9 DEF Next, work

-----------------------------------------------------------------------------
(* The theorems.                                                           *)

LEMMA InvHolds == Spec => []Inv
<1>1. Init => Inv
  BY InitType, InitRecords, InitMirror, InitOnce DEF Inv
<1>2. Inv /\ [Next]_vars => Inv'
  BY NextType, NextRecords, NextMirror, NextOnce DEF Inv
<1> QED
  BY <1>1, <1>2, PTL DEF Spec

\* No file ever has two lines of one scenario, for any scenarios, modes and
\* command lines, in whatever order the suite was killed and resumed.
THEOREM ScenariosOnce == Spec => []NoScenarioTwice
<1>1. Inv => NoScenarioTwice
  BY DEF Inv, OnceInv, NoScenarioTwice
<1> QED
  BY <1>1, InvHolds, PTL

\* Between launches runs.jsonl differs from runs_full.jsonl by torn lines only,
\* and lacks them (_mode_output_paths).
THEOREM MirrorOnlyLosesTorn == Spec => []MirrorLacksOnlyTorn
<1>1. Inv => MirrorLacksOnlyTorn
  <2> SUFFICES ASSUME Inv, at = "off", Lines(disk["full"]) # {}
               PROVE  /\ Lines(disk["runs"]) \subseteq Lines(disk["full"])
                      /\ torn = 0 => disk["runs"] = disk["full"]
    BY DEF MirrorLacksOnlyTorn
  <2>1. Copies(disk["runs"], disk["full"])
    BY DEF Inv, MirrorInv
  <2>2. disk["runs"] \in Files /\ disk["full"] \in Files
    BY SuiteAssumption DEF Inv, TypeInv, Paths
  <2>3. ASSUME NEW s \in Lines(disk["runs"]) PROVE s \in Lines(disk["full"])
    <3>1. /\ s \in Scenarios
          /\ disk["runs"][s] \in Nat /\ disk["full"][s] \in Nat
          /\ disk["runs"][s] > 0 /\ disk["runs"][s] <= disk["full"][s]
      BY <2>1, <2>2 DEF Copies, Lines, Files
    <3> QED
      BY <3>1 DEF Lines
  <2> QED
    BY <2>1, <2>3 DEF Copies
<1> QED
  BY <1>1, InvHolds, PTL

\* A step of a resumed launch takes no line from the file of a mode.
LEMMA ResumeStep ==
  Inv /\ [Next]_vars =>
    [at # "off" /\ args.resume =>
       \A m \in Modes, s \in Scenarios : disk'[m][s] >= disk[m][s]]_vars
<1> SUFFICES ASSUME Inv, [Next]_vars, at # "off", args.resume,
                    NEW m \in Modes, NEW s \in Scenarios
             PROVE  disk'[m][s] >= disk[m][s]
  OBVIOUS
<1>1. disk[m] \in Files /\ disk[m][s] \in Nat /\ m \in Paths
  BY DEF Inv, TypeInv, Paths, Files
<1>2. CASE open
  <2>1. /\ mode \in Modes /\ pending \in Rests(mode) /\ pending # <<>> /\ at = "open"
        /\ disk' = IF append THEN disk ELSE [disk EXCEPT ![Head(pending)] = Empty]
    BY <1>2 DEF open, Inv, TypeInv, InMode
  <2>2. CASE append \/ m # Head(pending)
    <3>1. disk'[m] = disk[m]
      BY <1>1, <2>1, <2>2 DEF Inv, TypeInv
    <3> QED
      BY <1>1, <3>1
  <2>3. CASE ~append /\ m = Head(pending)
    <3>1. m = mode /\ Untouched
      BY <2>1, <2>3, RestFacts, SuiteAssumption DEF Untouched
    <3>2. Lines(disk[m]) = {}
      BY <2>1, <2>3, <3>1 DEF Inv, RecordsInv, InMode
    <3>3. disk[m][s] = 0
      BY <1>1, <3>2 DEF Lines
    <3>4. disk'[m] = Empty
      BY <1>1, <2>1, <2>3 DEF Inv, TypeInv
    <3> QED
      BY <3>3, <3>4 DEF Empty
  <2> QED
    BY <2>2, <2>3
<1>3. CASE write
  <2>1. current \in Scenarios /\ disk' = [disk EXCEPT ![Head(pending)] = WithLine(@, current)]
    BY <1>3 DEF write, Inv, TypeInv
  <2>2. disk'[m] = disk[m] \/ disk'[m] = WithLine(disk[m], current)
    BY <1>1, <2>1 DEF Inv, TypeInv
  <2>3. disk'[m][s] \in {disk[m][s], disk[m][s] + 1}
    BY <1>1, <2>1, <2>2, LineFacts
  <2> QED
    BY <1>1, <2>3
<1>4. CASE UNCHANGED disk
  BY <1>1, <1>4
<1> QED
  BY <1>2, <1>3, <1>4
  DEF Next, work, launch, begin_mode, run_scenario, end_mode, write_summary, stop, vars

\* Whatever a launch with --resume is asked to run, and wherever it is killed,
\* the files of the modes keep what they had (_run_mode, write_mode).
THEOREM ResumeKeepsLines == Spec => ResumeLosesNothing
BY InvHolds, ResumeStep, PTL DEF Spec, ResumeLosesNothing

\* A summary counts what the files of its modes say, and those have all that
\* was asked for (run_suite).
THEOREM SummaryCountsFiles == Spec => SummaryIsOfTheFiles
<1>1. Inv /\ [Next]_vars =>
        [write_summary =>
           \A m \in args.modes : /\ summary'[m].runs = disk[m]
                                 /\ args.scenarios \subseteq Lines(disk[m])]_vars
  <2> SUFFICES ASSUME Inv, write_summary, NEW m \in args.modes
               PROVE  /\ summary'[m].runs = disk[m]
                      /\ args.scenarios \subseteq Lines(disk[m])
    OBVIOUS
  <2>1. records[m] = disk[m] /\ args.scenarios \subseteq Lines(disk[m])
    BY DEF write_summary, Inv, RecordsInv, InMode
  <2>2. summary'[m].runs = records[m]
    BY DEF write_summary, compute_all_metrics, Counted
  <2> QED
    BY <2>1, <2>2
<1> QED
  BY <1>1, InvHolds, PTL DEF Spec, SummaryIsOfTheFiles
=============================================================================
