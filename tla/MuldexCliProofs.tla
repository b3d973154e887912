--------------------------- MODULE MuldexCliProofs ---------------------------
(***************************************************************************)
(* What a command of the CLI guarantees for every command line, every      *)
(* content of its file and every width of the counters, while files change *)
(* and processes die, proved with TLAPS.                                   *)
(***************************************************************************)
EXTENDS MuldexCli, HarnessTypes

USE DEF fileVars, dataVars

-----------------------------------------------------------------------------
(* What a text deserves. *)

\* The scenarios are well-typed requests.
LEMMA SampleRequestType ==
  ASSUME NEW scenario \in Scenario
  PROVE  SampleRequest(scenario) \in ReasoningHarnessRequest
  <1>1. UpstreamPolicy \in EscalationPolicy
    BY U32MaxAssumption DEF UpstreamPolicy, EscalationPolicy, U32
  <1>2. 0 \in U32 /\ 1 \in U32 /\ 2 \in U32 /\ 3 \in U32
    BY U32MaxAssumption DEF U32
  <1>3. HealthyRequest \in ReasoningHarnessRequest
    BY <1>1, <1>2 DEF HealthyRequest, ReasoningHarnessRequest, ProhibitionRule,
       ProgressSnapshot, RecoverySnapshot, RecoveryReason, SelfCorrectionState,
       PermissionContextSnapshot, NoApprovalNeeded, NoCorrection, ContextPressure
  <1> QED
    BY <1>2, <1>3 DEF SampleRequest, Scenario, ReasoningHarnessRequest,
       ProgressSnapshot, RecoverySnapshot, RecoveryReason, SelfCorrectionState

LEMMA CommandType ==
  ASSUME command \in Commands
  PROVE  /\ command.name \in {"decide-sample", "decide-file",
                              "decide-codex-snapshot", "decide-workspace"}
         /\ command.scenario \in Scenario
         /\ command.flags \in WorkspaceFlags
         /\ command.objective \in BOOLEAN /\ command.objective_file \in BOOLEAN
  BY CliAssumption DEF Command

\* A text deserves a well-typed request or none.
LEMMA DeservedRequestType ==
  ASSUME command \in Commands, NEW text
  PROVE  DeservedRequest(text) \in ReasoningHarnessRequest \cup {Nil}
  <1>1. CASE command.name = "decide-sample"
    BY <1>1, CommandType, SampleRequestType DEF DeservedRequest
  <1>2. CASE command.name = "decide-file"
    <2>1. ASSUME Decodes(text, "request") PROVE text.request \in ReasoningHarnessRequest
      BY <2>1, CliAssumption DEF Decodes, Content
    <2> QED
      BY <1>2, <2>1 DEF DeservedRequest
  <1>3. CASE command.name = "decide-codex-snapshot"
    <2>1. ASSUME NEW kind, Decodes(text, kind)
          PROVE  text.signal \in CodexSignalSnapshot
                 /\ text.live \in CodexLiveContinuationSnapshot
      BY <2>1, CliAssumption DEF Decodes, Content
    <2>2. SnapshotRequest(text) \in ReasoningHarnessRequest \cup {Nil}
      BY <2>1, SignalRequestType, LiveRequestType, BootstrapRequestType DEF SnapshotRequest
    <2> QED
      BY <1>3, <2>2 DEF DeservedRequest
  <1>4. CASE command.name = "decide-workspace"
    BY <1>4, CommandType, WorkspaceRequestType DEF DeservedRequest
  <1> QED
    BY <1>1, <1>2, <1>3, <1>4, CommandType

LEMMA DeservedType ==
  ASSUME command \in Commands, NEW text
  PROVE  /\ Deserved(text) \in ReasoningHarnessDecision \cup {Nil}
         /\ DeservedRequest(text) # Nil => Deserved(text) # Nil
  BY DeservedRequestType, DecisionType, CliAssumption DEF Deserved

\* A command without a file deserves the same whatever the file holds.
LEMMA DeservedWithoutFile ==
  ASSUME command \in Commands, command.name \notin FileCommands, NEW t, NEW u
  PROVE  DeservedRequest(t) = DeservedRequest(u) /\ Deserved(t) = Deserved(u)
  BY CommandType DEF DeservedRequest, Deserved, FileCommands

-----------------------------------------------------------------------------
(* The invariant. *)

LEMMA InitCli == Init => CliInv
  <1> SUFFICES ASSUME Init PROVE CliInv
    OBVIOUS
  <1> USE CommandType DEF Init, FirstStep, FileCommands, EarlySteps, LateSteps
  <1>1. CliTypeOK
    BY DEF CliTypeOK
  <1>2. StepIsOfCommand /\ StepIsEarned
    BY DEF StepIsOfCommand, StepIsEarned
  <1>3. RequestIsDeserved
    BY DEF RequestIsDeserved
  <1>4. OutputIsOfStep
    BY DEF OutputIsOfStep, Shown
  <1> QED
    BY <1>1, <1>2, <1>3, <1>4 DEF CliInv

\* The world changes and the process does not.
LEMMA WorldCli ==
  ASSUME CliInv, World
  PROVE  CliInv'
  <1>1. UNCHANGED <<command, pc, status, dataVars, output>>
    BY DEF World, ReplaceFile, BeginWrite, EndWrite, ChangeDisk
  <1>2. /\ file' \in Contents \cup {Missing, Torn}
        /\ writing' \in Contents \cup {Nil}
        /\ disk' \in [workspace : Workspaces, objective_file : BOOLEAN]
    BY DEF World, ReplaceFile, BeginWrite, EndWrite, ChangeDisk, CliInv, CliTypeOK
  <1>3. DeservedRequest(raw)' = DeservedRequest(raw)
    BY <1>1 DEF DeservedRequest
  <1>4. CliTypeOK' /\ StepIsOfCommand' /\ StepIsEarned'
    BY <1>1, <1>2 DEF CliInv, CliTypeOK, StepIsOfCommand, StepIsEarned
  <1>5. RequestIsDeserved'
    BY <1>1, <1>3 DEF CliInv, RequestIsDeserved
  <1>6. OutputIsOfStep'
    BY <1>1 DEF CliInv, OutputIsOfStep
  <1> QED
    BY <1>4, <1>5, <1>6 DEF CliInv

LEMMA StartCli ==
  ASSUME CliInv, Start
  PROVE  CliInv'
  <1> USE CommandType DEF Start, CliInv, FirstStep, FileCommands, EarlySteps, LateSteps
  <1>1. CliTypeOK'
    BY DEF CliTypeOK
  <1>2. StepIsOfCommand' /\ StepIsEarned'
    BY DEF CliTypeOK, StepIsOfCommand, StepIsEarned
  <1>3. RequestIsDeserved'
    BY DEF CliTypeOK, RequestIsDeserved
  <1>4. OutputIsOfStep'
    BY DEF CliTypeOK, OutputIsOfStep, Shown
  <1> QED
    BY <1>1, <1>2, <1>3, <1>4

\* A command fails only before its decision, and leaves all as it is.
LEMMA FailCli ==
  ASSUME CliInv, Fail, pc \in EarlySteps, UNCHANGED <<command, fileVars>>
  PROVE  CliInv'
  BY DEF CliInv, Fail, CliTypeOK, StepIsOfCommand, StepIsEarned, EarlySteps,
     LateSteps, RequestIsDeserved, DeservedRequest, OutputIsOfStep

\* The step from one attempt or check to the next.
LEMMA GoToCli ==
  ASSUME CliInv, status = "running", UNCHANGED <<command, fileVars>>, NEW step, GoTo(step),
         \/ pc = "signal" /\ step = "live" /\ ~Decodes(raw, "signal")
         \/ pc = "live" /\ step = "bootstrap" /\ ~Decodes(raw, "live")
         \/ pc = "exists" /\ step = "is_dir"
         \/ pc = "is_dir" /\ step = "objective"
         \/ /\ pc = "objective" /\ step = "git"
            /\ command.objective # command.objective_file
  PROVE  CliInv'
  BY DEF CliInv, GoTo, CliTypeOK, StepIsOfCommand, StepIsEarned, EarlySteps,
     LateSteps, RequestIsDeserved, DeservedRequest, OutputIsOfStep

\* The request that is built is the one the text deserves, and the summary says
\* so.
LEMMA BuiltCli ==
  ASSUME CliInv, status = "running", UNCHANGED <<command, fileVars>>,
         pc \in EarlySteps \ {"read"},
         NEW shown \in Shown, Built(DeservedRequest(raw), shown),
         DeservedRequest(raw) # Nil,
         shown = <<"live">> =>
            DeservedRequest(raw) = CodexLiveSnapshotToHarnessRequest(raw.live),
         shown = <<"bootstrap">> => DeservedRequest(raw) = CodexBootstrapRequest
  PROVE  CliInv'
  <1> USE DEF CliInv, Built, EarlySteps, LateSteps
  <1>1. CliTypeOK'
    BY DeservedRequestType DEF CliTypeOK
  <1>2. StepIsOfCommand' /\ StepIsEarned'
    BY DEF CliTypeOK, StepIsOfCommand, StepIsEarned
  <1>3. RequestIsDeserved'
    BY DEF CliTypeOK, RequestIsDeserved, DeservedRequest
  <1>4. OutputIsOfStep'
    <2>1. output' = shown
      BY DEF OutputIsOfStep, Shown
    <2> QED
      BY <2>1 DEF OutputIsOfStep
  <1> QED
    BY <1>1, <1>2, <1>3, <1>4

\* The steps that decode, check and build.
LEMMA EarlyStepCli ==
  ASSUME CliInv,
         \/ ReadFile \/ DecodeRequest \/ DecodeSignal \/ DecodeLive \/ DecodeBootstrap
         \/ BuildSample \/ CheckExists \/ CheckIsDir \/ TakeObjective \/ BuildWorkspaceStep
  PROVE  CliInv'
  <1>1. /\ command \in Commands
        /\ status = "running" /\ UNCHANGED <<command, fileVars>>
        /\ pc \in EarlySteps
    BY DEF ReadFile, DecodeRequest, DecodeSignal, DecodeLive, DecodeBootstrap,
       BuildSample, CheckExists, CheckIsDir, TakeObjective, BuildWorkspaceStep,
       At, EarlySteps, CliInv, CliTypeOK
  <1>2. CASE Fail
    BY <1>1, <1>2, FailCli
  <1>3. ASSUME ReadFile, ~Fail PROVE CliInv'
    <2>1. /\ pc = "read" /\ raw' = file /\ file # Missing
          /\ pc' = IF command.name = "decide-file" THEN "request" ELSE "signal"
          /\ UNCHANGED <<status, request, decision, output>>
      BY <1>3 DEF ReadFile, At
    <2>2. command.name \in FileCommands
      BY <2>1 DEF CliInv, StepIsOfCommand
    <2>3. CliTypeOK'
      BY <1>1, <2>1 DEF CliInv, CliTypeOK, EarlySteps
    <2>4. raw' # Nil
      BY <2>1, CliAssumption DEF CliInv, CliTypeOK
    <2>5. StepIsOfCommand' /\ StepIsEarned'
      BY <1>1, <2>1, <2>2, <2>4 DEF StepIsOfCommand, StepIsEarned, FileCommands
    <2>6. RequestIsDeserved'
      BY <2>1 DEF CliInv, RequestIsDeserved, EarlySteps, LateSteps
    <2>7. OutputIsOfStep'
      BY <1>1, <2>1 DEF CliInv, OutputIsOfStep, EarlySteps, Shown
    <2> QED
      BY <2>3, <2>5, <2>6, <2>7 DEF CliInv
  <1>4. ASSUME NEW step, GoTo(step),
               \/ DecodeSignal /\ step = "live" /\ ~Decodes(raw, "signal")
               \/ DecodeLive /\ step = "bootstrap" /\ ~Decodes(raw, "live")
               \/ CheckExists /\ step = "is_dir"
               \/ CheckIsDir /\ step = "objective"
               \/ /\ TakeObjective /\ step = "git"
                  /\ command.objective # command.objective_file
        PROVE  CliInv'
    BY <1>1, <1>4, GoToCli DEF DecodeSignal, DecodeLive, CheckExists, CheckIsDir,
       TakeObjective, At
  <1>5. ASSUME DecodeRequest, Decodes(raw, "request"), Built(raw.request, <<>>)
        PROVE  CliInv'
    <2>1. pc = "request" /\ command.name = "decide-file"
      BY <1>5 DEF DecodeRequest, At, CliInv, StepIsOfCommand
    <2>2. DeservedRequest(raw) = raw.request
      BY <1>5, <2>1 DEF DeservedRequest
    <2>3. raw.request # Nil
      BY <1>5, CliAssumption DEF Decodes, Content
    <2> QED
      BY <1>1, <1>5, <2>1, <2>2, <2>3, BuiltCli DEF Shown
  <1>6. ASSUME DecodeSignal, Decodes(raw, "signal"),
               Built(CodexSnapshotToHarnessRequest(raw.signal), <<>>)
        PROVE  CliInv'
    <2>1. pc = "signal" /\ command.name = "decide-codex-snapshot"
      BY <1>6 DEF DecodeSignal, At, CliInv, StepIsOfCommand
    <2>2. DeservedRequest(raw) = CodexSnapshotToHarnessRequest(raw.signal)
      BY <1>6, <2>1 DEF DeservedRequest, SnapshotRequest
    <2>3. raw.signal \in CodexSignalSnapshot
      BY <1>6, CliAssumption DEF Decodes, Content
    <2>4. DeservedRequest(raw) # Nil
      BY <2>2, <2>3, SignalRequestType, CliAssumption
    <2> QED
      BY <1>1, <1>6, <2>1, <2>2, <2>4, BuiltCli DEF Shown
  <1>7. ASSUME DecodeLive, Decodes(raw, "live"),
               Built(CodexLiveSnapshotToHarnessRequest(raw.live), <<"live">>)
        PROVE  CliInv'
    <2>1. pc = "live" /\ command.name = "decide-codex-snapshot" /\ ~Decodes(raw, "signal")
      BY <1>7 DEF DecodeLive, At, CliInv, StepIsOfCommand, StepIsEarned
    <2>2. DeservedRequest(raw) = CodexLiveSnapshotToHarnessRequest(raw.live)
      BY <1>7, <2>1 DEF DeservedRequest, SnapshotRequest
    <2>3. raw.live \in CodexLiveContinuationSnapshot
      BY <1>7, CliAssumption DEF Decodes, Content
    <2>4. DeservedRequest(raw) # Nil
      BY <2>2, <2>3, LiveRequestType, CliAssumption
    <2> QED
      BY <1>1, <1>7, <2>1, <2>2, <2>4, BuiltCli DEF Shown
  <1>8. ASSUME DecodeBootstrap, Decodes(raw, "bootstrap"),
               Built(CodexBootstrapRequest, <<"bootstrap">>)
        PROVE  CliInv'
    <2>1. /\ pc = "bootstrap" /\ command.name = "decide-codex-snapshot"
          /\ ~Decodes(raw, "signal") /\ ~Decodes(raw, "live")
      BY <1>8 DEF DecodeBootstrap, At, CliInv, StepIsOfCommand, StepIsEarned
    <2>2. DeservedRequest(raw) = CodexBootstrapRequest
      BY <1>8, <2>1 DEF DeservedRequest, SnapshotRequest
    <2>3. DeservedRequest(raw) # Nil
      BY <2>2, BootstrapRequestType, CliAssumption
    <2> QED
      BY <1>1, <1>8, <2>1, <2>2, <2>3, BuiltCli DEF Shown
  <1>9. ASSUME BuildSample PROVE CliInv'
    <2>1. pc = "build" /\ command.name = "decide-sample"
      BY <1>9 DEF BuildSample, At, CliInv, StepIsOfCommand
    <2>2. DeservedRequest(raw) = SampleRequest(command.scenario)
      BY <2>1 DEF DeservedRequest
    <2>3. DeservedRequest(raw) # Nil
      BY <1>1, <2>2, CommandType, SampleRequestType, CliAssumption
    <2> QED
      BY <1>1, <1>9, <2>1, <2>2, <2>3, BuiltCli DEF Shown, BuildSample
  <1>10. ASSUME BuildWorkspaceStep PROVE CliInv'
    <2>1. /\ pc = "git" /\ command.name = "decide-workspace"
          /\ command.objective # command.objective_file
      BY <1>10 DEF BuildWorkspaceStep, At, CliInv, StepIsOfCommand, StepIsEarned
    <2>2. DeservedRequest(raw) = BuildWorkspaceRequest(command.flags)
      BY <2>1 DEF DeservedRequest
    <2>3. DeservedRequest(raw) # Nil
      BY <1>1, <2>2, CommandType, WorkspaceRequestType, CliAssumption
    <2> QED
      BY <1>1, <1>10, <2>1, <2>2, <2>3, BuiltCli DEF Shown, BuildWorkspaceStep
  <1> QED
    BY <1>2, <1>3, <1>4, <1>5, <1>6, <1>7, <1>8, <1>9, <1>10
       DEF ReadFile, DecodeRequest, DecodeSignal, DecodeLive, DecodeBootstrap,
           CheckExists, CheckIsDir, TakeObjective

LEMMA Concatenations ==
  ASSUME NEW shown \in Shown
  PROVE  (shown \o <<"decision">>) \o <<"json">> = shown \o <<"decision", "json">>
  BY DEF Shown

\* The steps that decide, print and exit.
LEMMA LateStepCli ==
  ASSUME CliInv, Decide \/ PrintDecision \/ PrintJson \/ Exit
  PROVE  CliInv'
  <1> USE DEF CliInv, At, EarlySteps, LateSteps
  <1>1. /\ command \in Commands
        /\ status = "running" /\ UNCHANGED <<command, fileVars, raw, request>>
        /\ pc \in LateSteps /\ pc' \in LateSteps
        /\ request # Nil /\ request \in ReasoningHarnessRequest
    BY DEF Decide, PrintDecision, PrintJson, Exit, Proceed, CliTypeOK, RequestIsDeserved
  <1>2. DeservedRequest(raw)' = DeservedRequest(raw)
    BY <1>1 DEF DeservedRequest
  <1>3. /\ decision' = IF pc' \in {"print", "json", "exit"}
                       THEN DecideReasoningHarness(request) ELSE Nil
        /\ status' \in {"running", "ok"} /\ (status' = "ok" => pc' = "exit")
    BY DEF Decide, PrintDecision, PrintJson, Exit, Proceed, RequestIsDeserved
  <1>4. CliTypeOK'
    BY <1>1, <1>3, DecisionType DEF CliTypeOK
  <1>5. StepIsOfCommand' /\ StepIsEarned'
    BY <1>1 DEF StepIsOfCommand, StepIsEarned
  <1>6. RequestIsDeserved'
    BY <1>1, <1>2, <1>3 DEF RequestIsDeserved
  <1>7. OutputIsOfStep'
    <2>1. PICK shown \in Shown :
            /\ output = CASE pc = "json" -> shown \o <<"decision">>
                          [] pc = "exit" -> shown \o <<"decision", "json">>
                          [] pc \notin {"json", "exit"} -> shown
            /\ shown = <<"live">> => request = CodexLiveSnapshotToHarnessRequest(raw.live)
            /\ shown = <<"bootstrap">> => request = CodexBootstrapRequest
      BY DEF OutputIsOfStep
    <2>2. output' = CASE pc' = "json" -> shown \o <<"decision">>
                      [] pc' = "exit" -> shown \o <<"decision", "json">>
                      [] pc' \notin {"json", "exit"} -> shown
      <3>1. CASE Decide
        BY <2>1, <3>1 DEF Decide
      <3>2. CASE PrintDecision
        BY <2>1, <3>2 DEF PrintDecision, Proceed
      <3>3. CASE PrintJson
        <4>1. output = shown \o <<"decision">> /\ output' = output \o <<"json">> /\ pc' = "exit"
          BY <2>1, <3>3 DEF PrintJson, Proceed
        <4> QED
          BY <4>1, Concatenations
      <3>4. CASE Exit
        BY <2>1, <3>4 DEF Exit
      <3> QED
        BY <3>1, <3>2, <3>3, <3>4
    <2> QED
      BY <1>1, <1>3, <2>1, <2>2 DEF OutputIsOfStep
  <1> QED
    BY <1>4, <1>5, <1>6, <1>7

LEMMA NextCli ==
  ASSUME CliInv, [Next]_vars
  PROVE  CliInv'
  <1>1. CASE World
    BY <1>1, WorldCli
  <1>2. CASE Start
    BY <1>2, StartCli
  <1>3. CASE Kill \/ UNCHANGED vars
    <2>1. /\ UNCHANGED <<command, fileVars, pc, dataVars, output>>
          /\ status' \in {status, "killed"}
      BY <1>3 DEF Kill, vars
    <2>2. DeservedRequest(raw)' = DeservedRequest(raw)
      BY <2>1 DEF DeservedRequest
    <2>3. CliTypeOK' /\ StepIsOfCommand' /\ StepIsEarned'
      BY <2>1 DEF CliInv, CliTypeOK, StepIsOfCommand, StepIsEarned
    <2>4. RequestIsDeserved'
      BY <2>1, <2>2 DEF CliInv, RequestIsDeserved
    <2>5. OutputIsOfStep'
      BY <2>1 DEF CliInv, OutputIsOfStep
    <2> QED
      BY <2>3, <2>4, <2>5 DEF CliInv
  <1>4. CASE Process
    BY <1>4, EarlyStepCli, LateStepCli DEF Process
  <1> QED
    BY <1>1, <1>2, <1>3, <1>4 DEF Next

\* Between any two steps a process is where the steps of its command lead it:
\* with the request its text deserves, the answer to it, and no more printed
\* than that.
THEOREM CliCorrect == Spec => []CliInv
  BY InitCli, NextCli, PTL DEF Spec

-----------------------------------------------------------------------------
(* What the host sees. *)

\* A command that fails has printed nothing and one that succeeds its decision,
\* twice and last, after a summary of the kind of snapshot it took.
THEOREM OutputsHonest == Spec => []OutputIsHonest
  <1>1. ASSUME CliInv PROVE OutputIsHonest
    <2> USE <1>1 DEF CliInv
    <2>1. PICK shown \in Shown :
            /\ output = CASE pc = "json" -> shown \o <<"decision">>
                          [] pc = "exit" -> shown \o <<"decision", "json">>
                          [] pc \notin {"json", "exit"} -> shown
            /\ shown = <<"live">> => request = CodexLiveSnapshotToHarnessRequest(raw.live)
            /\ shown = <<"bootstrap">> => request = CodexBootstrapRequest
      BY DEF OutputIsOfStep
    <2>2. status = "error" => output = <<>>
      BY DEF OutputIsOfStep
    <2>3. status = "ok" => decision # Nil /\ output = shown \o <<"decision", "json">>
      <3>1. status = "ok" => pc = "exit"
        BY DEF OutputIsOfStep
      <3>2. pc = "exit" => request \in ReasoningHarnessRequest
        BY DEF RequestIsDeserved, CliTypeOK, LateSteps
      <3>3. pc = "exit" => decision # Nil
        BY <3>2, DecisionType, CliAssumption DEF RequestIsDeserved
      <3> QED
        BY <2>1, <3>1, <3>3
    <2>4. (output # <<>> /\ Head(output) = "live") => shown = <<"live">>
      BY <2>1 DEF Shown
    <2>5. (output # <<>> /\ Head(output) = "bootstrap") => shown = <<"bootstrap">>
      BY <2>1 DEF Shown
    <2> QED
      BY <2>1, <2>2, <2>3, <2>4, <2>5 DEF OutputIsHonest
  <1> QED
    BY <1>1, CliCorrect, PTL

\* A snapshot that carries the counters of a stalled session is never answered
\* without them, whatever else its file holds.
THEOREM CountersUsed == Spec => []CountersAreUsed
  <1>1. ASSUME CliInv PROVE CountersAreUsed
    <2> USE <1>1 DEF CliInv
    <2> SUFFICES ASSUME command.name = "decide-codex-snapshot", decision # Nil,
                        Decodes(raw, "signal"),
                        raw.signal.no_progress_iteration_count
                            >= UpstreamPolicy.no_progress_limit
                 PROVE  decision.mode = "Handoff"
      BY DEF CountersAreUsed
    <2>1. decision = DecideReasoningHarness(request)
      BY DEF RequestIsDeserved
    <2>2. request = CodexSnapshotToHarnessRequest(raw.signal)
      BY DEF RequestIsDeserved, LateSteps, DeservedRequest, SnapshotRequest
    <2>3. NoProgressViolation(request)
      BY <2>2 DEF CodexSnapshotToHarnessRequest, NoProgressViolation
    <2> QED
      BY <2>1, <2>3 DEF DecideReasoningHarness, Blocked
  <1> QED
    BY <1>1, CliCorrect, PTL
-----------------------------------------------------------------------------
(* The commands implement DecisionService. *)

\* The answer to a call, as DecisionService sees it.
LEMMA AnswerOf ==
  ASSUME CliInv
  PROVE  /\ pc \in {"print", "json", "exit"} =>
                decision # Nil /\ decision = Deserved(raw)
         /\ pc \notin {"print", "json", "exit"} => decision = Nil
  <1> USE DEF CliInv
  <1>1. CASE pc \in {"print", "json", "exit"}
    <2>1. /\ request \in ReasoningHarnessRequest /\ request = DeservedRequest(raw)
          /\ request # Nil /\ decision = DecideReasoningHarness(request)
      BY <1>1 DEF RequestIsDeserved, CliTypeOK, LateSteps
    <2> QED
      BY <1>1, <2>1, DecisionType, CliAssumption DEF Deserved
  <1>2. CASE pc \notin {"print", "json", "exit"}
    BY <1>2 DEF RequestIsDeserved
  <1> QED
    BY <1>1, <1>2

\* A call of a command is answered from one version of its file, and from one
\* that was in it during the call.
THEOREM CommandsImplementService == Spec => AnswersOneVersion
  <1> DEFINE offered == Deserved(file)
             answer == IF decision # Nil THEN decision
                       ELSE IF raw # Nil THEN Deserved(raw) ELSE Nil
  <1>1. Init => Service!Init
    <2> SUFFICES ASSUME Init PROVE Service!Init
      OBVIOUS
    <2>1. command \in Commands /\ raw = Nil /\ decision = Nil
      BY DEF Init
    <2> QED
      BY <2>1, DeservedType DEF Service!Init
  <1>2. CliInv /\ [Next]_vars => [Service!Next]_(Service!vars)
    <2> SUFFICES ASSUME CliInv, [Next]_vars
                 PROVE  [Service!Next]_(Service!vars)
      OBVIOUS
    <2>1. /\ offered' \in ReasoningHarnessDecision \cup {Nil}
          /\ command' = command
      <3>1. command \in Commands
        BY DEF CliInv, CliTypeOK
      <3>2. command' = command
        BY DEF Next, World, ReplaceFile, BeginWrite, EndWrite, ChangeDisk, Start, Kill,
           Process, ReadFile, DecodeRequest, DecodeSignal, DecodeLive, DecodeBootstrap,
           BuildSample, CheckExists, CheckIsDir, TakeObjective, BuildWorkspaceStep,
           Decide, PrintDecision, PrintJson, Exit, At, vars
      <3>3. offered' = Deserved(file')
        BY <3>2 DEF Deserved, DeservedRequest
      <3> QED
        BY <3>1, <3>2, <3>3, DeservedType
    <2>2. ASSUME UNCHANGED <<file, raw, decision>>
          PROVE  UNCHANGED Service!vars
      BY <2>1, <2>2 DEF Service!vars, Deserved, DeservedRequest
    <2>3. CASE World
      <3>1. UNCHANGED <<raw, decision>>
        BY <2>3 DEF World, ReplaceFile, BeginWrite, EndWrite, ChangeDisk
      <3>2. answer' = answer
        BY <2>1, <3>1 DEF Deserved, DeservedRequest
      <3> QED
        BY <2>1, <3>2 DEF Service!Next, Service!Change
    <2>4. CASE Start
      <3>1. raw' = Nil /\ decision' = Nil /\ file' = file
        BY <2>4 DEF Start
      <3>2. answer' = Nil /\ offered' = offered
        BY <2>1, <3>1 DEF Deserved, DeservedRequest
      <3> QED
        BY <3>2 DEF Service!Next, Service!Forget
    <2>5. CASE Kill \/ UNCHANGED vars
      BY <2>2, <2>5 DEF Kill, vars
    <2>6. CASE ReadFile
      <3>1. CASE Fail
        BY <2>2, <2>6, <3>1 DEF ReadFile, At, Fail
      <3>2. CASE ~Fail
        <4>1. /\ pc = "read" /\ raw' = file
              /\ UNCHANGED <<file, decision>>
          BY <2>6, <3>2 DEF ReadFile, At
        <4>2. raw = Nil /\ decision = Nil
          BY <4>1, AnswerOf DEF CliInv, StepIsOfCommand
        <4>3. answer = Nil /\ offered' = offered
          BY <2>1, <4>1, <4>2 DEF Deserved, DeservedRequest
        <4>4. Deserved(raw)' = offered
          BY <2>1, <4>1 DEF Deserved, DeservedRequest
        <4>5. answer' \in {offered, Nil}
          BY <4>1, <4>2, <4>4
        <4> QED
          BY <4>3, <4>5 DEF Service!Next, Service!Reply, Service!vars
      <3> QED
        BY <3>1, <3>2
    <2>7. CASE \/ DecodeRequest \/ DecodeSignal \/ DecodeLive \/ DecodeBootstrap
               \/ BuildSample \/ CheckExists \/ CheckIsDir \/ TakeObjective
               \/ BuildWorkspaceStep \/ PrintDecision \/ PrintJson \/ Exit
      BY <2>2, <2>7 DEF DecodeRequest, DecodeSignal, DecodeLive, DecodeBootstrap,
         BuildSample, CheckExists, CheckIsDir, TakeObjective, BuildWorkspaceStep,
         PrintDecision, PrintJson, Exit, At, Fail, GoTo, Built, Proceed
    <2>8. CASE Decide
      <3>1. /\ pc = "decide" /\ pc' = "print"
            /\ UNCHANGED <<file, raw>>
            /\ command \in Commands
        BY <2>8 DEF Decide, At, CliInv, CliTypeOK
      <3>2. decision = Nil
        BY <3>1, AnswerOf
      <3>3. decision' # Nil /\ decision' = Deserved(raw)
        <4>1. /\ request \in ReasoningHarnessRequest /\ request # Nil
              /\ request = DeservedRequest(raw)
          BY <3>1 DEF CliInv, CliTypeOK, RequestIsDeserved, LateSteps
        <4>2. decision' = DecideReasoningHarness(request)
          BY <2>8 DEF Decide
        <4> QED
          BY <4>1, <4>2, DecisionType, CliAssumption DEF Deserved
      <3>4. offered' = offered
        BY <2>1, <3>1 DEF Deserved, DeservedRequest
      <3>5. CASE raw # Nil
        <4>1. answer = Deserved(raw) /\ answer' = Deserved(raw)
          BY <3>1, <3>2, <3>3, <3>4, <3>5
        <4> QED
          BY <3>4, <4>1 DEF Service!vars
      <3>6. CASE raw = Nil
        <4>1. command.name \notin FileCommands
          BY <3>1, <3>6 DEF CliInv, StepIsOfCommand
        <4>2. Deserved(raw) = offered
          BY <3>1, <4>1, DeservedWithoutFile
        <4>3. answer = Nil /\ offered # Nil /\ answer' = offered
          BY <3>1, <3>2, <3>3, <3>4, <3>6, <4>2
        <4> QED
          BY <3>4, <4>3 DEF Service!Next, Service!Reply
      <3> QED
        BY <3>5, <3>6
    <2> QED
      BY <2>3, <2>4, <2>5, <2>6, <2>7, <2>8 DEF Next, Process
  <1> QED
    BY <1>1, <1>2, CliCorrect, PTL DEF Spec, AnswersOneVersion, Service!Spec

-----------------------------------------------------------------------------
(* Hosts that call again. *)

\* A process that has read, or has nothing to read, holds what can be answered.
GoodCall == status = "running" /\ (pc # "read" => DeservedRequest(raw) # Nil)

LEMMA AnswerableDeserves ==
  ASSUME Answerable
  PROVE  DeservedRequest(file) # Nil
  BY DEF Answerable, Deserved

LEMMA StartsGood ==
  ASSUME CliInv, Answerable, Start
  PROVE  GoodCall'
  <1>1. /\ command \in Commands /\ UNCHANGED command /\ status' = "running"
        /\ pc' = FirstStep(command.name) /\ raw' = Nil
    BY DEF CliInv, CliTypeOK, Start
  <1>2. pc' # "read" => command.name \notin FileCommands
    BY <1>1 DEF FirstStep, FileCommands
  <1>3. pc' # "read" => DeservedRequest(Nil) # Nil
    BY <1>1, <1>2, AnswerableDeserves, DeservedWithoutFile
  <1>4. DeservedRequest(raw)' = DeservedRequest(Nil)
    BY <1>1 DEF DeservedRequest
  <1> QED
    BY <1>1, <1>3, <1>4 DEF GoodCall

\* No attempt and no check of such a process returns an error.
LEMMA GoodCallsDoNotFail ==
  ASSUME CliInv, Answerable, GoodCall, Process
  PROVE  ~Fail
  <1> SUFFICES ASSUME Fail PROVE FALSE
    OBVIOUS
  <1> USE DEF CliInv, StepIsOfCommand, StepIsEarned
  <1>1. status' = "error" /\ pc' = pc /\ UNCHANGED dataVars /\ status = "running"
    BY DEF Fail, GoodCall
  <1>2. ~BuildSample /\ ~BuildWorkspaceStep /\ ~Decide /\ ~PrintDecision
        /\ ~PrintJson /\ ~Exit
    BY <1>1 DEF BuildSample, BuildWorkspaceStep, Built, Decide, PrintDecision,
       PrintJson, Proceed, Exit
  <1>3. CASE ReadFile
    <2>1. pc = "read" /\ command.name \in FileCommands /\ file = Missing
      BY <1>1, <1>3 DEF ReadFile, At
    <2>2. ~Decodes(Missing, "request") /\ ~Decodes(Missing, "signal")
          /\ ~Decodes(Missing, "live") /\ ~Decodes(Missing, "bootstrap")
      BY CliAssumption DEF Decodes
    <2>3. DeservedRequest(file) = Nil
      BY <2>1, <2>2 DEF DeservedRequest, SnapshotRequest, FileCommands
    <2> QED
      BY <2>3, AnswerableDeserves
  <1>4. CASE DecodeRequest
    <2>1. pc = "request" /\ command.name = "decide-file" /\ ~Decodes(raw, "request")
      BY <1>1, <1>4 DEF DecodeRequest, At, Built
    <2> QED
      BY <2>1 DEF GoodCall, DeservedRequest
  <1>5. CASE DecodeBootstrap
    <2>1. /\ pc = "bootstrap" /\ command.name = "decide-codex-snapshot"
          /\ ~Decodes(raw, "signal") /\ ~Decodes(raw, "live") /\ ~Decodes(raw, "bootstrap")
      BY <1>1, <1>5 DEF DecodeBootstrap, At, Built
    <2> QED
      BY <2>1 DEF GoodCall, DeservedRequest, SnapshotRequest
  <1>6. CASE DecodeSignal \/ DecodeLive
    BY <1>1, <1>6 DEF DecodeSignal, DecodeLive, At, Built, GoTo
  <1>7. CASE CheckExists \/ CheckIsDir
    <2>1. command.name = "decide-workspace" /\ disk.workspace \notin {"git", "plain"}
      BY <1>1, <1>7 DEF CheckExists, CheckIsDir, At, GoTo
    <2> QED
      BY <2>1 DEF Answerable
  <1>8. CASE TakeObjective
    <2>1. /\ pc = "objective" /\ command.name = "decide-workspace"
          /\ ~(/\ command.objective # command.objective_file
               /\ command.objective_file => disk.objective_file)
      BY <1>1, <1>8 DEF TakeObjective, At, GoTo
    <2>2. command.objective # command.objective_file
      BY <2>1 DEF GoodCall, DeservedRequest
    <2> QED
      BY <2>1, <2>2 DEF Answerable
  <1> QED
    BY <1>2, <1>3, <1>4, <1>5, <1>6, <1>7, <1>8 DEF Process

\* Such a process goes on as one, whatever is written meanwhile, until it has
\* answered.
LEMMA GoodCallsGoOn ==
  ASSUME CliInv, Answerable, GoodCall, [Next]_vars, ~Kill
  PROVE  GoodCall' \/ status' = "ok"
  <1>1. command' = command
    BY DEF Next, World, ReplaceFile, BeginWrite, EndWrite, ChangeDisk, Start, Kill, Process,
       ReadFile, DecodeRequest, DecodeSignal, DecodeLive, DecodeBootstrap, BuildSample,
       CheckExists, CheckIsDir, TakeObjective, BuildWorkspaceStep, Decide,
       PrintDecision, PrintJson, Exit, At, vars
  <1>2. CASE World \/ UNCHANGED vars
    <2>1. UNCHANGED <<command, pc, status, raw>>
      BY <1>2 DEF World, ReplaceFile, BeginWrite, EndWrite, ChangeDisk, vars
    <2> QED
      BY <2>1 DEF GoodCall, DeservedRequest
  <1>3. CASE ReadFile
    <2>1. raw' = file /\ status' = "running"
      BY <1>3, GoodCallsDoNotFail DEF ReadFile, GoodCall, Process
    <2>2. DeservedRequest(raw)' = DeservedRequest(file)
      BY <1>1, <2>1 DEF DeservedRequest
    <2> QED
      BY <2>1, <2>2, AnswerableDeserves DEF GoodCall
  <1>4. CASE Process /\ ~ReadFile /\ ~Exit
    <2>1. pc # "read"
      BY <1>4 DEF Process, DecodeRequest, DecodeSignal, DecodeLive, DecodeBootstrap,
         BuildSample, CheckExists, CheckIsDir, TakeObjective, BuildWorkspaceStep,
         Decide, PrintDecision, PrintJson, At
    <2>2. ~Fail
      BY <1>4, GoodCallsDoNotFail
    <2>3. UNCHANGED <<status, raw>>
      BY <1>4, <2>2 DEF Process, DecodeRequest, DecodeSignal, DecodeLive,
         DecodeBootstrap, BuildSample, CheckExists, CheckIsDir, TakeObjective,
         BuildWorkspaceStep, Decide, PrintDecision, PrintJson, Proceed, Built, GoTo
    <2>4. DeservedRequest(raw)' = DeservedRequest(raw)
      BY <1>1, <2>3 DEF DeservedRequest
    <2> QED
      BY <2>1, <2>3, <2>4 DEF GoodCall
  <1>5. CASE Exit
    BY <1>5 DEF Exit
  <1>6. ~Start
    BY DEF Start, GoodCall
  <1> QED
    BY <1>2, <1>3, <1>4, <1>5, <1>6 DEF Next

\* The host calls again and again, which it can only do when its last call has
\* ended: this is all that HostIsAnswered takes from the fairness.
HostCallsAgain == []<><<Start>>_vars

\* A host that calls again and again is answered in the end if its files are
\* left in order and its processes alone: from then on no call can fail.
THEOREM CallsAnswered == Spec /\ HostCallsAgain => HostIsAnswered
  <1>1. CliInv /\ Answerable /\ <<Start>>_vars => GoodCall'
    BY StartsGood
  <1>2. CliInv /\ Answerable /\ GoodCall /\ [Next]_vars /\ [~Kill]_vars
          => GoodCall' \/ (status = "ok")'
    BY GoodCallsGoOn DEF Kill, vars
  <1>3. GoodCall => ~<<Start>>_vars
    BY DEF GoodCall, Start
  <1> QED
    BY <1>1, <1>2, <1>3, CliCorrect, PTL DEF Spec, HostCallsAgain, HostIsAnswered
=============================================================================
