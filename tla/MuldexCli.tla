------------------------------ MODULE MuldexCli ------------------------------
(***************************************************************************)
(* A command of the CLI as a process (main.rs): it reads, tries to decode, *)
(* builds a request, decides, prints and exits, while the host rewrites    *)
(* its files, the workspace comes and goes and the process may be killed.  *)
(* The host calls the same command again and again.                        *)
(*                                                                         *)
(* What a file holds is the groups of fields that are there and well       *)
(* typed.  serde ignores fields it does not know, so that one file can be  *)
(* decoded as several kinds, and rejects a kind with a field missing.      *)
(* An operator marked "Mutant" is the next definition with a mistake in it.*)
(***************************************************************************)
EXTENDS ReasoningHarness, UpstreamAdapter, Sequences

CONSTANTS
    Commands,   \* the command lines the host may use
    Contents,   \* what the file of a command may hold
    Missing,    \* a file that cannot be read
    Torn,       \* a file the host has not finished writing
    Nil         \* nothing

-----------------------------------------------------------------------------
(* Files and what can be decoded from them. *)

\* "thread_id" and "turn_id" are shared by the snapshots that name them; the
\* others stand for the rest of a snapshot or request.
FieldGroup == {"thread_id", "turn_id", "signal", "live", "bootstrap", "request"}

Content ==
    [fields : SUBSET FieldGroup,
     signal : CodexSignalSnapshot,
     live : CodexLiveContinuationSnapshot,
     request : ReasoningHarnessRequest]

\* The fields serde requires of each type.
Required(kind) ==
    CASE kind = "signal"    -> {"thread_id", "turn_id", "signal"}
      [] kind = "live"      -> {"thread_id", "live"}
      [] kind = "bootstrap" -> {"thread_id", "turn_id", "bootstrap"}
      [] kind = "request"   -> {"request"}

\* JSON that stops half-way is no JSON.
Decodes(text, kind) == text \in Contents /\ Required(kind) \subseteq text.fields

-----------------------------------------------------------------------------
(* Command lines. *)

Scenario ==
    {"Healthy", "NoProgress", "RecoverableFailure", "PostCompactionStall", "MediaHeavy"}

Command ==
    [name : {"decide-sample", "decide-file", "decide-codex-snapshot", "decide-workspace"},
     scenario : Scenario,
     objective : BOOLEAN,
     objective_file : BOOLEAN,
     flags : WorkspaceFlags,
     print_request : BOOLEAN]

ASSUME CliAssumption ==
    /\ Commands \subseteq Command
    /\ Contents \subseteq Content
    /\ Missing \notin Contents /\ Torn \notin Contents /\ Missing # Torn
    /\ Nil \notin Contents \cup {Missing, Torn}
    /\ Nil \notin ReasoningHarnessRequest \cup ReasoningHarnessDecision

SampleRequest(scenario) ==
    CASE scenario \in {"Healthy", "MediaHeavy"} -> HealthyRequest
      [] scenario = "NoProgress" ->
            [HealthyRequest EXCEPT !.progress.no_progress_iteration_count = 3,
                                   !.recovery.last_recovery_had_progress = FALSE]
      [] scenario = "RecoverableFailure" ->
            [HealthyRequest EXCEPT
                !.recovery = [last_recovery_reason |-> "ToolFailure",
                              last_recovery_had_progress |-> FALSE],
                !.self_correction = [active |-> TRUE, correction_attempt_count |-> 1]]
      [] scenario = "PostCompactionStall" ->
            [HealthyRequest EXCEPT !.progress.no_progress_iteration_count = 2,
                                   !.recovery.last_recovery_had_progress = FALSE]

-----------------------------------------------------------------------------
VARIABLES
    command,    \* the command the host calls
    file,       \* its file
    writing,    \* what the host is writing into the file, or Nil
    disk,       \* the workspace and whether the objective file can be read
    pc,         \* the next step of the process
    status,     \* how the process ended
    raw,        \* what it read, or Nil
    request,    \* the request it built, or Nil
    decision,   \* its decision, or Nil
    output      \* what it printed, in order

fileVars == <<file, writing, disk>>
dataVars == <<raw, request, decision>>
vars == <<command, fileVars, pc, status, dataVars, output>>

Workspaces == {"git", "plain", "file", "none"}

-----------------------------------------------------------------------------
(* The world around the process. *)

\* A file is replaced or removed at once.
ReplaceFile ==
    /\ writing = Nil
    /\ file' \in Contents \cup {Missing}
    /\ UNCHANGED <<command, writing, disk, pc, status, dataVars, output>>

BeginWrite ==
    /\ writing = Nil
    /\ writing' \in Contents
    /\ file' = Torn
    /\ UNCHANGED <<command, disk, pc, status, dataVars, output>>

EndWrite ==
    /\ writing # Nil
    /\ file' = writing
    /\ writing' = Nil
    /\ UNCHANGED <<command, disk, pc, status, dataVars, output>>

ChangeDisk ==
    /\ disk' \in [workspace : Workspaces, objective_file : BOOLEAN]
    /\ UNCHANGED <<command, file, writing, pc, status, dataVars, output>>

FirstStep(name) ==
    CASE name = "decide-sample"    -> "build"
      [] name = "decide-workspace" -> "exists"
      [] name \in {"decide-file", "decide-codex-snapshot"} -> "read"

Start ==
    /\ status # "running"
    /\ status' = "running"
    /\ pc' = FirstStep(command.name)
    /\ raw' = Nil /\ request' = Nil /\ decision' = Nil
    /\ output' = <<>>
    /\ UNCHANGED <<command, fileVars>>

\* The process is killed, or panics because nobody reads its output.
Kill ==
    /\ status = "running"
    /\ status' = "killed"
    /\ UNCHANGED <<command, fileVars, pc, dataVars, output>>

-----------------------------------------------------------------------------
(* The steps of a process. *)

At(step) ==
    /\ status = "running"
    /\ pc = step
    /\ UNCHANGED <<command, fileVars>>

GoTo(step) == pc' = step /\ UNCHANGED <<status, dataVars, output>>

\* main returns an error.
Fail == status' = "error" /\ UNCHANGED <<pc, dataVars, output>>

Proceed(step, printed) ==
    /\ pc' = step
    /\ output' = output \o printed
    /\ UNCHANGED <<status, dataVars>>

\* The request is built; a summary of what it was built from may be printed.
Built(built, printed) ==
    /\ request' = built
    /\ pc' = "decide"
    /\ output' = output \o printed
    /\ UNCHANGED <<status, raw, decision>>

ReadFile ==
    /\ At("read")
    /\ \/ file = Missing /\ Fail
       \/ /\ file # Missing
          /\ raw' = file
          /\ pc' = IF command.name = "decide-file" THEN "request" ELSE "signal"
          /\ UNCHANGED <<status, request, decision, output>>

DecodeRequest ==
    /\ At("request")
    /\ \/ Decodes(raw, "request") /\ Built(raw.request, <<>>)
       \/ ~Decodes(raw, "request") /\ Fail

\* Mutant: a file that may be a live snapshot is taken for one.
DecodeSignalUnlessLive ==
    /\ At("signal")
    /\ \/ /\ Decodes(raw, "signal") /\ ~Decodes(raw, "live")
          /\ Built(CodexSnapshotToHarnessRequest(raw.signal), <<>>)
       \/ (~Decodes(raw, "signal") \/ Decodes(raw, "live")) /\ GoTo("live")

DecodeSignal ==
    /\ At("signal")
    /\ \/ /\ Decodes(raw, "signal")
          /\ Built(CodexSnapshotToHarnessRequest(raw.signal), <<>>)
       \/ ~Decodes(raw, "signal") /\ GoTo("live")

\* Mutant: the file is read a second time.
DecodeLiveAgain ==
    /\ At("live")
    /\ \/ /\ Decodes(file, "live")
          /\ Built(CodexLiveSnapshotToHarnessRequest(file.live), <<"live">>)
       \/ ~Decodes(file, "live") /\ GoTo("bootstrap")

\* Mutant: the error of the second attempt is passed on.
DecodeLiveOrFail ==
    /\ At("live")
    /\ \/ /\ Decodes(raw, "live")
          /\ Built(CodexLiveSnapshotToHarnessRequest(raw.live), <<"live">>)
       \/ ~Decodes(raw, "live") /\ Fail

DecodeLive ==
    /\ At("live")
    /\ \/ /\ Decodes(raw, "live")
          /\ Built(CodexLiveSnapshotToHarnessRequest(raw.live), <<"live">>)
       \/ ~Decodes(raw, "live") /\ GoTo("bootstrap")

DecodeBootstrap ==
    /\ At("bootstrap")
    /\ \/ Decodes(raw, "bootstrap") /\ Built(CodexBootstrapRequest, <<"bootstrap">>)
       \/ ~Decodes(raw, "bootstrap") /\ Fail

BuildSample == At("build") /\ Built(SampleRequest(command.scenario), <<>>)

\* exists() and is_dir() are two looks at the disk, .git is a third.
CheckExists ==
    /\ At("exists")
    /\ IF disk.workspace = "none" THEN Fail ELSE GoTo("is_dir")

CheckIsDir ==
    /\ At("is_dir")
    /\ IF disk.workspace \in {"git", "plain"} THEN GoTo("objective") ELSE Fail

\* Mutant: the request is shown before it is known to be complete.
TakeObjectiveShown ==
    /\ At("objective")
    /\ IF /\ command.objective # command.objective_file
          /\ command.objective_file => disk.objective_file
       THEN Proceed("git", <<"request">>)
       ELSE /\ status' = "error"
            /\ output' = output \o <<"request">>
            /\ UNCHANGED <<pc, dataVars>>

\* One of --objective and --objective-file, and the file can be read.
TakeObjective ==
    /\ At("objective")
    /\ IF /\ command.objective # command.objective_file
          /\ command.objective_file => disk.objective_file
       THEN GoTo("git") ELSE Fail

\* The look at .git changes the text of the request only.
BuildWorkspaceStep ==
    /\ At("git")
    /\ Built(BuildWorkspaceRequest(command.flags),
             IF command.print_request THEN <<"request">> ELSE <<>>)

Decide ==
    /\ At("decide")
    /\ decision' = DecideReasoningHarness(request)
    /\ pc' = "print"
    /\ UNCHANGED <<status, raw, request, output>>

PrintDecision == At("print") /\ Proceed("json", <<"decision">>)

PrintJson == At("json") /\ Proceed("exit", <<"json">>)

Exit == At("exit") /\ status' = "ok" /\ UNCHANGED <<pc, dataVars, output>>

-----------------------------------------------------------------------------
Init ==
    /\ command \in Commands
    /\ file \in Contents \cup {Missing}
    /\ writing = Nil
    /\ disk \in [workspace : Workspaces, objective_file : BOOLEAN]
    /\ pc = FirstStep(command.name)
    /\ status = "none"
    /\ raw = Nil /\ request = Nil /\ decision = Nil
    /\ output = <<>>

World == ReplaceFile \/ BeginWrite \/ EndWrite \/ ChangeDisk

Process ==
    \/ ReadFile \/ DecodeRequest \/ DecodeSignal \/ DecodeLive \/ DecodeBootstrap
    \/ BuildSample
    \/ CheckExists \/ CheckIsDir \/ TakeObjective \/ BuildWorkspaceStep
    \/ Decide \/ PrintDecision \/ PrintJson \/ Exit

Next == World \/ Start \/ Kill \/ Process

Spec == Init /\ [][Next]_vars

\* The process runs (main is free of loops and waits for nothing but the
\* disk) and the host calls again.
FairSpec == Spec /\ WF_vars(Process) /\ WF_vars(Start)

-----------------------------------------------------------------------------
(* Properties. *)

\* The request a text deserves, by the kind it is decoded as, or Nil.
SnapshotRequest(text) ==
    CASE Decodes(text, "signal")    -> CodexSnapshotToHarnessRequest(text.signal)
      [] ~Decodes(text, "signal") /\ Decodes(text, "live") ->
            CodexLiveSnapshotToHarnessRequest(text.live)
      [] ~Decodes(text, "signal") /\ ~Decodes(text, "live")
         /\ Decodes(text, "bootstrap") -> CodexBootstrapRequest
      [] OTHER -> Nil

DeservedRequest(text) ==
    CASE command.name = "decide-sample" -> SampleRequest(command.scenario)
      [] command.name = "decide-file" ->
            IF Decodes(text, "request") THEN text.request ELSE Nil
      [] command.name = "decide-codex-snapshot" -> SnapshotRequest(text)
      [] command.name = "decide-workspace" ->
            IF command.objective # command.objective_file
            THEN BuildWorkspaceRequest(command.flags) ELSE Nil

Deserved(text) ==
    IF DeservedRequest(text) = Nil THEN Nil
    ELSE DecideReasoningHarness(DeservedRequest(text))

\* A call is answered from one version of its file, and from one that was in
\* it during the call, however many types are tried and whatever the host
\* writes meanwhile: the commands implement DecisionService.
Service == INSTANCE DecisionService WITH
    Answers <- ReasoningHarnessDecision,
    offered <- Deserved(file),
    answer <- IF decision # Nil THEN decision
              ELSE IF raw # Nil THEN Deserved(raw) ELSE Nil

AnswersOneVersion == Service!Spec

\* What may precede a decision in the output.
Shown == {<<>>, <<"live">>, <<"bootstrap">>, <<"request">>}

\* A command that fails has printed nothing that could be taken for an answer,
\* and one that succeeds has printed the decision twice, last; what it says of
\* the snapshot before is said of the kind it took.
OutputIsHonest ==
    /\ status = "error" => output = <<>>
    /\ status = "ok" =>
          /\ decision # Nil
          /\ \E shown \in Shown : output = shown \o <<"decision", "json">>
    /\ (output # <<>> /\ Head(output) = "live") =>
          request = CodexLiveSnapshotToHarnessRequest(raw.live)
    /\ (output # <<>> /\ Head(output) = "bootstrap") =>
          request = CodexBootstrapRequest

\* A snapshot that carries the counters of a stalled session is never answered
\* without them, although it may also be decoded as a kind that has none.
CountersAreUsed ==
    (/\ command.name = "decide-codex-snapshot"
     /\ decision # Nil
     /\ Decodes(raw, "signal")
     /\ raw.signal.no_progress_iteration_count >= UpstreamPolicy.no_progress_limit)
        => decision.mode = "Handoff"

\* The next call of the command can be answered.
Answerable ==
    /\ Deserved(file) # Nil
    /\ command.name = "decide-workspace" =>
          /\ disk.workspace \in {"git", "plain"}
          /\ command.objective_file => disk.objective_file

\* A host that calls again after an error or a kill is answered in the end if
\* its files are left in order and its processes alone.
HostIsAnswered ==
    (<>[]Answerable /\ <>[][~Kill]_vars) => []<>(status = "ok")

-----------------------------------------------------------------------------
(* Why the safety properties hold: what is true between any two steps.     *)

FileCommands == {"decide-file", "decide-codex-snapshot"}

EarlySteps ==
    {"read", "request", "signal", "live", "bootstrap", "build", "exists", "is_dir",
     "objective", "git"}

LateSteps == {"decide", "print", "json", "exit"}

CliTypeOK ==
    /\ command \in Commands
    /\ file \in Contents \cup {Missing, Torn}
    /\ writing \in Contents \cup {Nil}
    /\ disk \in [workspace : Workspaces, objective_file : BOOLEAN]
    /\ pc \in EarlySteps \cup LateSteps
    /\ status \in {"none", "running", "ok", "error", "killed"}
    /\ raw \in Contents \cup {Torn, Nil}
    /\ request \in ReasoningHarnessRequest \cup {Nil}
    /\ decision \in ReasoningHarnessDecision \cup {Nil}

\* A process is at a step of its own command, and has read the file of a
\* command that has one.
StepIsOfCommand ==
    /\ pc = "build" => command.name = "decide-sample"
    /\ pc = "read" => command.name \in FileCommands
    /\ pc = "request" => command.name = "decide-file"
    /\ pc \in {"signal", "live", "bootstrap"} => command.name = "decide-codex-snapshot"
    /\ pc \in {"exists", "is_dir", "objective", "git"} => command.name = "decide-workspace"
    /\ raw = Nil <=> command.name \notin FileCommands \/ pc = "read"

\* What the steps before have ruled out.
StepIsEarned ==
    /\ pc \in {"live", "bootstrap"} => ~Decodes(raw, "signal")
    /\ pc = "bootstrap" => ~Decodes(raw, "live")
    /\ pc = "git" => command.objective # command.objective_file

\* The request is the one the text read deserves, and the decision its answer.
RequestIsDeserved ==
    /\ pc \in EarlySteps => request = Nil
    /\ pc \in LateSteps => request # Nil /\ request = DeservedRequest(raw)
    /\ decision = IF pc \in {"print", "json", "exit"}
                  THEN DecideReasoningHarness(request) ELSE Nil

\* The output is that of the steps taken.
OutputIsOfStep ==
    /\ pc \in EarlySteps => output = <<>>
    /\ \E shown \in Shown :
        /\ output = CASE pc = "json" -> shown \o <<"decision">>
                      [] pc = "exit" -> shown \o <<"decision", "json">>
                      [] pc \notin {"json", "exit"} -> shown
        /\ shown = <<"live">> => request = CodexLiveSnapshotToHarnessRequest(raw.live)
        /\ shown = <<"bootstrap">> => request = CodexBootstrapRequest
    /\ status = "error" => pc \in EarlySteps
    /\ status = "ok" => pc = "exit"

CliInv ==
    /\ CliTypeOK
    /\ StepIsOfCommand
    /\ StepIsEarned
    /\ RequestIsDeserved
    /\ OutputIsOfStep
=============================================================================
