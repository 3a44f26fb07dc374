----------------------------- MODULE EngineRuntime -----------------------------
(***************************************************************************)
(* One transcription by an engine service: the engine is probed, its       *)
(* command is run in a directory of the run within a time limit, and what  *)
(* the command left there is validated, validated again for its handoff,   *)
(* and read once more into the result of the execution.                    *)
(*                                                                         *)
(* The command is a tree of processes that go on by themselves.  A process *)
(* may close its output, leave the session, or ignore a termination.       *)
(***************************************************************************)
EXTENDS Naturals, Sequences, FiniteSets

CONSTANTS
  Child,       \* the descendants the command may start
  Path,        \* the places of outputs, below the one of the expected output
  MaxOutputs   \* bound of the code on the outputs of a result

Adapter == {"audiveris", "homr", "clarity"}
Process == {"command"} \union Child
Output  == {"expected"} \union Path

ASSUME ChildAssumption == "command" \notin Child

\* Not there; a score; no safe score; no safe container of a score.
Content == {"none", "score", "unsafe", "broken"}

VARIABLES
  adapter,    \* which service this is
  step,       \* how far the call has come
  proc,       \* proc[p]: what a process is at
  status,     \* the exit status of the command
  out,        \* out[f]: what the run's directory holds
  todo,       \* the outputs that have yet to be validated, verified or read
  evidence,   \* evidence[f]: what the validator accepted
  read,       \* result[f]: what the execution's result says of f
  loose       \* the processes that closed their output before they ended

runtimeVars == <<adapter, step, proc, status, out, todo, evidence, read, loose>>
outputs == <<todo, evidence, read>>

-----------------------------------------------------------------------------

NoProcess == [alive |-> FALSE, inGroup |-> FALSE, open |-> FALSE, stubborn |-> FALSE]

Started(stubborn) ==
  [alive |-> TRUE, inGroup |-> TRUE, open |-> TRUE, stubborn |-> stubborn]

Alive(p) == proc[p].alive

RuntimeInit ==
  /\ adapter \in Adapter
  /\ step = "probing"
  /\ proc = [p \in Process |-> NoProcess]
  /\ status = 0
  /\ out = [f \in Output |-> "none"]
  /\ todo = {} /\ loose = {}
  /\ evidence = [f \in Output |-> "none"]
  /\ read = [f \in Output |-> "none"]

\* What a probe may find, in the order it looks.
AudiverisFindings ==
  <<"disabled", "no command", "timed out", "not run", "exit status", "other version", "ready">>
HomrFindings ==
  <<"disabled", "no command", "no package", "other version", "no model", "other model",
    "timed out", "not run", "exit status", "ready">>
ClarityFindings ==
  <<"disabled", "no python", "no source", "other revision", "no entry point", "no model",
    "other model", "timed out", "not run", "exit status", "no output", "other torch", "gpu",
    "ready">>

Findings ==
  CASE adapter = "audiveris" -> AudiverisFindings
    [] adapter = "homr"      -> HomrFindings
    [] adapter = "clarity"   -> ClarityFindings

\* A probe that is not ready ends the call.
Probe ==
  /\ step = "probing"
  /\ \E i \in DOMAIN Findings : step' = IF Findings[i] = "ready" THEN "starting" ELSE "failed"
  /\ UNCHANGED <<adapter, proc, status, out, outputs, loose>>

\* HOMR and Clarity take no directory in which an output is.
StartCommand ==
  /\ step = "starting"
  /\ \/ /\ adapter # "audiveris" => out["expected"] = "none"
        /\ \E stubborn \in BOOLEAN : proc' = [proc EXCEPT !["command"] = Started(stubborn)]
        /\ step' = "running"
     \/ step' = "failed" /\ UNCHANGED proc
  /\ UNCHANGED <<adapter, status, out, outputs, loose>>

-----------------------------------------------------------------------------
(* The processes of the command. *)

Spawn ==
  /\ \E p \in Process, c \in Child, stubborn \in BOOLEAN :
       /\ Alive(p) /\ proc[c] = NoProcess
       /\ proc' = [proc EXCEPT ![c] = [Started(stubborn) EXCEPT !.inGroup = proc[p].inGroup,
                                                                !.open = proc[p].open]]
       /\ loose' = IF proc[p].open THEN loose ELSE loose \union {c}
  /\ UNCHANGED <<adapter, step, status, out, outputs>>

CloseOutput(p) ==
  /\ Alive(p) /\ proc[p].open
  /\ proc' = [proc EXCEPT ![p].open = FALSE]
  /\ loose' = loose \union {p}
  /\ UNCHANGED <<adapter, step, status, out, outputs>>

LeaveSession(p) ==
  /\ Alive(p) /\ p # "command" /\ proc[p].inGroup
  /\ proc' = [proc EXCEPT ![p].inGroup = FALSE]
  /\ UNCHANGED <<adapter, step, status, out, outputs, loose>>

WriteOutput(p) ==
  /\ Alive(p)
  /\ \E f \in Output, c \in Content \ {"none"} :
       /\ c = "broken" => adapter = "audiveris"
       /\ out' = [out EXCEPT ![f] = c]
  /\ UNCHANGED <<adapter, step, proc, status, outputs, loose>>

Ended(procs, dead) ==
  [p \in Process |-> IF p \in dead THEN [procs[p] EXCEPT !.alive = FALSE] ELSE procs[p]]

Exit(p) ==
  /\ Alive(p)
  /\ proc' = Ended(proc, {p})
  /\ IF p = "command" THEN status' \in {0, 1} ELSE UNCHANGED status
  /\ UNCHANGED <<adapter, step, out, outputs, loose>>

EngineStep ==
  Spawn \/ \E p \in Process : CloseOutput(p) \/ LeaveSession(p) \/ WriteOutput(p) \/ Exit(p)

-----------------------------------------------------------------------------
(* Waiting for the command. *)

\* Mutant: the wait is over when the command itself has ended.
CommandEnded == ~Alive("command")

\* The captured output is at its end: nobody is left who could write to it.
Communicated == ~Alive("command") /\ \A p \in Process : Alive(p) => ~proc[p].open

\* Mutant: a signal reaches the command only.
CommandOnly == {"command"}

Group == {p \in Process : Alive(p) /\ proc[p].inGroup}

Collected ==
  IF adapter = "audiveris" THEN {f \in Output : out[f] # "none"} ELSE {"expected"}

\* The command has ended by itself: its outputs are looked for.
Complete ==
  /\ step = "running" /\ Communicated
  /\ IF status = 0 /\ \E f \in Collected : out[f] # "none"
     THEN step' = "validating" /\ todo' = Collected
     ELSE step' = "failed" /\ UNCHANGED todo
  /\ UNCHANGED <<adapter, proc, status, out, evidence, read, loose>>

\* Time is up.  Audiveris asks the whole session to end and waits a little
\* longer; the other two kill the command alone.
TimeOut ==
  /\ step = "running" /\ ~Communicated
  /\ IF adapter = "audiveris"
     THEN proc' = Ended(proc, {p \in Group : ~proc[p].stubborn}) /\ step' = "terminating"
     ELSE proc' = Ended(proc, {"command"}) /\ step' = "timedOut"
  /\ status' = 1
  /\ UNCHANGED <<adapter, out, outputs, loose>>

\* Termination was enough, or what is left of the session is killed.
Terminated ==
  /\ step = "terminating"
  /\ IF Communicated THEN step' = "timedOut" /\ UNCHANGED proc
                     ELSE step' = "killed" /\ proc' = Ended(proc, Group)
  /\ UNCHANGED <<adapter, status, out, outputs, loose>>

\* The last wait has no limit.
Killed ==
  /\ step = "killed" /\ Communicated
  /\ step' = "timedOut"
  /\ UNCHANGED <<adapter, proc, status, out, outputs, loose>>

-----------------------------------------------------------------------------
(* The outputs. *)

ContainerHolds(c) == c # "broken"
ScoreHolds(c)     == c # "unsafe"

AudiverisAccepts(c) == c # "none" /\ ContainerHolds(c) /\ ScoreHolds(c)
HomrAccepts(c)      == c # "none" /\ ScoreHolds(c)
ClarityAccepts(c)   == c # "none" /\ ScoreHolds(c)

Accepted(c) ==
  CASE adapter = "audiveris" -> AudiverisAccepts(c)
    [] adapter = "homr"      -> HomrAccepts(c)
    [] adapter = "clarity"   -> ClarityAccepts(c)

\* Each output is validated, and validated again before it is handed off.
Validate ==
  /\ step = "validating"
  /\ \E f \in todo :
       IF Accepted(out[f])
       THEN step' = "verifying" /\ evidence' = [evidence EXCEPT ![f] = out[f]] /\ todo' = todo
       ELSE step' = "failed" /\ UNCHANGED <<evidence, todo>>
  /\ UNCHANGED <<adapter, proc, status, out, read, loose>>

Pending == {f \in todo : evidence[f] # "none"}

HandedOff(left) == IF left = {} THEN "reading" ELSE "validating"

Verify ==
  /\ step = "verifying"
  /\ \E f \in Pending :
       IF out[f] # evidence[f] THEN step' = "failed" /\ UNCHANGED todo
       ELSE /\ step' = HandedOff(todo \ {f})
            /\ todo' = IF todo = {f} THEN {g \in Output : evidence[g] # "none"} ELSE todo \ {f}
  /\ UNCHANGED <<adapter, proc, status, out, evidence, read, loose>>

\* The execution reads what is there now, and does not look at the evidence.
ReadOutput ==
  /\ step = "reading"
  /\ IF Cardinality({f \in Output : evidence[f] # "none"}) > MaxOutputs
     THEN step' = "failed" /\ UNCHANGED <<read, todo>>
     ELSE \E f \in todo :
            /\ read' = [read EXCEPT ![f] = out[f]]
            /\ todo' = todo \ {f}
            /\ step' = IF todo = {f} THEN "done" ELSE "reading"
  /\ UNCHANGED <<adapter, proc, status, out, evidence, loose>>

ServiceStep ==
  \/ Probe \/ StartCommand \/ Complete \/ TimeOut \/ Terminated \/ Killed
  \/ Validate \/ Verify \/ ReadOutput

RuntimeNext == EngineStep \/ ServiceStep

RuntimeSpec == RuntimeInit /\ [][RuntimeNext]_runtimeVars

-----------------------------------------------------------------------------

\* When an Audiveris call has timed out, the command has ended, and whatever
\* of it still runs has left its session, or closed its output while somebody
\* ignored the termination.  (runtime _run_bounded_process.)
TimedOutTreeIsDead ==
  step = "timedOut" /\ adapter = "audiveris" =>
    /\ ~Alive("command")
    /\ \A p \in Process : Alive(p) /\ proc[p].inGroup =>
         p \in loose /\ \E q \in Process : proc[q].stubborn

\* A result names exactly the bytes the validator accepted, though it is read
\* later and from files a process may rewrite, unless a process closed its
\* output and ran on.  (controlled_engine_execution execute_controlled_engine_once
\* against runtime transcribe_file.)
ResultWasValidated ==
  step = "done" /\ loose = {} =>
    /\ read = evidence
    /\ \E f \in Output : read[f] # "none"
    /\ \A f \in Output : read[f] # "none" => Accepted(read[f])

=============================================================================
