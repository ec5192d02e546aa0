--------------------------- MODULE DeploymentWorkflow --------------------------
(***************************************************************************)
(* Deployment workflows (DeploymentWorkflowService, deployment_workflow.py)*)
(* and the file they are saved to.  A request runs one step of a workflow  *)
(* and saves all of them: dump one after the other, truncate the file,     *)
(* write; each of these can raise.  Requests run on threads without a lock,*)
(* and a file that cannot be parsed is ignored at the start of the server. *)
(* The input of a step, the current step and the status are set with the   *)
(* output, and are left out.                                               *)
(*                                                                         *)
(* A definition placed just before another, with its name and a suffix, is *)
(* a variant with a plausible mistake, which the properties must notice.   *)
(***************************************************************************)
EXTENDS Naturals, FiniteSets

CONSTANTS
  Workflows,   \* workflow ids
  LastStep,    \* the last step, 7 in the code
  Threads,     \* handler threads
  NoWorkflow

ASSUME WorkflowAssumption == LastStep \in Nat \ {0} /\ NoWorkflow \notin Workflows

VARIABLES
  mem,         \* _workflows: the steps mem[w] has an output of; NotKnown
  file,        \* [state, data]: "parses", or "torn": missing, empty, cut off
               \*   or mixed; "empty": truncated and not written since
  request,     \* request[h]: [pc, wf, n, keys, snap]; wf: its workflow, NoWorkflow
               \*   once the one it works on was deleted; n: the step, 0 for a
               \*   deletion; keys: the workflows there when its dump began;
               \*   snap: those dumped
  solo,        \* history: the request whose save no other save has met, and in
               \*   whose dump no workflow was made or deleted
  clean,       \* history: the last save that wrote did not raise and was like that
  failed       \* history, while clean: <<w, n>> for each request whose save raised
               \*   since the last that wrote

workflowVars == <<mem, file, request, solo, clean, failed>>

WorkflowSteps == 1..LastStep
NotKnown  == {0}
NoneKnown == [w \in Workflows |-> NotKnown]
NoRequest == [pc |-> "idle", wf |-> NoWorkflow, n |-> 0,
              keys |-> {}, snap |-> NoneKnown]

Outputs == (SUBSET WorkflowSteps) \cup {NotKnown}
InMemory == {w \in Workflows : mem[w] # NotKnown}

RequestType ==
  [pc : {"idle", "computing", "dump", "dumping", "shifted", "truncate", "write"},
   wf : Workflows \cup {NoWorkflow}, n : 0..LastStep, keys : SUBSET Workflows,
   snap : [Workflows -> Outputs]]

WorkflowTypeOK ==
  /\ mem \in [Workflows -> Outputs]
  /\ file \in [state : {"parses", "torn", "empty"}, data : [Workflows -> Outputs]]
  /\ request \in [Threads -> RequestType]
  /\ solo \subseteq Threads /\ clean \in BOOLEAN
  /\ failed \subseteq Workflows \X (0..LastStep)

WorkflowInit ==
  /\ mem = NoneKnown
  /\ file = [state |-> "torn", data |-> NoneKnown]
  /\ request = [h \in Threads |-> NoRequest]
  /\ solo = {} /\ clean = TRUE /\ failed = {}

-------------------------------------------------------------------------------
Dumping == {h \in Threads : request[h].pc \in {"dumping", "shifted"}}
Saving  == Dumping \cup {h \in Threads : request[h].pc \in {"truncate", "write"}}

(* A workflow is made or deleted: the dict that is being dumped shifts     *)
(* under whoever dumps it.                                                 *)
Shift(r) == IF r.pc = "dumping" THEN [r EXCEPT !.pc = "shifted"] ELSE r

(* _get_or_create and _get_workflow.                                       *)
Make(w) ==
  /\ mem' = [mem EXCEPT ![w] = @ \cap WorkflowSteps]
  /\ solo' = IF w \in InMemory THEN solo ELSE solo \ Dumping

Shifted(w) == IF w \in InMemory THEN request ELSE [g \in Threads |-> Shift(request[g])]

(* GET .../next-step makes a workflow that is not saved.                   *)
NextStep(w) ==
  /\ w \notin InMemory
  /\ Make(w)
  /\ request' = Shifted(w)
  /\ UNCHANGED <<file, clean, failed>>

(* Step n of a workflow, which is made if it is not known.  Any step can   *)
(* be run at any time.                                                     *)
StepBegin(h, w, n) ==
  /\ request[h].pc = "idle"
  /\ Make(w)
  /\ request' = [Shifted(w) EXCEPT ![h] =
       [NoRequest EXCEPT !.pc = "computing", !.wf = w, !.n = n]]
  /\ UNCHANGED <<file, clean, failed>>

StepDone(h) ==
  LET w == request[h].wf
      n == request[h].n IN
  /\ request[h].pc = "computing"
  /\ mem' = IF w = NoWorkflow THEN mem ELSE [mem EXCEPT ![w] = @ \cup {n}]
  /\ request' = [request EXCEPT ![h].pc = "dump"]
  /\ UNCHANGED <<file, solo, clean, failed>>

(* The computation raises (a throughput of zero): nothing is saved.        *)
StepRaises(h) ==
  /\ request[h].pc = "computing"
  /\ request' = [request EXCEPT ![h] = NoRequest]
  /\ UNCHANGED <<mem, file, solo, clean, failed>>

(* A request that is computing keeps the workflow it looked up.            *)
Forget(h, w, pc) ==
  /\ request[h].pc = "idle" /\ w \in InMemory
  /\ mem' = [mem EXCEPT ![w] = NotKnown]
  /\ request' = [g \in Threads |->
       IF g = h THEN [NoRequest EXCEPT !.pc = pc, !.wf = w]
       ELSE IF request[g].wf = w /\ request[g].n # 0
            THEN [Shift(request[g]) EXCEPT !.wf = NoWorkflow] ELSE Shift(request[g])]
  /\ solo' = solo \ Dumping
  /\ failed' = failed \ ({w} \X WorkflowSteps)
  /\ UNCHANGED <<file, clean>>

DeleteUnsaved(h, w) == Forget(h, w, "idle")

Delete(h, w) == Forget(h, w, "dump")

-------------------------------------------------------------------------------
(* What the file lacks, or has too much, if the save of h raises.          *)
Owed(h) ==
  IF request[h].wf = NoWorkflow THEN {} ELSE {<<request[h].wf, request[h].n>>}

Dump(h) ==
  /\ request[h].pc = "dump"
  /\ request' = [request EXCEPT ![h] = [@ EXCEPT !.pc = "dumping", !.keys = InMemory]]
  /\ solo' = IF Saving = {} THEN {h} ELSE {}
  /\ UNCHANGED <<mem, file, clean, failed>>

(* The iteration goes on while the dict has the size it had.  Where a      *)
(* workflow was deleted and another made, it may leave some out, come to   *)
(* one twice, or raise.                                                    *)
GoesOn(h) ==
  \/ request[h].pc = "dumping"
  \/ request[h].pc = "shifted" /\ Cardinality(InMemory) = Cardinality(request[h].keys)

DumpItem(h, w) ==
  /\ GoesOn(h) /\ w \in InMemory
  /\ request[h].pc = "dumping" => request[h].snap[w] = NotKnown
  /\ request' = [request EXCEPT ![h].snap[w] = mem[w]]
  /\ UNCHANGED <<mem, file, solo, clean, failed>>

DumpEnd(h) ==
  /\ GoesOn(h)
  /\ request[h].pc = "dumping" => \A w \in InMemory : request[h].snap[w] # NotKnown
  /\ request' = [request EXCEPT ![h] = [@ EXCEPT !.pc = "truncate", !.keys = {}]]
  /\ UNCHANGED <<mem, file, solo, clean, failed>>

Truncate(h) ==
  /\ request[h].pc = "truncate"
  /\ file' = [state |-> "empty", data |-> NoneKnown]
  /\ request' = [request EXCEPT ![h].pc = "write"]
  /\ UNCHANGED <<mem, solo, clean, failed>>

(* Over what another save has written since the truncation, a shorter text *)
(* leaves the end of the longer one.                                       *)
Write(h) ==
  /\ request[h].pc = "write"
  /\ \E state \in IF file.state = "empty" THEN {"parses"} ELSE {"parses", "torn"} :
       file' = [state |-> state,
                data |-> IF state = "torn" THEN NoneKnown ELSE request[h].snap]
  /\ request' = [request EXCEPT ![h] = NoRequest]
  /\ clean' = (h \in solo)
  /\ failed' = {}
  /\ solo' = solo \ {h}
  /\ UNCHANGED mem

(* The answer is a 500; what the request did stays in memory.              *)
SaveRaises(h) ==
  /\ request' = [request EXCEPT ![h] = NoRequest]
  /\ solo' = solo \ {h}
  /\ UNCHANGED mem

(* The dict has shifted.                                                   *)
DumpRaises(h) ==
  /\ request[h].pc = "shifted"
  /\ SaveRaises(h)
  /\ failed' = IF clean THEN failed \cup Owed(h) ELSE failed
  /\ UNCHANGED <<file, clean>>

(* The file cannot be opened.                                              *)
OpenRaises(h) ==
  /\ request[h].pc = "truncate"
  /\ SaveRaises(h)
  /\ failed' = IF clean THEN failed \cup Owed(h) ELSE failed
  /\ UNCHANGED <<file, clean>>

(* Nothing, or only a part, is written.                                    *)
WriteRaises(h) ==
  /\ request[h].pc = "write"
  /\ SaveRaises(h)
  /\ file' \in {file, [state |-> "torn", data |-> NoneKnown]}
  /\ clean' = FALSE /\ failed' = {}

(* The server starts again and loads the file, if it parses.               *)
LoadWorkflows ==
  /\ mem' = IF file.state = "parses" THEN file.data ELSE NoneKnown
  /\ request' = [h \in Threads |-> NoRequest]
  /\ solo' = {} /\ clean' = TRUE /\ failed' = {}
  /\ UNCHANGED file

WorkflowStep(h) ==
  \/ StepDone(h) \/ StepRaises(h) \/ Dump(h) \/ (\E w \in Workflows : DumpItem(h, w))
  \/ DumpEnd(h) \/ Truncate(h) \/ Write(h) \/ DumpRaises(h)

-------------------------------------------------------------------------------
(* PROPERTY.  What was answered is durable.  When no request is in flight  *)
(* and the last save that wrote was whole and met no other, the server     *)
(* would load from the file the outputs of all the workflows in memory and *)
(* no deleted one, except for requests whose own save raised since (they   *)
(* answered 500); that save makes up for all that raised before it, and    *)
(* for a file that a crash, a full disk or two saves at once have torn.    *)
Loaded(w) == IF file.state = "parses" THEN file.data[w] \cap WorkflowSteps ELSE {}

SavedOrFailed ==
  \A w \in Workflows :
    /\ \A n \in mem[w] \cap WorkflowSteps : n \in Loaded(w) \/ <<w, n>> \in failed
    /\ Loaded(w) \subseteq mem[w] \/ <<w, 0>> \in failed

OutputsAreDurable ==
  clean /\ (\A h \in Threads : request[h].pc = "idle") => SavedOrFailed
===============================================================================
