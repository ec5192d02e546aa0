------------------------------ MODULE AgentFleet -------------------------------
(***************************************************************************)
(* The registry of node agents (AgentRegistry, agent_protocol.py) together *)
(* with the background loop that looks for silent agents, one of the       *)
(* engines of PeriodicEngine.  Every operation of the registry runs under  *)
(* its lock, so each is one step; the loop calls check_stale_agents in its *)
(* body.  Nothing in the shipped application starts that loop.             *)
(*                                                                         *)
(* A definition placed just before another, with its name and a suffix, is *)
(* a variant with a plausible mistake, which the properties must notice.   *)
(***************************************************************************)
EXTENDS PeriodicEngine, Sequences

CONSTANTS
  Agents,      \* agent ids handed out by register()
  Statuses,    \* the statuses a PATCH request sets
  Timeout,     \* _heartbeat_timeout_seconds, in ticks of the clock
  MaxEvents    \* bound: the status events of one agent

VARIABLES
  status,      \* status[a], None until the agent has registered
  silence,     \* silence[a]: ticks since last_heartbeat, up to Timeout + 1
  events       \* events[a]: the status events of agent a, oldest first

agentVars == <<status, silence, events>>
vars == <<engineVars, agentVars>>

AllStatuses == {"registered", "active", "inactive", "degraded", "unreachable", "decommissioned"}

ASSUME FleetAssumption ==
  Statuses \subseteq AllStatuses /\ None \notin AllStatuses /\ Timeout \in Nat /\ MaxEvents \in Nat

TypeOK ==
  /\ EngineTypeOK
  /\ status \in [Agents -> AllStatuses \cup {None}]
  /\ silence \in [Agents -> 0..Timeout + 1]
  /\ events \in [Agents -> Seq([old : AllStatuses \cup {None}, new : AllStatuses])]

Init ==
  /\ EngineInit
  /\ status = [a \in Agents |-> None]
  /\ silence = [a \in Agents |-> 0]
  /\ events = [a \in Agents |-> <<>>]

-------------------------------------------------------------------------------
(* Sets the status of an agent and records the change, if it is one.       *)
SetStatus(a, new) ==
  /\ status' = [status EXCEPT ![a] = new]
  /\ events' = IF status[a] = new THEN events
               ELSE [events EXCEPT ![a] = Append(@, [old |-> status[a], new |-> new])]

Register(a) ==
  /\ status[a] = None
  /\ SetStatus(a, "registered")
  /\ silence' = [silence EXCEPT ![a] = 0]

(* A heartbeat or a telemetry report: the agent is active, whatever it was *)
(* (a decommissioned agent included).                                      *)
HeartbeatUnrecorded(a) ==
  /\ status[a] # None
  /\ status' = [status EXCEPT ![a] = "active"]
  /\ silence' = [silence EXCEPT ![a] = 0]
  /\ UNCHANGED events

Heartbeat(a) ==
  /\ status[a] # None
  /\ SetStatus(a, "active")
  /\ silence' = [silence EXCEPT ![a] = 0]

UpdateStatus(a, new) ==
  /\ status[a] # None
  /\ SetStatus(a, new)
  /\ UNCHANGED silence

Stale(a) == /\ status[a] \notin {None, "decommissioned", "unreachable"}
            /\ silence[a] > Timeout

CheckStaleAgentsActive ==
  LET silent == {a \in Agents : Stale(a) /\ status[a] = "active"} IN
  /\ status' = [a \in Agents |-> IF a \in silent THEN "unreachable" ELSE status[a]]
  /\ events' = [a \in Agents |->
       IF a \in silent THEN Append(events[a], [old |-> status[a], new |-> "unreachable"])
       ELSE events[a]]
  /\ UNCHANGED silence

CheckStaleAgents ==
  /\ status' = [a \in Agents |-> IF Stale(a) THEN "unreachable" ELSE status[a]]
  /\ events' = [a \in Agents |->
       IF Stale(a) THEN Append(events[a], [old |-> status[a], new |-> "unreachable"])
       ELSE events[a]]
  /\ UNCHANGED silence

Tick ==
  /\ kind = "checker"
  /\ \E a \in Agents : status[a] # None /\ silence[a] <= Timeout
  /\ silence' = [a \in Agents |->
       IF status[a] # None /\ silence[a] <= Timeout THEN silence[a] + 1 ELSE silence[a]]
  /\ UNCHANGED <<status, events>>

-------------------------------------------------------------------------------
LoopCycle(l) ==
  /\ Cycle(l)
  /\ IF kind = "checker" THEN CheckStaleAgents ELSE UNCHANGED agentVars

LoopStep(l) == LoopCycle(l) \/ (Test(l) /\ UNCHANGED agentVars)

(* The agents concern one of the engines only.                             *)
AgentStep(a) ==
  /\ kind = "checker"
  /\ Len(events[a]) < MaxEvents
  /\ Register(a) \/ Heartbeat(a) \/ \E new \in Statuses : UpdateStatus(a, new)
  /\ UNCHANGED engineVars

Next ==
  \/ \E c \in Callers : CallStep(c) /\ UNCHANGED agentVars
  \/ \E l \in Loops : LoopStep(l)
  \/ \E a \in Agents : AgentStep(a)
  \/ Tick /\ UNCHANGED engineVars

(* A thread that can go on does; time passes.  Nothing is assumed of the   *)
(* requests.                                                               *)
Fairness == \A l \in Loops : WF_vars(LoopStep(l))

Spec == Init /\ [][Next]_vars /\ Fairness

-------------------------------------------------------------------------------
(* PROPERTY.  The status events of an agent tell its history: each is a    *)
(* change, it starts from the status the one before it set, and the last   *)
(* one is the status the agent has, whether a heartbeat, a request or the  *)
(* checker changed it.                                                     *)
EventsTellStatus ==
  \A a \in Agents :
    LET log == events[a] IN
      /\ \A i \in 1..Len(log) :
           /\ log[i].old # log[i].new
           /\ log[i].old = IF i = 1 THEN None ELSE log[i - 1].new
      /\ status[a] = IF log = <<>> THEN None ELSE log[Len(log)].new

(* PROPERTY.  A silent agent is noticed: while the loop of the checker is  *)
(* alive and its flag is on, an agent past the timeout becomes             *)
(* unreachable, unless it is heard of, decommissioned or the checker is    *)
(* stopped.                                                                *)
Watched == kind = "checker" /\ on /\ Live # {}
SilentAgentIsNoticed ==
  \A a \in Agents :
    (Watched /\ Stale(a)) ~> (~Stale(a) \/ ~Watched)
===============================================================================
