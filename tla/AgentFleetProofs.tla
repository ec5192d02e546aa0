---------------------------- MODULE AgentFleetProofs ---------------------------
(***************************************************************************)
(* Proofs about PeriodicEngine and AgentFleet, for any number of callers,  *)
(* loops and agents.                                                       *)
(***************************************************************************)
EXTENDS AgentFleet, TLAPS

(* What a call that nothing has overlapped knows, what a stop that waits   *)
(* knows, and why a stopped engine with a loop still has a stop in flight. *)
AloneIsAlone   == \A c \in alone : Busy = {c}
AloneSeesNone  == \A c \in alone : call[c] \in {"starting", "flagged"} => Known = {}
AloneIsOn      == \A c \in alone : call[c] = "flagged" => on
JoinWaitsForIt == \A c \in Callers : call[c] = "joining" => Known \subseteq {joined[c]}
StopIsComing   == ~on /\ Known # {} => \E c \in Callers : call[c] \in {"signalled", "joining"}

EngineInv ==
  /\ EngineTypeOK
  /\ AloneIsAlone /\ AloneSeesNone /\ AloneIsOn
  /\ JoinWaitsForIt /\ OneLoop /\ StopIsComing

LEMMA EngineInitially == EngineInit => EngineInv
  BY ZenonT(40), KindsAssumption, NoneAssumption
  DEF EngineInit, EngineInv, EngineTypeOK, AloneIsAlone, AloneSeesNone, AloneIsOn,
      JoinWaitsForIt, OneLoop, StopIsComing, Known, Live

(* A start that finds the engine stopped, with no other call in flight,    *)
(* finds no loop.                                                          *)
LEMMA StoppedMeansNone ==
  ASSUME EngineInv, ~IsRunning, Busy = {}
  PROVE  Known = {}
<1>1. CASE kind = "monitor"
  BY <1>1, NoneAssumption
  DEF EngineInv, EngineTypeOK, OneLoop, IsRunning, HandleAlive, Known, Live
<1>2. CASE kind # "monitor"
  BY <1>2 DEF EngineInv, StopIsComing, IsRunning, Busy
<1>3. QED BY <1>1, <1>2

LEMMA StartCheckKeeps ==
  ASSUME EngineInv, NEW c \in Callers, StartCheck(c)
  PROVE  EngineInv'
<1> USE DEF StartCheck, Begin
<1>1. /\ Live' = Live /\ Known' = Known /\ handle' = handle /\ on' = on
      /\ call' = [call EXCEPT ![c] = "starting"] /\ joined' = joined
  BY DEF Live, Known
<1>2. Busy' = Busy \cup {c}
  BY <1>1 DEF Busy, EngineInv, EngineTypeOK
<1>3. EngineTypeOK'
  BY <1>1 DEF EngineInv, EngineTypeOK
<1>4. AloneIsAlone'
  BY <1>2 DEF AloneIsAlone, EngineInv
<1>5. AloneSeesNone' /\ AloneIsOn'
  BY <1>1, StoppedMeansNone DEF AloneSeesNone, AloneIsOn, EngineInv, EngineTypeOK
<1>6. JoinWaitsForIt' /\ OneLoop'
  BY <1>1 DEF JoinWaitsForIt, OneLoop, EngineInv, EngineTypeOK
<1>7. StopIsComing'
  BY <1>1 DEF StopIsComing, EngineInv, EngineTypeOK
<1>8. QED BY <1>3, <1>4, <1>5, <1>6, <1>7 DEF EngineInv

LEMMA SetRunningKeeps ==
  ASSUME EngineInv, NEW c \in Callers, SetRunning(c)
  PROVE  EngineInv'
<1> USE DEF SetRunning
<1>1. Live' = Live /\ Known' = Known /\ Busy' = Busy
  BY DEF Live, Known, Busy, EngineInv, EngineTypeOK
<1>2. EngineTypeOK'
  BY <1>1 DEF EngineInv, EngineTypeOK
<1>3. AloneIsAlone' /\ AloneSeesNone' /\ AloneIsOn'
  BY <1>1 DEF AloneIsAlone, AloneSeesNone, AloneIsOn, EngineInv, EngineTypeOK
<1>4. JoinWaitsForIt' /\ OneLoop' /\ StopIsComing'
  BY <1>1 DEF JoinWaitsForIt, OneLoop, StopIsComing, EngineInv, EngineTypeOK
<1>5. QED BY <1>2, <1>3, <1>4 DEF EngineInv

(* A start that was never alone leaves only contested loops; one that was  *)
(* leaves its own.                                                         *)
LEMMA SpawnKeeps ==
  ASSUME EngineInv, NEW c \in Callers, Spawn(c)
  PROVE  EngineInv'
<1>1. PICK l \in Loops :
        /\ loop[l] = "dead" /\ loop' = [loop EXCEPT ![l] = "ready"] /\ handle' = l
        /\ contested' = IF c \in alone THEN contested ELSE Live \cup {l}
  BY DEF Spawn
<1>2. /\ call[c] = "flagged" /\ call' = [call EXCEPT ![c] = "idle"]
      /\ alone' = alone \ {c} /\ UNCHANGED <<kind, on, joined, abandoned>>
  BY DEF Spawn
<1>3. Live' = Live \cup {l} /\ l \notin Live
  BY <1>1 DEF Live, EngineInv, EngineTypeOK
<1>4. Busy' = Busy \ {c} /\ c \in Busy
  BY <1>2 DEF Busy, EngineInv, EngineTypeOK
<1>5. EngineTypeOK'
  <2>1. loop' \in [Loops -> {"dead", "ready", "cycle"}] /\ handle' \in Loops
    BY <1>1 DEF EngineInv, EngineTypeOK
  <2>2. contested' \subseteq Live' /\ abandoned' \subseteq Live'
    BY <1>1, <1>2, <1>3 DEF EngineInv, EngineTypeOK
  <2>3. QED BY <1>2, <2>1, <2>2 DEF EngineInv, EngineTypeOK
<1>6. CASE c \in alone
  <2>1. Busy = {c} /\ Known = {} /\ on /\ alone' = {}
    BY <1>2, <1>6 DEF EngineInv, AloneIsAlone, AloneSeesNone, AloneIsOn
  <2>2. Known' = {l}
    BY <1>1, <1>2, <1>3, <1>6, <2>1 DEF Known, EngineInv, EngineTypeOK
  <2>3. \A d \in Callers : call'[d] = "idle"
    BY <1>2, <2>1 DEF Busy, EngineInv, EngineTypeOK
  <2>4. AloneIsAlone' /\ AloneSeesNone' /\ AloneIsOn'
    BY <2>1 DEF AloneIsAlone, AloneSeesNone, AloneIsOn
  <2>5. JoinWaitsForIt' /\ OneLoop' /\ StopIsComing'
    BY <1>1, <1>2, <2>1, <2>2, <2>3 DEF JoinWaitsForIt, OneLoop, StopIsComing
  <2>6. QED BY <1>5, <2>4, <2>5 DEF EngineInv
<1>7. CASE c \notin alone
  <2>1. Known' = {}
    BY <1>1, <1>2, <1>3, <1>7 DEF Known
  <2>2. AloneIsAlone' /\ AloneSeesNone' /\ AloneIsOn'
    BY <1>2, <1>4, <1>7, <2>1
    DEF AloneIsAlone, AloneSeesNone, AloneIsOn, EngineInv, EngineTypeOK
  <2>3. JoinWaitsForIt' /\ OneLoop' /\ StopIsComing'
    BY <2>1 DEF JoinWaitsForIt, OneLoop, StopIsComing
  <2>4. QED BY <1>5, <2>2, <2>3 DEF EngineInv
<1>8. QED BY <1>6, <1>7

LEMMA StopSignalKeeps ==
  ASSUME EngineInv, NEW c \in Callers, StopSignal(c)
  PROVE  EngineInv'
<1>1. /\ on' = FALSE /\ UNCHANGED <<kind, handle, loop, joined, contested>>
      /\ Live' = Live
  BY DEF StopSignal, Live
<1>2. CASE kind = "checker"
  <2>1. alone' = {} /\ abandoned' = Live /\ call' = call
    BY <1>2 DEF StopSignal
  <2>2. Known' = {}
    BY <1>1, <2>1 DEF Known
  <2>3. EngineTypeOK'
    BY <1>1, <2>1 DEF EngineInv, EngineTypeOK
  <2>4. QED
    BY <2>1, <2>2, <2>3
    DEF EngineInv, AloneIsAlone, AloneSeesNone, AloneIsOn, JoinWaitsForIt, OneLoop, StopIsComing
<1>3. CASE kind # "checker"
  <2>1. /\ call[c] = "idle" /\ call' = [call EXCEPT ![c] = "signalled"]
        /\ alone' = IF Busy = {} THEN {c} ELSE {}
        /\ abandoned' = abandoned
    BY <1>3 DEF StopSignal, Begin
  <2>2. Known' = Known
    BY <1>1, <2>1 DEF Known
  <2>3. Busy' = Busy \cup {c} /\ call'[c] = "signalled"
    BY <2>1 DEF Busy, EngineInv, EngineTypeOK
  <2>4. EngineTypeOK'
    BY <1>1, <2>1 DEF EngineInv, EngineTypeOK
  <2>5. AloneIsAlone' /\ AloneSeesNone' /\ AloneIsOn'
    BY <2>1, <2>3 DEF AloneIsAlone, AloneSeesNone, AloneIsOn
  <2>6. JoinWaitsForIt' /\ OneLoop' /\ StopIsComing'
    BY <1>1, <2>1, <2>2, <2>3
    DEF JoinWaitsForIt, OneLoop, StopIsComing, EngineInv, EngineTypeOK
  <2>7. QED BY <2>4, <2>5, <2>6 DEF EngineInv
<1>4. QED BY <1>2, <1>3

LEMMA JoinKeeps ==
  ASSUME EngineInv, NEW c \in Callers, Join(c)
  PROVE  EngineInv'
<1>1. /\ call[c] = "signalled" /\ joined' = [joined EXCEPT ![c] = handle]
      /\ call' = [call EXCEPT ![c] = IF handle = None THEN "idle" ELSE "joining"]
      /\ alone' = IF handle = None THEN alone \ {c} ELSE alone
      /\ UNCHANGED <<kind, on, handle, loop, contested, abandoned>>
  BY DEF Join
<1>2. Live' = Live /\ Known' = Known
  BY <1>1 DEF Live, Known
<1>3. EngineTypeOK'
  BY <1>1, <1>2 DEF EngineInv, EngineTypeOK
<1>4. handle = None => Known = {}
  BY NoneAssumption DEF EngineInv, OneLoop, Known, Live
<1>5. Busy' = IF handle = None THEN Busy \ {c} ELSE Busy
  BY <1>1 DEF Busy, EngineInv, EngineTypeOK
<1>6. c \in Busy
  BY <1>1 DEF Busy
<1>7. AloneIsAlone' /\ AloneSeesNone' /\ AloneIsOn'
  BY <1>1, <1>2, <1>5, <1>6
  DEF AloneIsAlone, AloneSeesNone, AloneIsOn, EngineInv, EngineTypeOK
<1>8. JoinWaitsForIt' /\ OneLoop'
  BY <1>1, <1>2, <1>4 DEF JoinWaitsForIt, OneLoop, EngineInv, EngineTypeOK
<1>9. StopIsComing'
  BY <1>1, <1>2, <1>4 DEF StopIsComing, EngineInv, EngineTypeOK
<1>10. QED BY <1>3, <1>7, <1>8, <1>9 DEF EngineInv

(* The one loop that was known is the one this stop has waited for.        *)
LEMMA JoinReturnsKeeps ==
  ASSUME EngineInv, NEW c \in Callers, JoinReturns(c)
  PROVE  EngineInv'
<1>1. /\ call[c] = "joining" /\ call' = [call EXCEPT ![c] = "idle"]
      /\ joined' = [joined EXCEPT ![c] = None] /\ alone' = alone \ {c}
      /\ abandoned' = abandoned \cup ({joined[c]} \cap Live)
      /\ handle' \in {handle, None}
      /\ UNCHANGED <<kind, on, loop, contested>>
  BY DEF JoinReturns
<1>2. Live' = Live
  BY <1>1 DEF Live
<1>3. Known' = {}
  BY <1>1, <1>2 DEF Known, EngineInv, JoinWaitsForIt
<1>4. EngineTypeOK'
  BY <1>1, <1>2 DEF EngineInv, EngineTypeOK
<1>5. Busy' = Busy \ {c} /\ c \in Busy
  BY <1>1 DEF Busy, EngineInv, EngineTypeOK
<1>6. AloneIsAlone' /\ AloneSeesNone' /\ AloneIsOn'
  BY <1>1, <1>3, <1>5 DEF AloneIsAlone, AloneSeesNone, AloneIsOn, EngineInv, EngineTypeOK
<1>7. JoinWaitsForIt' /\ OneLoop' /\ StopIsComing'
  BY <1>3 DEF JoinWaitsForIt, OneLoop, StopIsComing
<1>8. QED BY <1>4, <1>6, <1>7 DEF EngineInv

(* A loop changes what is known only by ending.                            *)
LEMMA LoopKeeps ==
  ASSUME EngineInv, NEW l \in Loops, Test(l) \/ Cycle(l)
  PROVE  EngineInv'
<1>1. UNCHANGED <<kind, on, handle, call, joined, alone>>
  BY DEF Test, Cycle
<1>2. Known' \subseteq Known /\ EngineTypeOK'
  <2>1. CASE Test(l) /\ ~on
    <3>1. Live' = Live \ {l} /\ contested' = contested \ {l} /\ abandoned' = abandoned \ {l}
      BY <2>1 DEF Test, Live, EngineInv, EngineTypeOK
    <3>2. QED BY <1>1, <2>1, <3>1 DEF Test, Known, EngineInv, EngineTypeOK
  <2>2. CASE (Test(l) /\ on) \/ Cycle(l)
    <3>1. Live' = Live /\ contested' = contested /\ abandoned' = abandoned
      BY <2>2 DEF Test, Cycle, Live, EngineInv, EngineTypeOK
    <3>2. QED BY <1>1, <2>2, <3>1 DEF Test, Cycle, Known, EngineInv, EngineTypeOK
  <2>3. QED BY <2>1, <2>2
<1>3. Busy' = Busy
  BY <1>1 DEF Busy
<1>4. AloneIsAlone' /\ AloneSeesNone' /\ AloneIsOn'
  BY <1>1, <1>2, <1>3 DEF AloneIsAlone, AloneSeesNone, AloneIsOn, EngineInv
<1>5. JoinWaitsForIt' /\ OneLoop' /\ StopIsComing'
  BY <1>1, <1>2 DEF JoinWaitsForIt, OneLoop, StopIsComing, EngineInv
<1>6. QED BY <1>2, <1>4, <1>5 DEF EngineInv

LEMMA EngineRests ==
  ASSUME EngineInv, UNCHANGED engineVars
  PROVE  EngineInv'
BY DEF engineVars, EngineInv, EngineTypeOK, AloneIsAlone, AloneSeesNone, AloneIsOn,
       JoinWaitsForIt, OneLoop, StopIsComing, Known, Live, Busy

-------------------------------------------------------------------------------
(* Whatever the registry does, it never disturbs the engine, and the       *)
(* engine follows its own steps.                                           *)
LEMMA EngineKeeps ==
  ASSUME EngineInv, [Next]_vars
  PROVE  EngineInv'
<1>1. ASSUME NEW c \in Callers, CallStep(c) PROVE EngineInv'
  BY <1>1, StartCheckKeeps, SetRunningKeeps, SpawnKeeps, StopSignalKeeps, JoinKeeps,
     JoinReturnsKeeps DEF CallStep
<1>2. ASSUME NEW l \in Loops, LoopStep(l) PROVE EngineInv'
  BY <1>2, LoopKeeps DEF LoopStep, LoopCycle
<1>3. ASSUME NEW a \in Agents, AgentStep(a) PROVE EngineInv'
  BY <1>3, EngineRests DEF AgentStep
<1>4. CASE Tick /\ UNCHANGED engineVars
  BY <1>4, EngineRests
<1>5. CASE UNCHANGED vars
  BY <1>5, EngineRests DEF vars
<1>6. QED BY <1>1, <1>2, <1>3, <1>4, <1>5 DEF Next

(* THEOREM.  Starts and stops leave one loop, the one the engine           *)
(* remembers, but for loops a stop gave up on or an overlapped start left. *)
THEOREM EngineHasOneLoop == Spec => []OneLoop
<1>1. Init => EngineInv
  BY EngineInitially DEF Init
<1>2. EngineInv /\ [Next]_vars => EngineInv'
  BY EngineKeeps
<1>3. EngineInv => OneLoop
  BY DEF EngineInv
<1>4. QED BY <1>1, <1>2, <1>3, PTL DEF Spec

(* THEOREM.  A stopped engine with no call in flight has no loop but       *)
(* those.                                                                  *)
THEOREM StoppedEngineIsQuiet == Spec => []QuietWhenStopped
<1>1. Init => EngineInv
  BY EngineInitially DEF Init
<1>2. EngineInv /\ [Next]_vars => EngineInv'
  BY EngineKeeps
<1>3. EngineInv => QuietWhenStopped
  BY DEF EngineInv, StopIsComing, QuietWhenStopped, Busy
<1>4. QED BY <1>1, <1>2, <1>3, PTL DEF Spec

-------------------------------------------------------------------------------
(* The log of one agent tells its status, and one more event that starts   *)
(* from that status keeps it so.                                           *)
Event == [old : AllStatuses \cup {None}, new : AllStatuses]

Tells(log, st) ==
  /\ \A i \in 1..Len(log) :
       /\ log[i].old # log[i].new
       /\ log[i].old = IF i = 1 THEN None ELSE log[i - 1].new
  /\ st = IF log = <<>> THEN None ELSE log[Len(log)].new

LEMMA OneMoreEvent ==
  ASSUME NEW log \in Seq(Event), NEW st, Tells(log, st),
         NEW new \in AllStatuses, st \in AllStatuses \cup {None}, st # new
  PROVE  LET more == Append(log, [old |-> st, new |-> new])
         IN more \in Seq(Event) /\ Tells(more, new)
<1> DEFINE event == [old |-> st, new |-> new]
           more == Append(log, event)
<1>1. more \in Seq(Event) /\ Len(more) = Len(log) + 1 /\ more[Len(log) + 1] = event
  BY DEF Event
<1>2. \A i \in 1..Len(log) : more[i] = log[i]
  OBVIOUS
<1>3. more # <<>> /\ more[Len(more)].new = new
  BY <1>1
<1>4. Len(log) \in Nat /\ (log = <<>> <=> Len(log) = 0)
  OBVIOUS
<1>5. ASSUME NEW i \in 1..Len(more)
      PROVE  /\ more[i].old # more[i].new
             /\ more[i].old = IF i = 1 THEN None ELSE more[i - 1].new
  <2>1. CASE i \in 1..Len(log)
    <3>1. i # 1 => i - 1 \in 1..Len(log)
      BY <2>1
    <3>2. QED BY <1>2, <2>1, <3>1 DEF Tells
  <2>2. CASE i = Len(log) + 1
    <3>1. more[i].old = st /\ more[i].new = new
      BY <1>1, <2>2
    <3>2. CASE Len(log) = 0
      BY <1>4, <2>2, <3>1, <3>2 DEF Tells
    <3>3. CASE Len(log) # 0
      <4>1. st = log[Len(log)].new
        BY <1>4, <3>3 DEF Tells
      <4>2. i # 1 /\ i - 1 = Len(log) /\ i - 1 \in 1..Len(log)
        BY <1>4, <2>2, <3>3
      <4>3. QED BY <1>2, <3>1, <4>1, <4>2
    <3>4. QED BY <3>2, <3>3
  <2>3. i \in 1..Len(log) \/ i = Len(log) + 1
    BY <1>1, <1>4
  <2>4. QED BY <2>1, <2>2, <2>3
<1>6. Tells(more, new)
  BY <1>3, <1>5 DEF Tells
<1>7. QED BY <1>1, <1>6

FleetInv ==
  /\ status \in [Agents -> AllStatuses \cup {None}]
  /\ events \in [Agents -> Seq(Event)]
  /\ \A a \in Agents : Tells(events[a], status[a])

LEMMA SetStatusTells ==
  ASSUME FleetInv, NEW a \in Agents, NEW new \in AllStatuses, SetStatus(a, new)
  PROVE  FleetInv'
<1>1. status' \in [Agents -> AllStatuses \cup {None}]
  BY DEF FleetInv, SetStatus
<1>2. CASE status[a] = new
  <2>1. events' = events /\ status' = status
    BY <1>2 DEF SetStatus, FleetInv
  <2>2. QED BY <2>1 DEF FleetInv
<1>3. CASE status[a] # new
  <2> DEFINE more == Append(events[a], [old |-> status[a], new |-> new])
  <2>1. more \in Seq(Event) /\ Tells(more, new)
    BY <1>3, OneMoreEvent DEF FleetInv
  <2>2. events' = [events EXCEPT ![a] = more] /\ status' = [status EXCEPT ![a] = new]
    BY <1>3 DEF SetStatus
  <2> HIDE DEF more
  <2>3. \A b \in Agents : /\ events'[b] = IF b = a THEN more ELSE events[b]
                          /\ status'[b] = IF b = a THEN new ELSE status[b]
    BY <2>2 DEF FleetInv
  <2>4. events' \in [Agents -> Seq(Event)]
    BY <2>1, <2>2 DEF FleetInv
  <2>5. \A b \in Agents : Tells(events'[b], status'[b])
    BY <2>1, <2>3 DEF FleetInv
  <2>6. QED BY <1>1, <2>4, <2>5 DEF FleetInv
<1>4. QED BY <1>2, <1>3

LEMMA CheckStaleTells ==
  ASSUME FleetInv, CheckStaleAgents
  PROVE  FleetInv'
<1>1. "unreachable" \in AllStatuses
  BY DEF AllStatuses
<1>2. ASSUME NEW a \in Agents
      PROVE  /\ status'[a] \in AllStatuses \cup {None} /\ events'[a] \in Seq(Event)
             /\ Tells(events'[a], status'[a])
  <2>1. CASE Stale(a)
    <3> DEFINE more == Append(events[a], [old |-> status[a], new |-> "unreachable"])
    <3>1. more \in Seq(Event) /\ Tells(more, "unreachable")
      BY <1>1, <2>1, OneMoreEvent DEF FleetInv, Stale
    <3>2. events'[a] = more /\ status'[a] = "unreachable"
      BY <2>1 DEF CheckStaleAgents
    <3> HIDE DEF more
    <3>3. QED BY <1>1, <3>1, <3>2
  <2>2. CASE ~Stale(a)
    BY <2>2 DEF CheckStaleAgents, FleetInv
  <2>3. QED BY <2>1, <2>2
<1>3. status' \in [Agents -> AllStatuses \cup {None}]
  BY <1>2 DEF CheckStaleAgents
<1>4. events' \in [Agents -> Seq(Event)]
  BY <1>2 DEF CheckStaleAgents
<1>5. QED BY <1>2, <1>3, <1>4 DEF FleetInv

LEMMA FleetKeeps ==
  ASSUME FleetInv, [Next]_vars
  PROVE  FleetInv'
<1>1. ASSUME UNCHANGED <<status, events>> PROVE FleetInv'
  BY <1>1 DEF FleetInv
<1>2. ASSUME NEW c \in Callers, CallStep(c) /\ UNCHANGED agentVars PROVE FleetInv'
  BY <1>1, <1>2 DEF agentVars
<1>3. ASSUME NEW l \in Loops, LoopStep(l) PROVE FleetInv'
  BY <1>1, <1>3, CheckStaleTells DEF LoopStep, LoopCycle, agentVars
<1>4. ASSUME NEW a \in Agents, AgentStep(a) PROVE FleetInv'
  <2>1. \E new \in AllStatuses : SetStatus(a, new)
    BY <1>4, FleetAssumption
    DEF FleetAssumption, AgentStep, Register, Heartbeat, UpdateStatus, AllStatuses
  <2>2. QED BY <2>1, SetStatusTells
<1>5. CASE Tick
  BY <1>1, <1>5 DEF Tick
<1>6. CASE UNCHANGED vars
  BY <1>1, <1>6 DEF vars, agentVars
<1>7. QED BY <1>2, <1>3, <1>4, <1>5, <1>6 DEF Next

(* THEOREM.  The status events of an agent tell its history and its        *)
(* status, for any number of agents, events and loops.                     *)
THEOREM AgentEventsTellStatus == Spec => []EventsTellStatus
<1>1. Init => FleetInv
  BY DEF Init, FleetInv, Tells
<1>2. FleetInv /\ [Next]_vars => FleetInv'
  BY FleetKeeps
<1>3. FleetInv => EventsTellStatus
  BY DEF FleetInv, Tells, EventsTellStatus
<1>4. QED BY <1>1, <1>2, <1>3, PTL DEF Spec

(* The clock stops one tick after the timeout.                             *)
SilenceInv == silence \in [Agents -> 0..Timeout + 1]

LEMMA SilenceKeeps ==
  ASSUME SilenceInv, [Next]_vars
  PROVE  SilenceInv'
<1>1. ASSUME UNCHANGED silence PROVE SilenceInv'
  BY <1>1 DEF SilenceInv
<1>2. ASSUME NEW c \in Callers, CallStep(c) /\ UNCHANGED agentVars PROVE SilenceInv'
  BY <1>1, <1>2 DEF agentVars
<1>3. ASSUME NEW l \in Loops, LoopStep(l) PROVE SilenceInv'
  BY <1>1, <1>3 DEF LoopStep, LoopCycle, CheckStaleAgents, agentVars
<1>4. ASSUME NEW a \in Agents, AgentStep(a) PROVE SilenceInv'
  <2>1. silence' = silence \/ silence' = [silence EXCEPT ![a] = 0]
    BY <1>4 DEF AgentStep, Register, Heartbeat, UpdateStatus
  <2>2. 0 \in 0..Timeout + 1
    BY FleetAssumption DEF FleetAssumption
  <2>3. QED BY <2>1, <2>2 DEF SilenceInv
<1>5. CASE Tick
  <2>1. ASSUME NEW a \in Agents PROVE silence'[a] \in 0..Timeout + 1
    BY <1>5, FleetAssumption DEF FleetAssumption, Tick, SilenceInv
  <2>2. DOMAIN silence' = Agents /\ silence' = [a \in Agents |-> silence'[a]]
    BY <1>5 DEF Tick
  <2>3. QED BY <2>1, <2>2 DEF SilenceInv
<1>6. CASE UNCHANGED vars
  BY <1>1, <1>6 DEF vars, agentVars
<1>7. QED BY <1>2, <1>3, <1>4, <1>5, <1>6 DEF Next

(* THEOREM.  All variables of the engine and of the registry keep to their *)
(* sets; in particular only live loops are contested or abandoned.         *)
THEOREM FleetIsTyped == Spec => []TypeOK
<1>1. Init => EngineInv /\ FleetInv /\ SilenceInv
  <2>1. Init => SilenceInv
    BY FleetAssumption DEF Init, SilenceInv, FleetAssumption
  <2>2. QED BY <2>1, EngineInitially DEF Init, FleetInv, Tells
<1>2. EngineInv /\ FleetInv /\ SilenceInv /\ [Next]_vars => (EngineInv /\ FleetInv /\ SilenceInv)'
  BY EngineKeeps, FleetKeeps, SilenceKeeps
<1>3. EngineInv /\ FleetInv /\ SilenceInv => TypeOK
  BY DEF EngineInv, FleetInv, SilenceInv, TypeOK, Event
<1>4. QED BY <1>1, <1>2, <1>3, PTL DEF Spec

-------------------------------------------------------------------------------
(* Without the races.  Nothing in the code keeps two calls apart or makes  *)
(* a start wait; these say what it would take.                             *)
CallsTakeTurns == \A c \in Callers : StartCheck(c) \/ StopSignal(c) => Busy = {}
StartsWait     == \A c \in Callers : StartCheck(c) => abandoned = {}

AtMostOneLoop == \A l, m \in Live : l = m
OnlyAbandonedOutlive == ~on /\ Busy = {} => Live \subseteq abandoned

TurnsInv == contested = {} /\ Busy \subseteq alone
SoleInv  == /\ AtMostOneLoop
            /\ \A c \in Callers : call[c] \in {"starting", "flagged"} => Live = {}

LEMMA TurnsKeep ==
  EngineInv /\ TurnsInv /\ [Next]_vars /\ [CallsTakeTurns]_vars => TurnsInv'
<1> SUFFICES ASSUME EngineTypeOK, TurnsInv, [Next]_vars, [CallsTakeTurns]_vars
             PROVE  TurnsInv'
  BY DEF EngineInv
<1>1. ASSUME UNCHANGED <<contested, call, alone>> PROVE TurnsInv'
  BY <1>1 DEF TurnsInv, Busy
<1>2. ASSUME NEW c \in Callers, StartCheck(c) \/ StopSignal(c), UNCHANGED agentVars
      PROVE  TurnsInv'
  <2>1. Busy = {}
    <3>1. CASE CallsTakeTurns
      BY <1>2, <3>1 DEF CallsTakeTurns
    <3>2. CASE UNCHANGED vars
      <4>1. call'[c] = call[c] /\ on' = on /\ call' = call
        BY <3>2 DEF vars, engineVars
      <4>2. kind = "checker" /\ StopSignal(c)
        BY <1>2, <4>1 DEF StartCheck, StopSignal, Begin, EngineTypeOK
      <4>3. alone' = {} /\ alone' = alone
        BY <3>2, <4>2 DEF StopSignal, vars, engineVars
      <4>4. QED BY <4>3 DEF TurnsInv
    <3>3. QED BY <3>1, <3>2
  <2>2. contested' = contested
    BY <1>2 DEF StartCheck, StopSignal
  <2>3. CASE kind = "checker" /\ StopSignal(c)
    BY <2>1, <2>2, <2>3 DEF StopSignal, TurnsInv, Busy
  <2>4. CASE ~(kind = "checker" /\ StopSignal(c))
    <3>1. /\ alone' = {c}
          /\ call' \in {[call EXCEPT ![c] = "starting"], [call EXCEPT ![c] = "signalled"]}
      BY <1>2, <2>1, <2>4 DEF StartCheck, StopSignal, Begin
    <3>2. Busy' \subseteq {c}
      BY <2>1, <3>1 DEF Busy, EngineTypeOK
    <3>3. QED BY <2>2, <3>1, <3>2 DEF TurnsInv
  <2>5. QED BY <2>3, <2>4
<1>3. ASSUME NEW c \in Callers, SetRunning(c) PROVE TurnsInv'
  BY <1>3 DEF SetRunning, TurnsInv, Busy, EngineTypeOK
<1>4. ASSUME NEW c \in Callers, Spawn(c) \/ Join(c) \/ JoinReturns(c) PROVE TurnsInv'
  <2>1. c \in alone
    BY <1>4 DEF Spawn, Join, JoinReturns, TurnsInv, Busy
  <2>2. contested' = contested
    BY <1>4, <2>1 DEF Spawn, Join, JoinReturns
  <2>3. \/ call' = [call EXCEPT ![c] = "idle"] /\ alone' = alone \ {c}
        \/ call' = [call EXCEPT ![c] = "joining"] /\ alone' = alone
    BY <1>4 DEF Spawn, Join, JoinReturns
  <2>4. Busy' \subseteq alone'
    BY <2>1, <2>3 DEF TurnsInv, Busy, EngineTypeOK
  <2>5. QED BY <2>2, <2>4 DEF TurnsInv
<1>5. ASSUME NEW l \in Loops, Test(l) \/ Cycle(l) PROVE TurnsInv'
  BY <1>5 DEF Test, Cycle, TurnsInv, Busy
<1>6. QED
  BY <1>1, <1>2, <1>3, <1>4, <1>5
     DEF Next, CallStep, LoopStep, LoopCycle, AgentStep, vars, engineVars

(* A start that met no call and no abandoned loop found none at all.       *)
LEMMA SoleKeeps ==
  EngineInv /\ TurnsInv /\ SoleInv /\ [Next]_vars /\ [CallsTakeTurns]_vars /\ [StartsWait]_vars
    => SoleInv'
<1> SUFFICES ASSUME EngineInv, TurnsInv, SoleInv, [Next]_vars, [CallsTakeTurns]_vars,
                    [StartsWait]_vars
             PROVE  SoleInv'
  OBVIOUS
<1>0. EngineTypeOK
  BY DEF EngineInv
<1>1. ASSUME Live' \subseteq Live,
             \A c \in Callers : call'[c] \in {"starting", "flagged"}
                                  => call[c] \in {"starting", "flagged"} \/ Live = {}
      PROVE  SoleInv'
  BY <1>1 DEF SoleInv, AtMostOneLoop
<1>2. ASSUME NEW c \in Callers, StartCheck(c) PROVE SoleInv'
  <2>1. /\ ~IsRunning /\ call[c] = "idle" /\ call' = [call EXCEPT ![c] = "starting"]
        /\ loop' = loop
    BY <1>2 DEF StartCheck, Begin
  <2>2. call' # call
    BY <1>0, <2>1 DEF EngineTypeOK
  <2>3. Busy = {} /\ abandoned = {}
    BY <1>2, <2>2 DEF CallsTakeTurns, StartsWait, vars, engineVars
  <2>4. Live = {}
    BY <2>1, <2>3, StoppedMeansNone DEF Known, TurnsInv
  <2>5. QED BY <1>1, <2>1, <2>4 DEF Live
<1>3. ASSUME NEW c \in Callers, Spawn(c) PROVE SoleInv'
  <2>1. PICK l \in Loops : loop' = [loop EXCEPT ![l] = "ready"]
    BY <1>3 DEF Spawn
  <2>2. Live = {} /\ call[c] = "flagged" /\ call' = [call EXCEPT ![c] = "idle"]
    BY <1>3 DEF Spawn, SoleInv
  <2>3. Live' = {l}
    BY <1>0, <2>1, <2>2 DEF Live, EngineTypeOK
  <2>4. Busy = {c}
    BY <2>2 DEF EngineInv, AloneIsAlone, TurnsInv, Busy
  <2>5. \A d \in Callers : call'[d] = "idle"
    BY <1>0, <2>2, <2>4 DEF Busy, EngineTypeOK
  <2>6. QED BY <2>3, <2>5 DEF SoleInv, AtMostOneLoop
<1>4. ASSUME NEW c \in Callers, SetRunning(c) \/ StopSignal(c) \/ Join(c) \/ JoinReturns(c)
      PROVE  SoleInv'
  <2>1. loop' = loop
    BY <1>4 DEF SetRunning, StopSignal, Join, JoinReturns
  <2>2. /\ \A d \in Callers : d # c => call'[d] = call[d]
        /\ call'[c] \in {"starting", "flagged"} => call[c] \in {"starting", "flagged"}
    <3>1. CASE SetRunning(c)
      BY <1>0, <3>1 DEF SetRunning, EngineTypeOK
    <3>2. CASE StopSignal(c)
      BY <1>0, <3>2 DEF StopSignal, Begin, EngineTypeOK
    <3>3. CASE Join(c) \/ JoinReturns(c)
      BY <1>0, <3>3 DEF Join, JoinReturns, EngineTypeOK
    <3>4. QED BY <1>4, <3>1, <3>2, <3>3
  <2>3. QED BY <1>1, <2>1, <2>2 DEF Live
<1>5. ASSUME NEW l \in Loops, Test(l) \/ Cycle(l) PROVE SoleInv'
  <2>1. call' = call /\ Live' \subseteq Live
    BY <1>0, <1>5 DEF Test, Cycle, Live, EngineTypeOK
  <2>2. QED BY <1>1, <2>1
<1>6. ASSUME UNCHANGED engineVars PROVE SoleInv'
  BY <1>1, <1>6 DEF engineVars, Live
<1>7. QED
  BY <1>2, <1>3, <1>4, <1>5, <1>6 DEF Next, CallStep, LoopStep, LoopCycle, AgentStep, vars

(* THEOREM.  If no start or stop begins while another is in flight, the    *)
(* loops that outlive the stop of an engine are those it gave up on.       *)
THEOREM TurnsStopAllButAbandoned ==
  Spec /\ [][CallsTakeTurns]_vars => []OnlyAbandonedOutlive
<1>1. Init => EngineInv /\ TurnsInv
  BY EngineInitially DEF Init, EngineInit, TurnsInv, Busy
<1>2. EngineInv /\ [Next]_vars => EngineInv'
  BY EngineKeeps
<1>3. EngineInv /\ TurnsInv => OnlyAbandonedOutlive
  BY DEF EngineInv, StopIsComing, TurnsInv, Known, Busy, OnlyAbandonedOutlive
<1>4. QED BY <1>1, <1>2, <1>3, TurnsKeep, PTL DEF Spec

(* THEOREM.  If, besides, no start comes before the loops that a stop gave *)
(* up on have ended, an engine never has two loops.                        *)
THEOREM TurnsLeaveOneLoop ==
  Spec /\ [][CallsTakeTurns]_vars /\ [][StartsWait]_vars => []AtMostOneLoop
<1>1. Init => EngineInv /\ TurnsInv /\ SoleInv
  BY EngineInitially DEF Init, EngineInit, TurnsInv, SoleInv, AtMostOneLoop, Busy, Live
<1>2. EngineInv /\ [Next]_vars => EngineInv'
  BY EngineKeeps
<1>3. SoleInv => AtMostOneLoop
  BY DEF SoleInv
<1>4. QED BY <1>1, <1>2, <1>3, TurnsKeep, SoleKeeps, PTL DEF Spec
===============================================================================
