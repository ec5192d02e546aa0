---------------------------- MODULE PeriodicEngine -----------------------------
(***************************************************************************)
(* A background loop of the server that HTTP handlers start and stop.  The *)
(* same protocol is written out in                                         *)
(*   "flag"     autoscaler.py, preemption.py, gpu_monitor.py and           *)
(*              dcgm_ingestion.py: a running flag, a stop that waits for   *)
(*              the thread and then forgets it,                            *)
(*   "keeper"   telemetry_extended.py: the same, but keeps the thread,     *)
(*   "checker"  agent_protocol.py: a stop that only clears the flag,       *)
(*   "monitor"  healing/router.py: an event that also ends the sleep of    *)
(*              the loop, and a start that looks at the thread.            *)
(* The engines share nothing, so a behaviour follows one of them.          *)
(*                                                                         *)
(* A definition placed just before another, with its name and a suffix, is *)
(* a variant with a plausible mistake, which the properties must notice.   *)
(***************************************************************************)
EXTENDS Naturals

CONSTANTS
  Kinds,       \* the engines considered
  Callers,     \* HTTP handler threads that start and stop the engine
  Loops,       \* threads that can exist at the same time
  None         \* no thread

ASSUME KindsAssumption == Kinds \subseteq {"flag", "keeper", "checker", "monitor"}
ASSUME NoneAssumption  == None \notin Loops

VARIABLES
  kind,        \* the engine
  on,          \* the running flag, or the stop event being clear
  handle,      \* the thread the engine remembers, or None
  loop,        \* loop[l]: "dead", "ready" (asleep, or about to test the flag)
               \*   or "cycle" (in the body)
  call,        \* call[c]: where handler c is
  joined,      \* joined[c]: the thread the stop of c waits for, or None
  alone,       \* history: the calls no other call has overlapped
  contested,   \* history: live loops that met a start which was overlapped
  abandoned    \* history: live loops a stop has not waited for to the end

engineVars == <<kind, on, handle, loop, call, joined, alone, contested, abandoned>>

Live == {l \in Loops : loop[l] # "dead"}
Busy == {c \in Callers : call[c] # "idle"}

EngineTypeOK ==
  /\ kind \in Kinds
  /\ on \in BOOLEAN
  /\ handle \in Loops \cup {None}
  /\ loop \in [Loops -> {"dead", "ready", "cycle"}]
  /\ call \in [Callers -> {"idle", "starting", "flagged", "signalled", "joining"}]
  /\ joined \in [Callers -> Loops \cup {None}]
  /\ alone \subseteq Callers
  /\ contested \subseteq Live /\ abandoned \subseteq Live

EngineInit ==
  /\ kind \in Kinds
  /\ on = FALSE /\ handle = None
  /\ loop = [l \in Loops |-> "dead"]
  /\ call = [c \in Callers |-> "idle"]
  /\ joined = [c \in Callers |-> None]
  /\ alone = {} /\ contested = {} /\ abandoned = {}

-------------------------------------------------------------------------------
(* A call begins: it is alone if it meets no other, and the others are no  *)
(* longer.                                                                 *)
Begin(c, state) ==
  /\ call[c] = "idle"
  /\ call' = [call EXCEPT ![c] = state]
  /\ alone' = IF Busy = {} THEN {c} ELSE {}

HandleAlive == handle # None /\ loop[handle] # "dead"

IsRunning == IF kind = "monitor" THEN HandleAlive ELSE on

(* start() tests and then sets; otherwise it returns, "already running".   *)
StartCheckBlind(c) ==
  /\ Begin(c, "starting")
  /\ UNCHANGED <<kind, on, handle, loop, joined, contested, abandoned>>

StartCheck(c) ==
  /\ ~IsRunning
  /\ Begin(c, "starting")
  /\ UNCHANGED <<kind, on, handle, loop, joined, contested, abandoned>>

SetRunning(c) ==
  /\ call[c] = "starting"
  /\ on' = TRUE
  /\ call' = [call EXCEPT ![c] = "flagged"]
  /\ UNCHANGED <<kind, handle, loop, joined, alone, contested, abandoned>>

Spawn(c) ==
  /\ call[c] = "flagged"
  /\ \E l \in {m \in Loops : loop[m] = "dead" /\ \A d \in Callers : joined[d] # m} :
       /\ loop' = [loop EXCEPT ![l] = "ready"]
       /\ handle' = l
       /\ contested' = IF c \in alone THEN contested ELSE Live \cup {l}
  /\ call' = [call EXCEPT ![c] = "idle"]
  /\ alone' = alone \ {c}
  /\ UNCHANGED <<kind, on, joined, abandoned>>

(* The stop of "checker" is over with the flag, and waits for no loop.  The *)
(* one of "monitor" returns at once when there is no live thread.          *)
StopSignalForgets(c) ==
  /\ kind = "monitor" => HandleAlive
  /\ on' = FALSE
  /\ IF kind = "checker"
       THEN /\ call[c] = "idle"
            /\ alone' = {}
            /\ abandoned' = Live
            /\ UNCHANGED call
       ELSE /\ Begin(c, "signalled")
            /\ UNCHANGED abandoned
  /\ handle' = None
  /\ UNCHANGED <<kind, loop, joined, contested>>

StopSignal(c) ==
  /\ kind = "monitor" => HandleAlive
  /\ on' = FALSE
  /\ IF kind = "checker"
       THEN /\ call[c] = "idle"
            /\ alone' = {}
            /\ abandoned' = Live
            /\ UNCHANGED call
       ELSE /\ Begin(c, "signalled")
            /\ UNCHANGED abandoned
  /\ UNCHANGED <<kind, handle, loop, joined, contested>>

(* There may be no thread to wait for: another stop has forgotten it (in   *)
(* "monitor" the join then raises).                                        *)
Join(c) ==
  /\ call[c] = "signalled"
  /\ joined' = [joined EXCEPT ![c] = handle]
  /\ call' = [call EXCEPT ![c] = IF handle = None THEN "idle" ELSE "joining"]
  /\ alone' = IF handle = None THEN alone \ {c} ELSE alone
  /\ UNCHANGED <<kind, on, handle, loop, contested, abandoned>>

(* join(timeout) returns when the thread has ended or the time is over.    *)
(* The event of "monitor" ends a sleep, so that only a cycle can outlast   *)
(* the wait, unless a start has cleared the event again.                   *)
JoinReturns(c) ==
  /\ call[c] = "joining"
  /\ kind = "monitor" /\ ~on => loop[joined[c]] # "ready"
  /\ call' = [call EXCEPT ![c] = "idle"]
  /\ joined' = [joined EXCEPT ![c] = None]
  /\ alone' = alone \ {c}
  /\ abandoned' = abandoned \cup ({joined[c]} \cap Live)
  /\ handle' = IF kind = "keeper" THEN handle ELSE None
  /\ UNCHANGED <<kind, on, loop, contested>>

(* The loop tests the flag: when it begins, and after every sleep.         *)
TestNever(l) ==
  /\ loop[l] = "ready"
  /\ loop' = [loop EXCEPT ![l] = "cycle"]
  /\ UNCHANGED <<kind, on, handle, call, joined, alone, contested, abandoned>>

Test(l) ==
  /\ loop[l] = "ready"
  /\ loop' = [loop EXCEPT ![l] = IF on THEN "cycle" ELSE "dead"]
  /\ contested' = IF on THEN contested ELSE contested \ {l}
  /\ abandoned' = IF on THEN abandoned ELSE abandoned \ {l}
  /\ UNCHANGED <<kind, on, handle, call, joined, alone>>

(* An exception in the body is logged and the loop goes on.                *)
Cycle(l) ==
  /\ loop[l] = "cycle"
  /\ loop' = [loop EXCEPT ![l] = "ready"]
  /\ UNCHANGED <<kind, on, handle, call, joined, alone, contested, abandoned>>

CallStep(c) == StartCheck(c) \/ SetRunning(c) \/ Spawn(c) \/ StopSignal(c) \/ Join(c) \/ JoinReturns(c)

-------------------------------------------------------------------------------
(* PROPERTY.  Starts and stops leave one loop, the one the engine          *)
(* remembers and a stop waits for.  Two loops of an engine need a stop     *)
(* that returned before the loop had ended, which a later start brings     *)
(* back to life (the flag is all the loop looks at), or a start that met   *)
(* another call (testing the flag and setting it are two steps).           *)
Known == Live \ (abandoned \cup contested)
OneLoop == Known \subseteq {handle}

(* PROPERTY.  A stopped engine is quiet: when no call is in flight and the *)
(* flag is off, the loops still alive are those a stop did not wait for to *)
(* the end, and those that an overlapped start hid from the stop.          *)
QuietWhenStopped == ~on /\ Busy = {} => Known = {}

(* PROPERTY.  A stop takes effect: every loop ends, unless the engine is   *)
(* started again.                                                          *)
StopTakesEffect == ~on ~> (Live = {} \/ on)
===============================================================================
