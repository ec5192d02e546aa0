---------------------------- MODULE ActuationTwin -----------------------------
(***************************************************************************)
(* The digital twin of one cluster and the audit records of its            *)
(* actuations: ActuationService (actuation.py) and DigitalTwinService      *)
(* (digital_twin.py) on the twins and actuations tables of repository.py.  *)
(*                                                                         *)
(* An HTTP handler reads the twin in one connection, changes its copy,     *)
(* writes the whole twin back in a second one and the audit record in a    *)
(* third.  Each write may fail, and the process may die between them.      *)
(*                                                                         *)
(* A definition placed just before another, with its name and a suffix, is *)
(* a variant with a plausible mistake, which the properties must notice.   *)
(***************************************************************************)
EXTENDS Naturals

CONSTANTS
  Handlers,    \* HTTP handler threads
  Ops,         \* the requests made: each is one actuation, rollback, apply or sync
  None         \* no twin, no record, no work

VARIABLES
  twin,        \* the twins row of the cluster, or None
  acts,        \* acts[o]: the actuations row of request o, or None
  work,        \* work[h]: what handler h has still to write, or None
  begun,       \* requests that have started
  overlapped,  \* history: requests whose copy of the twin met another's
  synced,      \* history: requests that began before the last sync was saved
  unrecorded   \* history: requests that ended without a record

vars == <<twin, acts, work, begun, overlapped, synced, unrecorded>>

(* effects: the requests whose version of the nodes went into state_json;  *)
(* what a request changes in the nodes depends on its recommendation, and  *)
(* on a twin without nodes it is nothing.  nodes: whether there are any;   *)
(* full: state_json is a whole ClusterStateData, as compare and apply need.*)
Twin   == [effects : SUBSET Ops, nodes : BOOLEAN, full : BOOLEAN, diverged : BOOLEAN]
Kinds  == {"live", "dry", "rollback", "apply", "sync"}
Record == [kind : {"live", "dry", "rollback"}, of : Ops \cup {None},
           status : {"completed", "failed", "rolled_back"}]
Work   == [op : Ops, kind : Kinds, of : Ops \cup {None},
           todo : {"twin", "record"}, copy : Twin \cup {None},
           status : {"completed", "failed", "rolled_back"}]

ASSUME TwinAssumption == None \notin Twin \cup Record \cup Work

Recorded == {o \in Ops : acts[o] # None}
Busy     == {h \in Handlers : work[h] # None}
Writers  == {h \in Busy : work[h].todo = "twin"}

(* No record is ever saved as pending or in_progress.                      *)
TypeOK ==
  /\ twin \in Twin \cup {None}
  /\ acts \in [Ops -> Record \cup {None}]
  /\ \A o \in Recorded : acts[o].status = "rolled_back" <=> acts[o].kind = "rollback"
  /\ work \in [Handlers -> Work \cup {None}]
  /\ \A h \in Writers : work[h].copy # None
  /\ begun \subseteq Ops /\ overlapped \subseteq begun
  /\ synced \subseteq begun /\ unrecorded \subseteq begun

Init ==
  /\ twin = None
  /\ acts = [o \in Ops |-> None]
  /\ work = [h \in Handlers |-> None]
  /\ begun = {} /\ overlapped = {} /\ synced = {} /\ unrecorded = {}

-------------------------------------------------------------------------------
Start(h, o, w) ==
  /\ work[h] = None /\ o \notin begun
  /\ work' = [work EXCEPT ![h] = w]
  /\ begun' = begun \cup {o}

(* A copy of the twin is taken: it and the copies still unsaved may undo   *)
(* each other, and the effects each of them carries.                       *)
Overlap(o, copy) ==
  IF Writers = {} THEN overlapped
  ELSE overlapped \cup {o} \cup copy.effects \cup
         UNION {{work[g].op} \cup work[g].copy.effects : g \in Writers}

StartWriting(h, o, kind, of, copy, status) ==
  /\ Start(h, o, [op |-> o, kind |-> kind, of |-> of, todo |-> "twin",
                  copy |-> copy, status |-> status])
  /\ overlapped' = Overlap(o, copy)
  /\ UNCHANGED <<twin, acts, synced, unrecorded>>

StartRecording(h, o, kind, status) ==
  /\ Start(h, o, [op |-> o, kind |-> kind, of |-> None, todo |-> "record",
                  copy |-> None, status |-> status])
  /\ UNCHANGED <<twin, acts, overlapped, synced, unrecorded>>

ActuateDry(h, o) == StartRecording(h, o, "dry", "completed")

(* A read, or the change of the copy, raises before there is anything to   *)
(* save.  (The branch for want of a twin is dead: one is always built.)    *)
ActuateFails(h, o) == StartRecording(h, o, "live", "failed")

BuiltTwin == [effects |-> {}, nodes |-> FALSE, full |-> FALSE, diverged |-> FALSE]

ActuateLiveOnBuilt(h, o) ==
  StartWriting(h, o, "live", None,
    [BuiltTwin EXCEPT !.effects = @ \cup {o}, !.diverged = TRUE], "completed")

(* state_json is rebuilt from the nodes alone: what else was in it is lost.*)
ActuateLive(h, o) ==
  LET base == IF twin = None THEN BuiltTwin ELSE twin
  IN StartWriting(h, o, "live", None,
       [base EXCEPT !.effects = @ \cup {o}, !.full = FALSE, !.diverged = TRUE],
       "completed")

RollbackAsFailed(h, o, of) ==
  /\ acts[of] # None /\ acts[of].status = "completed"
  /\ twin # None
  /\ StartWriting(h, o, "rollback", of, [twin EXCEPT !.diverged = FALSE], "completed")

(* Marks the twin as not diverged; the nodes keep the actuation's effect.  *)
Rollback(h, o, of) ==
  /\ acts[of] # None /\ acts[of].status = "completed"
  /\ twin # None
  /\ StartWriting(h, o, "rollback", of, [twin EXCEPT !.diverged = FALSE], "rolled_back")

SyncTwinMerges(h, o) ==
  StartWriting(h, o, "sync", None,
    [effects |-> IF twin = None THEN {} ELSE twin.effects,
     nodes |-> TRUE, full |-> TRUE, diverged |-> FALSE], "completed")

(* sync_twin and reset_twin: a new twin from the latest collected state.   *)
SyncTwin(h, o) ==
  \E nodes \in BOOLEAN :
    StartWriting(h, o, "sync", None,
      [effects |-> {}, nodes |-> nodes, full |-> TRUE, diverged |-> FALSE], "completed")

(* apply_recommendation needs a state_json that validates.                 *)
ApplyRecommendation(h, o) ==
  /\ twin # None /\ twin.full
  /\ StartWriting(h, o, "apply", None,
       [twin EXCEPT !.effects = @ \cup {o}, !.diverged = TRUE], "completed")

HasRecordNotLive(kind) == kind \in {"dry", "rollback"}

HasRecord(kind) == kind \in {"live", "dry", "rollback"}

(* save_twin replaces the row, whatever it holds by now.                   *)
SaveTwin(h) ==
  /\ h \in Writers
  /\ twin' = work[h].copy
  /\ work' = [work EXCEPT ![h] = IF HasRecord(@.kind)
                                 THEN [@ EXCEPT !.todo = "record", !.copy = None]
                                 ELSE None]
  /\ synced' = IF work[h].kind = "sync" THEN begun ELSE synced
  /\ unrecorded' = IF work[h].kind \in {"apply", "sync"}
                   THEN unrecorded \cup {work[h].op} ELSE unrecorded
  /\ UNCHANGED <<acts, begun, overlapped>>

SaveTwinFailsUnnoticed(h) ==
  /\ h \in Writers
  /\ work' = [work EXCEPT ![h] = IF @.kind = "live"
                                 THEN [@ EXCEPT !.todo = "record", !.copy = None]
                                 ELSE None]
  /\ unrecorded' = IF work[h].kind = "live" THEN unrecorded
                   ELSE unrecorded \cup {work[h].op}
  /\ UNCHANGED <<twin, acts, begun, overlapped, synced>>

(* Only actuate() catches the exception, and goes on to save a failure.    *)
SaveTwinFails(h) ==
  /\ h \in Writers
  /\ work' = [work EXCEPT ![h] = IF @.kind = "live"
                                 THEN [@ EXCEPT !.todo = "record", !.copy = None,
                                                !.status = "failed"]
                                 ELSE None]
  /\ unrecorded' = IF work[h].kind = "live" THEN unrecorded
                   ELSE unrecorded \cup {work[h].op}
  /\ UNCHANGED <<twin, acts, begun, overlapped, synced>>

SaveActuation(h) ==
  /\ h \in Busy /\ work[h].todo = "record"
  /\ acts' = [acts EXCEPT ![work[h].op] =
                [kind |-> work[h].kind, of |-> work[h].of, status |-> work[h].status]]
  /\ work' = [work EXCEPT ![h] = None]
  /\ UNCHANGED <<twin, begun, overlapped, synced, unrecorded>>

(* A live actuation whose first save fails is saved again as failed.       *)
GivesUp(w) == w.kind # "live" \/ w.status = "failed"

SaveActuationFails(h) ==
  /\ h \in Busy /\ work[h].todo = "record"
  /\ work' = [work EXCEPT ![h] = IF GivesUp(@) THEN None
                                 ELSE [@ EXCEPT !.status = "failed"]]
  /\ unrecorded' = IF work[h].kind = "live" /\ work[h].status # "failed"
                   THEN unrecorded ELSE unrecorded \cup {work[h].op}
  /\ UNCHANGED <<twin, acts, begun, overlapped, synced>>

(* The process dies: whatever handlers had not written yet is lost.        *)
Crash ==
  /\ Busy # {}
  /\ work' = [h \in Handlers |-> None]
  /\ unrecorded' = unrecorded \cup {work[h].op : h \in Busy}
  /\ UNCHANGED <<twin, acts, begun, overlapped, synced>>

Next ==
  \/ \E h \in Handlers, o \in Ops :
       \/ ActuateDry(h, o) \/ ActuateLive(h, o) \/ ActuateFails(h, o)
       \/ SyncTwin(h, o) \/ ApplyRecommendation(h, o)
       \/ \E of \in Ops : Rollback(h, o, of)
  \/ \E h \in Handlers :
       SaveTwin(h) \/ SaveTwinFails(h) \/ SaveActuation(h) \/ SaveActuationFails(h)
  \/ Crash

Spec == Init /\ [][Next]_vars

-------------------------------------------------------------------------------
(* Properties.                                                             *)

Effects == IF twin = None THEN {} ELSE twin.effects

(* What actuate() reported is so: a live actuation recorded as completed   *)
(* went into the twin and stays there until a sync replaces it, unless     *)
(* handlers overlapped.                                                    *)
ReportedIsApplied ==
  \A o \in Recorded \ (overlapped \cup synced) :
    acts[o].kind = "live" /\ acts[o].status = "completed" => o \in Effects

(* A sync discards every earlier change: no earlier request is in the twin *)
(* afterwards, unless handlers overlapped; and a twin that nobody changed  *)
(* is never marked as diverged, which would raise a drift alert.           *)
SyncDiscards ==
  /\ Effects \cap synced \subseteq overlapped
  /\ twin # None /\ twin.diverged => Effects # {}

(* The audit trail is complete: a change that is in the twin has a record, *)
(* or will get one, unless its process died, both its saves failed, or it  *)
(* was made by apply_recommendation.                                       *)
EffectsAreRecorded ==
  Effects \subseteq Recorded \cup unrecorded \cup {work[h].op : h \in Busy}

(* A rollback that was recorded as "restored" has taken its actuation out  *)
(* of a twin that has nodes.                                               *)
RolledBackIsUndone ==
  \A o \in Recorded :
    acts[o].kind = "rollback" /\ twin.nodes => acts[o].of \notin Effects

Register == INSTANCE TwinRegister

(* The twin changes as if requests came one after the other: each save is  *)
(* its request's own change of the twin as it stands, a rollback changes   *)
(* nothing but the mark of divergence, and requests that overlapped cannot *)
(* disturb the change of a request that did not.                           *)
ImplementsRegister == Register!RegisterSpec
===============================================================================
