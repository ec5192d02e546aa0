---------------------------- MODULE ModelGovernance ----------------------------
(***************************************************************************)
(* Champions and challengers of one class of models (ModelGovernor,        *)
(* ModelRegistry, ApprovalManager of model_governance/).  Predictions come *)
(* from the champion of the class.  The registry keeps it beside the       *)
(* status of each version, nothing is locked, and two routes assign a      *)
(* status without any check: PATCH .../status and the start of a shadow    *)
(* evaluation.  Classes share nothing.  No route calls set_champion: the   *)
(* promotions are what the library offers to callers on threads.  Drift,   *)
(* fallback and scores are left out, promotion never looks at them, and so *)
(* is auto_promote, which is off and which no route turns on.              *)
(*                                                                         *)
(* A definition placed just before another, with its name and a suffix, is *)
(* a variant with a plausible mistake, which the properties must notice.   *)
(***************************************************************************)
CONSTANTS
  Versions,    \* ids of model versions
  Promoters,   \* threads that call set_champion
  NoVersion

ASSUME GovernanceAssumption == NoVersion \notin Versions

VARIABLES
  impact,      \* "high" if the class is a high-impact one, or "low"
  registry,    \* [status, champion, challenger]; status "unknown": not registered
  cert,        \* cert[v]: "none": not approved, "valid" or "expired"
  promotion,   \* promotion[h]: [pc, named, challenger, champion]: the version it
               \*   was called for, and what it has read
  assigned,    \* history: the versions that PATCH or an evaluation gave a status
  crown,       \* history: [way, named]: how the champion became it, "assigned"
               \*   or "promoted", and the version that promotion was called for
  crossed      \* history: two promotions have overlapped

governanceVars == <<impact, registry, cert, promotion, assigned, crown, crossed>>

(* "retired" stands for deprecated, rejected and archived alike.           *)
Statuses == {"draft", "challenger", "champion", "retired"}
NoPromotion == [pc |-> "idle", named |-> NoVersion,
                challenger |-> NoVersion, champion |-> NoVersion]
NoCrown == [way |-> "none", named |-> NoVersion]
Assigned == [way |-> "assigned", named |-> NoVersion]
Registered == {v \in Versions : registry.status[v] # "unknown"}

GovernanceTypeOK ==
  /\ impact \in {"high", "low"}
  /\ registry \in [status : [Versions -> Statuses \cup {"unknown"}],
                   champion : Versions \cup {NoVersion}, challenger : Versions \cup {NoVersion}]
  /\ cert \in [Versions -> {"none", "valid", "expired"}]
  /\ promotion \in [Promoters -> [pc : {"idle", "read", "write"},
                                  named : Versions \cup {NoVersion},
                                  challenger : Versions \cup {NoVersion},
                                  champion : Versions \cup {NoVersion}]]
  /\ assigned \subseteq Versions /\ crossed \in BOOLEAN
  /\ crown \in [way : {"none", "assigned", "promoted"}, named : Versions \cup {NoVersion}]

GovernanceInit ==
  /\ impact \in {"high", "low"}
  /\ registry = [status |-> [v \in Versions |-> "unknown"],
                 champion |-> NoVersion, challenger |-> NoVersion]
  /\ cert = [v \in Versions |-> "none"]
  /\ promotion = [h \in Promoters |-> NoPromotion]
  /\ assigned = {} /\ crown = NoCrown /\ crossed = FALSE

-------------------------------------------------------------------------------
(* The registry after update_status.                                       *)
UpdateStatus(reg, v, s) ==
  [status     |-> [reg.status EXCEPT ![v] = s],
   champion   |-> IF s = "champion" THEN v ELSE reg.champion,
   challenger |-> IF s = "challenger" THEN v
                  ELSE IF s = "champion" /\ reg.challenger = v THEN NoVersion
                  ELSE reg.challenger]

(* A version of a high-impact class waits for its approval as a draft.     *)
RegisterModel(v) ==
  /\ v \notin Registered
  /\ registry' = UpdateStatus(registry, v, IF impact = "high" THEN "draft" ELSE "challenger")
  /\ UNCHANGED <<impact, cert, promotion, assigned, crown, crossed>>

(* A request can be approved or rejected at any time, and again.           *)
ApproveModel(v) ==
  /\ impact = "high" /\ v \in Registered /\ cert[v] # "valid"
  /\ cert' = [cert EXCEPT ![v] = "valid"]
  /\ UNCHANGED <<impact, registry, promotion, assigned, crown, crossed>>

RejectModel(v) ==
  /\ impact = "high" /\ v \in Registered
  /\ registry' = UpdateStatus(registry, v, "retired")
  /\ UNCHANGED <<impact, cert, promotion, assigned, crown, crossed>>

CertificationEnds(v) ==
  /\ cert[v] = "valid"
  /\ cert' = [cert EXCEPT ![v] = "expired"]
  /\ UNCHANGED <<impact, registry, promotion, assigned, crown, crossed>>

(* PATCH .../status.                                                       *)
SetStatus(v, s) ==
  /\ v \in Registered
  /\ registry' = UpdateStatus(registry, v, s)
  /\ assigned' = assigned \cup {v}
  /\ crown' = IF s = "champion" THEN Assigned ELSE crown
  /\ UNCHANGED <<impact, cert, promotion, crossed>>

(* start_evaluation makes the two versions champion and challenger.        *)
StartEvaluation(v, u) ==
  /\ {v, u} \subseteq Registered
  /\ LET champ == IF registry.status[v] = "champion" THEN registry
                  ELSE UpdateStatus(registry, v, "champion") IN
     registry' = IF champ.status[u] = "challenger" THEN champ
                 ELSE UpdateStatus(champ, u, "challenger")
  /\ assigned' = assigned \cup {v, u}
  /\ crown' = IF registry.status[v] = "champion" THEN crown ELSE Assigned
  /\ UNCHANGED <<impact, cert, promotion, crossed>>

-------------------------------------------------------------------------------
(* set_champion checks the version that it is given, ...                   *)
SetChampionUnchecked(h, v) ==
  /\ promotion[h].pc = "idle" /\ v \in Registered
  /\ cert[v] # "expired"
  /\ promotion' = [promotion EXCEPT ![h] = [@ EXCEPT !.pc = "read", !.named = v]]
  /\ crossed' = (crossed \/ \E g \in Promoters : promotion[g].pc # "idle")
  /\ UNCHANGED <<impact, registry, cert, assigned, crown>>

SetChampion(h, v) ==
  /\ promotion[h].pc = "idle" /\ v \in Registered
  /\ impact = "high" => cert[v] # "none"
  /\ cert[v] # "expired"
  /\ promotion' = [promotion EXCEPT ![h] = [@ EXCEPT !.pc = "read", !.named = v]]
  /\ crossed' = (crossed \/ \E g \in Promoters : promotion[g].pc # "idle")
  /\ UNCHANGED <<impact, registry, cert, assigned, crown>>

(* ... and promotes the challenger of the class, if it has one, ...        *)
PromoteRead(h) ==
  /\ promotion[h].pc = "read"
  /\ promotion' = [promotion EXCEPT ![h] =
       IF registry.challenger = NoVersion THEN NoPromotion
       ELSE [@ EXCEPT !.pc = "write", !.challenger = registry.challenger,
                      !.champion = registry.champion]]
  /\ UNCHANGED <<impact, registry, cert, assigned, crown, crossed>>

(* ... after it deprecated the champion.  Only another promotion or an     *)
(* assigned status could come between the two updates, and neither has     *)
(* anything promised about it by OneChampion.                              *)
PromoteWriteBare(h) ==
  /\ promotion[h].pc = "write"
  /\ registry' = UpdateStatus(registry, promotion[h].challenger, "champion")
  /\ crown' = [way |-> "promoted", named |-> promotion[h].named]
  /\ promotion' = [promotion EXCEPT ![h] = NoPromotion]
  /\ UNCHANGED <<impact, cert, assigned, crossed>>

PromoteWrite(h) ==
  LET old == promotion[h].champion
      reg == IF old = NoVersion THEN registry ELSE UpdateStatus(registry, old, "retired") IN
  /\ promotion[h].pc = "write"
  /\ registry' = UpdateStatus(reg, promotion[h].challenger, "champion")
  /\ crown' = [way |-> "promoted", named |-> promotion[h].named]
  /\ promotion' = [promotion EXCEPT ![h] = NoPromotion]
  /\ UNCHANGED <<impact, cert, assigned, crossed>>

ModelStep(v) ==
  \/ RegisterModel(v) \/ ApproveModel(v) \/ RejectModel(v) \/ CertificationEnds(v)
  \/ \E s \in Statuses : SetStatus(v, s)
  \/ \E u \in Versions : StartEvaluation(v, u)

PromoterStep(h) ==
  PromoteRead(h) \/ PromoteWrite(h) \/ \E v \in Versions : SetChampion(h, v)

(* A restart forgets the models: the registry is in memory.                *)
ForgetModels ==
  /\ registry' = [status |-> [v \in Versions |-> "unknown"],
                  champion |-> NoVersion, challenger |-> NoVersion]
  /\ cert' = [v \in Versions |-> "none"]
  /\ promotion' = [h \in Promoters |-> NoPromotion]
  /\ assigned' = {} /\ crown' = NoCrown /\ crossed' = FALSE
  /\ UNCHANGED impact

-------------------------------------------------------------------------------
(* PROPERTY.  What set_champion keeps out of a high-impact class.  A       *)
(* champion that was promoted was promoted by a call for an approved       *)
(* version, and became the challenger by a PATCH or an evaluation, never   *)
(* by its registration.  More does not hold: the check is on the version   *)
(* of the call, and an unapproved challenger may be promoted in its place; *)
(* and nothing is said of a champion whose status was assigned.            *)
UnapprovedStaysOut ==
  impact = "high" /\ crown.way = "promoted" =>
    cert[crown.named] # "none" /\ registry.champion \in assigned

(* PROPERTY.  Unless a PATCH or an evaluation assigned a status, or two    *)
(* promotions have overlapped, a version whose status is champion is the   *)
(* one that predicts.                                                      *)
OneChampion ==
  assigned = {} /\ ~crossed =>
    \A v \in Versions : registry.status[v] = "champion" => v = registry.champion
===============================================================================
