-------------------------- MODULE ActuationTwinProofs -------------------------
(***************************************************************************)
(* What ActuationTwin promises holds for any number of handlers and        *)
(* requests.  The argument: a handler that is alone with its copy of the   *)
(* twin has the twin as it is, and handlers that are not alone taint, in   *)
(* overlapped, every request their copies mention.                         *)
(***************************************************************************)
EXTENDS ActuationTwin, TLAPS

(* A twin, or a copy of it, in which a sync has taken effect.              *)
Fits(t, taint, discarded) ==
  /\ t.effects \cap discarded \subseteq taint
  /\ t.diverged => t.effects # {}

(* What a handler is about to write.                                       *)
WriterInv(h) ==
  /\ work[h].copy \in Twin /\ work[h].copy.effects \subseteq begun
  /\ Fits(work[h].copy, overlapped, synced)
  /\ work[h].kind = "live" => work[h].op \in work[h].copy.effects
  /\ work[h].kind = "sync" => work[h].copy.effects = {}
  /\ work[h].kind # "sync" => Effects \ overlapped \subseteq work[h].copy.effects
  /\ work[h].kind # "dry"
  /\ \A g \in Writers : g # h =>
       work[h].op \in overlapped /\ work[h].copy.effects \subseteq overlapped

RecorderInv(h) ==
  /\ HasRecord(work[h].kind)
  /\ work[h].kind = "live" /\ work[h].status = "completed" =>
       work[h].op \in overlapped \cup synced \cup Effects

BusyInv(h) ==
  /\ work[h].op \in begun
  /\ work[h].status = "rolled_back" <=> work[h].kind = "rollback"
  /\ work[h].todo = "twin" => WriterInv(h)
  /\ work[h].todo = "record" => RecorderInv(h)

TwinInv ==
  /\ \A h \in Busy : BusyInv(h)
  /\ twin # None => Fits(twin, overlapped, synced)
  /\ Effects \subseteq begun
  /\ Recorded \subseteq begun
  /\ begun \subseteq Recorded \cup unrecorded \cup {work[h].op : h \in Busy}
  /\ \A o \in Recorded : acts[o].kind = "live" /\ acts[o].status = "completed" =>
       o \in overlapped \cup synced \cup Effects

LEMMA TwinInit == Init => TypeOK /\ TwinInv
  BY DEF Init, TypeOK, TwinInv, Busy, Writers, Recorded, Effects

LEMMA OverlapTaints ==
  ASSUME NEW o, NEW copy
  PROVE  /\ overlapped \subseteq Overlap(o, copy)
         /\ \A g \in Writers :
              /\ o \in Overlap(o, copy) /\ copy.effects \subseteq Overlap(o, copy)
              /\ work[g].op \in Overlap(o, copy)
              /\ work[g].copy.effects \subseteq Overlap(o, copy)
<1>1. CASE Writers = {}
  BY <1>1 DEF Overlap
<1>2. CASE Writers # {}
  BY <1>2 DEF Overlap
<1> QED
  BY <1>1, <1>2

(* A handler that takes a copy of the twin.                                *)
LEMMA StartStep ==
  ASSUME TypeOK, TwinInv, NEW h \in Handlers, NEW o \in Ops, NEW kind \in Kinds \ {"dry"},
         NEW of \in Ops \cup {None}, NEW copy \in Twin,
         NEW status \in {"completed", "failed", "rolled_back"},
         StartWriting(h, o, kind, of, copy, status),
         status = "rolled_back" <=> kind = "rollback",
         copy.effects \subseteq Effects \cup {o},
         copy.diverged => copy.effects # {},
         kind = "live" => o \in copy.effects,
         kind = "sync" => copy.effects = {},
         kind # "sync" => Effects \subseteq copy.effects
  PROVE  TypeOK' /\ TwinInv'
<1> DEFINE w == [op |-> o, kind |-> kind, of |-> of, todo |-> "twin",
                 copy |-> copy, status |-> status]
<1>1. /\ w \in Work /\ w.op = o /\ w.kind = kind /\ w.todo = "twin"
      /\ w.copy = copy /\ w.status = status
  BY DEF Work
<1>2. /\ work[h] = None /\ o \notin begun /\ work' = [work EXCEPT ![h] = w]
      /\ begun' = begun \cup {o} /\ overlapped' = Overlap(o, copy)
      /\ twin' = twin /\ acts' = acts /\ synced' = synced /\ unrecorded' = unrecorded
  BY DEF StartWriting, Start
<1> HIDE DEF w
<1>3. /\ work'[h] = w /\ Busy' = Busy \cup {h} /\ h \notin Busy
      /\ \A g \in Busy : work'[g] = work[g]
      /\ Writers' = Writers \cup {h} /\ h \notin Writers
  BY <1>1, <1>2, TwinAssumption DEF TwinAssumption, TypeOK, Busy, Writers
<1>4. /\ Effects' = Effects /\ Recorded' = Recorded
      /\ overlapped \subseteq overlapped' /\ begun \subseteq begun' /\ o \in begun'
  BY <1>2, OverlapTaints DEF Effects, Recorded
<1>5. overlapped' \subseteq begun'
  <2>1. \A g \in Writers : work[g].op \in begun /\ work[g].copy.effects \subseteq begun
    BY DEF TwinInv, BusyInv, WriterInv, Writers
  <2>2. overlapped \subseteq begun /\ copy.effects \subseteq begun'
    BY <1>2 DEF TypeOK, TwinInv
  <2> QED
    BY <1>2, <2>1, <2>2 DEF Overlap
<1>6. TypeOK'
  <2>1. work' \in [Handlers -> Work \cup {None}]
    BY <1>1, <1>2 DEF TypeOK
  <2>2. \A g \in Writers' : work'[g].copy # None
    BY <1>1, <1>3, TwinAssumption DEF TwinAssumption, TypeOK, Writers
  <2>3. begun' \subseteq Ops /\ synced' \subseteq begun' /\ unrecorded' \subseteq begun'
    BY <1>2 DEF TypeOK
  <2> QED
    BY <1>2, <1>4, <1>5, <2>1, <2>2, <2>3 DEF TypeOK
<1>7. BusyInv(h)'
  <2>1. Fits(copy, overlapped', synced')
    <3>1. o \notin synced /\ Effects \cap synced \subseteq overlapped
      BY <1>2 DEF TypeOK, TwinInv, Fits, Effects
    <3> QED
      BY <1>2, <1>4, <3>1 DEF Fits
  <2>2. \A g \in Writers' : g # h => o \in overlapped' /\ copy.effects \subseteq overlapped'
    BY <1>2, <1>3, OverlapTaints
  <2>3. copy.effects \subseteq begun'
    BY <1>2 DEF TwinInv
  <2>4. WriterInv(h)'
    BY <1>1, <1>3, <1>4, <2>1, <2>2, <2>3 DEF WriterInv
  <2> QED
    BY <1>1, <1>3, <1>4, <2>4 DEF BusyInv
<1>8. ASSUME NEW g \in Busy PROVE BusyInv(g)'
  <2>1. BusyInv(g) /\ work'[g] = work[g] /\ g # h
    BY <1>3 DEF TwinInv
  <2>2. work[g].todo = "twin" => WriterInv(g)'
    <3> SUFFICES ASSUME work[g].todo = "twin" PROVE WriterInv(g)'
      OBVIOUS
    <3>1. g \in Writers /\ WriterInv(g)
      BY <2>1 DEF Writers, BusyInv
    <3>2. work[g].op \in overlapped' /\ work[g].copy.effects \subseteq overlapped'
      BY <1>2, <3>1, OverlapTaints
    <3>3. Fits(work[g].copy, overlapped', synced')
      BY <1>2, <3>1, <3>2 DEF WriterInv, Fits
    <3> QED
      BY <1>4, <2>1, <3>1, <3>2, <3>3 DEF WriterInv
  <2>3. work[g].todo = "record" => RecorderInv(g)'
    BY <1>2, <1>4, <2>1 DEF BusyInv, RecorderInv
  <2> QED
    BY <1>4, <2>1, <2>2, <2>3 DEF BusyInv
<1>9. twin' # None => Fits(twin', overlapped', synced')
  BY <1>2, <1>4 DEF TwinInv, Fits
<1>10. begun' \subseteq Recorded' \cup unrecorded' \cup {work'[g].op : g \in Busy'}
  <2>1. \A g \in Busy : work[g].op \in {work'[k].op : k \in Busy'}
    BY <1>3
  <2>2. o \in {work'[k].op : k \in Busy'}
    BY <1>1, <1>3
  <2> QED
    BY <1>2, <1>4, <2>1, <2>2 DEF TwinInv
<1> QED
  BY <1>2, <1>3, <1>4, <1>6, <1>7, <1>8, <1>9, <1>10 DEF TwinInv

(* A handler that writes a record only, and claims no change of the twin.  *)
LEMMA StartRecordingStep ==
  ASSUME TypeOK, TwinInv, NEW h \in Handlers, NEW o \in Ops,
         NEW kind \in {"live", "dry"}, NEW status \in {"completed", "failed"},
         StartRecording(h, o, kind, status), kind = "live" => status = "failed"
  PROVE  TypeOK' /\ TwinInv'
<1> DEFINE w == [op |-> o, kind |-> kind, of |-> None, todo |-> "record",
                 copy |-> None, status |-> status]
<1>1. /\ w \in Work /\ w.op = o /\ w.kind = kind /\ w.todo = "record"
      /\ w.status = status
  BY DEF Work, Kinds
<1>2. /\ work[h] = None /\ o \notin begun /\ work' = [work EXCEPT ![h] = w]
      /\ begun' = begun \cup {o} /\ overlapped' = overlapped
      /\ twin' = twin /\ acts' = acts /\ synced' = synced /\ unrecorded' = unrecorded
  BY DEF StartRecording, Start
<1> HIDE DEF w
<1>3. /\ work'[h] = w /\ Busy' = Busy \cup {h} /\ h \notin Busy
      /\ \A g \in Busy : work'[g] = work[g]
      /\ Writers' = Writers /\ h \notin Writers
  BY <1>1, <1>2, TwinAssumption DEF TwinAssumption, TypeOK, Busy, Writers
<1>4. Effects' = Effects /\ Recorded' = Recorded
  BY <1>2 DEF Effects, Recorded
<1>5. TypeOK'
  <2>1. work' \in [Handlers -> Work \cup {None}]
    BY <1>1, <1>2 DEF TypeOK
  <2>2. \A g \in Writers' : work'[g].copy # None
    BY <1>3 DEF TypeOK, Writers
  <2> QED
    BY <1>2, <1>4, <2>1, <2>2 DEF TypeOK
<1>6. BusyInv(h)'
  BY <1>1, <1>2, <1>3 DEF BusyInv, RecorderInv, HasRecord
<1>7. ASSUME NEW g \in Busy PROVE BusyInv(g)'
  <2>1. BusyInv(g) /\ work'[g] = work[g]
    BY <1>3 DEF TwinInv
  <2>2. \A k \in Writers : work'[k] = work[k]
    BY <1>3 DEF Writers
  <2>3. work[g].todo = "twin" => WriterInv(g)'
    BY <1>2, <1>3, <1>4, <2>1, <2>2 DEF BusyInv, WriterInv
  <2>4. work[g].todo = "record" => RecorderInv(g)'
    BY <1>2, <1>4, <2>1 DEF BusyInv, RecorderInv
  <2> QED
    BY <1>2, <2>1, <2>3, <2>4 DEF BusyInv
<1>8. begun' \subseteq Recorded' \cup unrecorded' \cup {work'[g].op : g \in Busy'}
  <2>1. \A g \in Busy : work[g].op \in {work'[k].op : k \in Busy'}
    BY <1>3
  <2>2. o \in {work'[k].op : k \in Busy'}
    BY <1>1, <1>3
  <2> QED
    BY <1>2, <1>4, <2>1, <2>2 DEF TwinInv
<1> QED
  BY <1>2, <1>3, <1>4, <1>5, <1>6, <1>7, <1>8 DEF TwinInv

-------------------------------------------------------------------------------
(* A handler moves on, or ends, leaving the others' copies alone.          *)
Moves(h) ==
  /\ work' \in [Handlers -> Work \cup {None}]
  /\ \A g \in Handlers \ {h} : work'[g] = work[g]
  /\ work'[h] = None \/ (work'[h].op = work[h].op /\ work'[h].todo = "record")

LEMMA MovesFrame ==
  ASSUME TypeOK, NEW h \in Busy, Moves(h)
  PROVE  /\ Writers' \subseteq Writers /\ h \notin Writers'
         /\ Busy' \subseteq Busy /\ Busy \ {h} \subseteq Busy'
         /\ \A g \in Busy \ {h} : work'[g] = work[g]
         /\ work'[h] # None => h \in Busy' /\ work'[h].op = work[h].op
                               /\ work'[h].todo = "record"
         /\ work'[h] = None => h \notin Busy'
  BY DEF Moves, Busy, Writers

(* The requests that are accounted for stay so when the one whose handler  *)
(* ends is recorded or known to be unrecorded.                             *)
LEMMA MovesAccounts ==
  ASSUME TypeOK, TwinInv, NEW h \in Busy, Moves(h),
         begun' = begun, Recorded \subseteq Recorded', unrecorded \subseteq unrecorded',
         work'[h] = None => work[h].op \in Recorded' \cup unrecorded'
  PROVE  begun' \subseteq Recorded' \cup unrecorded' \cup {work'[g].op : g \in Busy'}
<1> SUFFICES ASSUME NEW o \in begun
             PROVE  o \in Recorded' \cup unrecorded' \cup {work'[g].op : g \in Busy'}
  OBVIOUS
<1>1. CASE o \in Recorded \cup unrecorded
  BY <1>1
<1>2. ASSUME NEW g \in Busy, o = work[g].op
      PROVE  o \in Recorded' \cup unrecorded' \cup {work'[k].op : k \in Busy'}
  BY <1>2, MovesFrame
<1> QED
  BY <1>1, <1>2 DEF TwinInv

LEMMA SaveTwinStep ==
  ASSUME TypeOK, TwinInv, NEW h \in Handlers, SaveTwin(h)
  PROVE  TypeOK' /\ TwinInv'
<1> DEFINE c == work[h].copy
<1>1. /\ h \in Writers /\ h \in Busy /\ work[h] \in Work /\ work[h].todo = "twin"
      /\ BusyInv(h) /\ WriterInv(h) /\ c \in Twin
  BY DEF SaveTwin, Writers, Busy, TypeOK, TwinInv, BusyInv, WriterInv
<1>2. /\ twin' = c /\ acts' = acts /\ begun' = begun /\ overlapped' = overlapped
      /\ synced' = IF work[h].kind = "sync" THEN begun ELSE synced
      /\ unrecorded' = IF work[h].kind \in {"apply", "sync"}
                       THEN unrecorded \cup {work[h].op} ELSE unrecorded
      /\ work' = [work EXCEPT ![h] = IF HasRecord(work[h].kind)
                                     THEN [work[h] EXCEPT !.todo = "record", !.copy = None]
                                     ELSE None]
  BY DEF SaveTwin, TypeOK
<1>3. Moves(h)
  BY <1>1, <1>2 DEF Moves, TypeOK, Work
<1>4. /\ Effects' = c.effects /\ Recorded' = Recorded
      /\ synced \subseteq synced' /\ synced' \subseteq begun
  BY <1>1, <1>2, TwinAssumption DEF TwinAssumption, Effects, Recorded, TypeOK
<1>5. work'[h] # None => /\ HasRecord(work[h].kind) /\ work'[h].kind = work[h].kind
                         /\ work'[h].status = work[h].status
  BY <1>1, <1>2 DEF TypeOK, Work
<1>6. work'[h] = None => work[h].kind \in {"apply", "sync"}
  BY ZenonT(40), <1>1, <1>2, TwinAssumption DEF TwinAssumption, TypeOK, Work, Kinds, HasRecord, WriterInv
<1>7. TypeOK'
  <2>1. \A g \in Writers' : work'[g].copy # None
    BY <1>1, <1>3, MovesFrame DEF TypeOK, Writers, Moves
  <2>2. unrecorded' \subseteq begun'
    BY <1>1, <1>2 DEF TypeOK, BusyInv
  <2> QED
    BY <1>1, <1>2, <1>3, <1>4, <2>1, <2>2 DEF TypeOK, Moves
<1>8. Fits(c, overlapped', synced')
  BY <1>1, <1>2 DEF WriterInv, Fits
<1>9. ASSUME NEW o \in begun, o \in overlapped \cup synced \cup Effects
      PROVE  o \in overlapped' \cup synced' \cup Effects'
  BY <1>1, <1>2, <1>4, <1>9 DEF WriterInv
<1>10. ASSUME NEW g \in Busy, g # h PROVE BusyInv(g)'
  <2>1. BusyInv(g) /\ work'[g] = work[g]
    BY <1>1, <1>3, <1>10, MovesFrame DEF TwinInv
  <2>2. work[g].todo = "twin" => WriterInv(g)'
    <3> SUFFICES ASSUME work[g].todo = "twin" PROVE WriterInv(g)'
      OBVIOUS
    <3>1. g \in Writers /\ WriterInv(g)
      BY <2>1 DEF Writers, BusyInv
    <3>2. /\ work[g].op \in overlapped /\ work[g].copy.effects \subseteq overlapped
          /\ c.effects \subseteq overlapped
      BY <1>1, <1>10, <3>1 DEF WriterInv
    <3>3. Fits(work[g].copy, overlapped', synced')
      BY <1>2, <3>1, <3>2 DEF WriterInv, Fits
    <3>4. Writers' \subseteq Writers /\ Effects' \ overlapped' = {}
      BY <1>1, <1>2, <1>3, <1>4, <3>2, MovesFrame
    <3>5. begun' = begun /\ overlapped' = overlapped
      BY <1>2
    <3> QED
      BY <2>1, <3>1, <3>2, <3>3, <3>4, <3>5 DEF WriterInv
  <2>3. work[g].todo = "record" => RecorderInv(g)'
    BY <1>9, <2>1 DEF BusyInv, RecorderInv
  <2>4. begun' = begun
    BY <1>2
  <2> QED
    BY <2>1, <2>2, <2>3, <2>4 DEF BusyInv
<1>11. work'[h] # None => BusyInv(h)'
  BY <1>1, <1>2, <1>3, <1>4, <1>5, MovesFrame DEF BusyInv, WriterInv, RecorderInv
<1>12. begun' \subseteq Recorded' \cup unrecorded' \cup {work'[g].op : g \in Busy'}
  BY <1>1, <1>2, <1>3, <1>4, <1>6, MovesAccounts
<1> HIDE DEF c
<1>13. \A o \in Recorded' : acts'[o].kind = "live" /\ acts'[o].status = "completed" =>
         o \in overlapped' \cup synced' \cup Effects'
  BY <1>2, <1>4, <1>9 DEF TwinInv
<1>14. \A g \in Busy' : BusyInv(g)'
  BY <1>1, <1>3, <1>10, <1>11, MovesFrame
<1>15. Effects' \subseteq begun' /\ Recorded' \subseteq begun'
  BY <1>1, <1>2, <1>4 DEF c, WriterInv, TwinInv
<1> QED
  BY <1>2, <1>7, <1>8, <1>12, <1>13, <1>14, <1>15 DEF TwinInv

(* A step that leaves the twin alone keeps what the other handlers hold.   *)
LEMMA OthersKeep ==
  ASSUME TypeOK, TwinInv, NEW h \in Busy, Moves(h), twin' = twin, begun' = begun,
         overlapped' = overlapped, synced' = synced
  PROVE  \A g \in Busy' : g # h => BusyInv(g)'
<1> SUFFICES ASSUME NEW g \in Busy', g # h PROVE BusyInv(g)'
  OBVIOUS
<1>1. g \in Busy /\ BusyInv(g) /\ work'[g] = work[g] /\ Writers' \subseteq Writers
  BY MovesFrame DEF TwinInv
<1>2. Effects' = Effects
  BY DEF Effects
<1>3. \A k \in Writers' : k \in Writers /\ work'[k] = work[k]
  BY MovesFrame DEF Writers
<1>4. work[g].todo = "twin" => WriterInv(g)'
  BY <1>1, <1>2, <1>3 DEF BusyInv, WriterInv
<1>5. work[g].todo = "record" => RecorderInv(g)'
  BY <1>1, <1>2 DEF BusyInv, RecorderInv
<1> QED
  BY <1>1, <1>4, <1>5 DEF BusyInv

LEMMA SaveTwinFailsStep ==
  ASSUME TypeOK, TwinInv, NEW h \in Handlers, SaveTwinFails(h)
  PROVE  TypeOK' /\ TwinInv'
<1>1. /\ h \in Writers /\ h \in Busy /\ work[h] \in Work /\ BusyInv(h)
  BY DEF SaveTwinFails, Writers, Busy, TypeOK, TwinInv
<1>2. /\ twin' = twin /\ acts' = acts /\ begun' = begun /\ overlapped' = overlapped
      /\ synced' = synced
      /\ Effects' = Effects /\ Recorded' = Recorded
  BY DEF SaveTwinFails, Effects, Recorded
<1>3. unrecorded' = IF work[h].kind = "live" THEN unrecorded
                    ELSE unrecorded \cup {work[h].op}
  BY DEF SaveTwinFails
<1>4. work' = [work EXCEPT ![h] = IF work[h].kind = "live"
                 THEN [work[h] EXCEPT !.todo = "record", !.copy = None, !.status = "failed"]
                 ELSE None]
  BY DEF SaveTwinFails, TypeOK
<1>5. Moves(h)
  BY <1>1, <1>4 DEF Moves, TypeOK, Work
<1>6. work'[h] = None => work[h].kind # "live"
  BY ZenonT(40), <1>1, <1>4, TwinAssumption DEF TwinAssumption, TypeOK, Work
<1>7. work'[h] # None => /\ work'[h].kind = "live" /\ work'[h].status = "failed"
                         /\ work'[h].op = work[h].op /\ work'[h].todo = "record"
  BY <1>1, <1>4 DEF TypeOK, Work
<1>8. TypeOK'
  <2>1. \A g \in Writers' : work'[g].copy # None
    BY <1>1, <1>5, MovesFrame DEF TypeOK, Writers, Moves
  <2>2. unrecorded' \subseteq begun'
    BY <1>1, <1>2, <1>3 DEF TypeOK, BusyInv
  <2> QED
    BY <1>1, <1>2, <1>5, <2>1, <2>2 DEF TypeOK, Moves
<1>9. work'[h] # None => BusyInv(h)'
  BY <1>1, <1>2, <1>7 DEF BusyInv, RecorderInv, HasRecord
<1>10. begun' \subseteq Recorded' \cup unrecorded' \cup {work'[g].op : g \in Busy'}
  BY <1>1, <1>2, <1>3, <1>5, <1>6, MovesAccounts
<1>11. \A g \in Busy' : BusyInv(g)'
  BY <1>1, <1>2, <1>5, <1>9, OthersKeep, MovesFrame
<1> QED
  BY <1>2, <1>8, <1>10, <1>11 DEF TwinInv

LEMMA SaveActuationStep ==
  ASSUME TypeOK, TwinInv, NEW h \in Handlers, SaveActuation(h)
  PROVE  TypeOK' /\ TwinInv'
<1> DEFINE r == [kind |-> work[h].kind, of |-> work[h].of, status |-> work[h].status]
<1>1. /\ h \in Busy /\ work[h] \in Work /\ work[h].todo = "record" /\ work[h].op \in Ops
      /\ BusyInv(h) /\ RecorderInv(h)
  BY DEF SaveActuation, Busy, TypeOK, TwinInv, BusyInv, Work
<1>2. /\ twin' = twin /\ begun' = begun /\ overlapped' = overlapped
      /\ synced' = synced /\ unrecorded' = unrecorded
      /\ acts' = [acts EXCEPT ![work[h].op] = r]
      /\ work' = [work EXCEPT ![h] = None]
      /\ Effects' = Effects
  BY DEF SaveActuation, Effects
<1>3. /\ r \in Record /\ r.kind = work[h].kind /\ r.status = work[h].status
  BY <1>1 DEF Record, Work, RecorderInv, HasRecord
<1> HIDE DEF r
<1>4. Moves(h) /\ work'[h] = None
  BY <1>1, <1>2 DEF Moves, TypeOK
<1>5. /\ acts'[work[h].op] = r /\ Recorded' = Recorded \cup {work[h].op}
      /\ \A o \in Ops : o # work[h].op => acts'[o] = acts[o]
  BY <1>1, <1>2, <1>3, TwinAssumption DEF TwinAssumption, TypeOK, Recorded
<1>6. TypeOK'
  <2>1. \A g \in Writers' : work'[g].copy # None
    BY <1>1, <1>4, MovesFrame DEF TypeOK, Writers, Moves
  <2>2. acts' \in [Ops -> Record \cup {None}]
    BY <1>1, <1>2, <1>3 DEF TypeOK
  <2>3. \A o \in Recorded' : acts'[o].status = "rolled_back" <=> acts'[o].kind = "rollback"
    BY <1>1, <1>3, <1>5 DEF TypeOK, Recorded, BusyInv
  <2> QED
    BY <1>2, <1>4, <2>1, <2>2, <2>3 DEF TypeOK, Moves
<1>7. begun' \subseteq Recorded' \cup unrecorded' \cup {work'[g].op : g \in Busy'}
  BY <1>1, <1>2, <1>4, <1>5, MovesAccounts
<1>8. \A g \in Busy' : BusyInv(g)'
  BY <1>1, <1>2, <1>4, OthersKeep, MovesFrame
<1>9. \A o \in Recorded' : acts'[o].kind = "live" /\ acts'[o].status = "completed" =>
        o \in overlapped' \cup synced' \cup Effects'
  BY <1>1, <1>2, <1>3, <1>5 DEF TwinInv, RecorderInv, Recorded
<1> QED
  BY <1>1, <1>2, <1>5, <1>6, <1>7, <1>8, <1>9 DEF TwinInv, BusyInv

LEMMA SaveActuationFailsStep ==
  ASSUME TypeOK, TwinInv, NEW h \in Handlers, SaveActuationFails(h)
  PROVE  TypeOK' /\ TwinInv'
<1>1. /\ h \in Busy /\ work[h] \in Work /\ work[h].todo = "record"
      /\ BusyInv(h) /\ RecorderInv(h)
  BY DEF SaveActuationFails, Busy, TypeOK, TwinInv, BusyInv
<1>2. /\ twin' = twin /\ acts' = acts /\ begun' = begun /\ overlapped' = overlapped
      /\ synced' = synced
      /\ Effects' = Effects /\ Recorded' = Recorded
  BY DEF SaveActuationFails, Effects, Recorded
<1>3. unrecorded' = IF work[h].kind = "live" /\ work[h].status # "failed"
                    THEN unrecorded ELSE unrecorded \cup {work[h].op}
  BY DEF SaveActuationFails
<1>4. work' = [work EXCEPT ![h] = IF GivesUp(work[h]) THEN None
                                  ELSE [work[h] EXCEPT !.status = "failed"]]
  BY DEF SaveActuationFails, TypeOK
<1>5. Moves(h)
  BY <1>1, <1>4 DEF Moves, TypeOK, Work
<1>6. work'[h] = None => GivesUp(work[h])
  BY <1>1, <1>4, TwinAssumption DEF TwinAssumption, TypeOK, Work
<1>7. work'[h] # None => /\ work'[h].kind = "live" /\ work'[h].status = "failed"
                         /\ work'[h].op = work[h].op /\ work'[h].todo = "record"
  BY <1>1, <1>4 DEF TypeOK, Work, GivesUp
<1>8. TypeOK'
  <2>1. \A g \in Writers' : work'[g].copy # None
    BY <1>1, <1>5, MovesFrame DEF TypeOK, Writers, Moves
  <2>2. unrecorded' \subseteq begun'
    BY <1>1, <1>2, <1>3 DEF TypeOK, BusyInv
  <2> QED
    BY <1>1, <1>2, <1>5, <2>1, <2>2 DEF TypeOK, Moves
<1>9. work'[h] # None => BusyInv(h)'
  BY <1>1, <1>2, <1>7 DEF BusyInv, RecorderInv, HasRecord
<1>10. begun' \subseteq Recorded' \cup unrecorded' \cup {work'[g].op : g \in Busy'}
  BY <1>1, <1>2, <1>3, <1>5, <1>6, MovesAccounts DEF GivesUp
<1>11. \A g \in Busy' : BusyInv(g)'
  BY <1>1, <1>2, <1>5, <1>9, OthersKeep, MovesFrame
<1> QED
  BY <1>2, <1>8, <1>10, <1>11 DEF TwinInv

LEMMA CrashStep == TypeOK /\ TwinInv /\ Crash => TypeOK' /\ TwinInv'
<1> SUFFICES ASSUME TypeOK, TwinInv, Crash PROVE TypeOK' /\ TwinInv'
  OBVIOUS
<1>1. /\ twin' = twin /\ acts' = acts /\ begun' = begun /\ overlapped' = overlapped
      /\ synced' = synced /\ Effects' = Effects /\ Recorded' = Recorded
      /\ unrecorded' = unrecorded \cup {work[h].op : h \in Busy}
      /\ work' = [h \in Handlers |-> None]
  BY DEF Crash, Effects, Recorded
<1>2. Busy' = {} /\ Writers' = {}
  BY <1>1 DEF Busy, Writers
<1>3. unrecorded' \subseteq begun'
  BY <1>1 DEF TypeOK, TwinInv, BusyInv
<1> QED
  BY <1>1, <1>2, <1>3 DEF TypeOK, TwinInv

-------------------------------------------------------------------------------
LEMMA StartsStep ==
  ASSUME TypeOK, TwinInv, NEW h \in Handlers, NEW o \in Ops,
         \/ ActuateDry(h, o) \/ ActuateLive(h, o) \/ ActuateFails(h, o)
         \/ SyncTwin(h, o) \/ ApplyRecommendation(h, o)
         \/ \E of \in Ops : Rollback(h, o, of)
  PROVE  TypeOK' /\ TwinInv'
<1> DEFINE statuses == {"completed", "failed", "rolled_back"}
<1>1. twin # None => twin \in Twin /\ Effects = twin.effects
                     /\ (twin.diverged => twin.effects # {})
  BY DEF TypeOK, TwinInv, Fits, Effects
<1>2. twin = None => Effects = {}
  BY DEF Effects
<1>3. CASE ActuateLive(h, o)
  <2> DEFINE base == IF twin = None THEN BuiltTwin ELSE twin
             copy == [base EXCEPT !.effects = @ \cup {o}, !.full = FALSE, !.diverged = TRUE]
  <2>1. StartWriting(h, o, "live", None, copy, "completed")
    BY <1>3 DEF ActuateLive
  <2>2. base \in Twin /\ base.effects = Effects
    BY <1>1, <1>2 DEF Twin, BuiltTwin
  <2> HIDE DEF base
  <2>3. copy \in Twin /\ copy.effects = Effects \cup {o}
    BY <2>2 DEF Twin
  <2> HIDE DEF copy
  <2> QED
    BY <2>1, <2>3, StartStep DEF Kinds
<1>4. CASE SyncTwin(h, o)
  <2>0. PICK nodes \in BOOLEAN :
          StartWriting(h, o, "sync", None,
            [effects |-> {}, nodes |-> nodes, full |-> TRUE, diverged |-> FALSE], "completed")
    BY <1>4 DEF SyncTwin
  <2> DEFINE copy == [effects |-> {}, nodes |-> nodes, full |-> TRUE, diverged |-> FALSE]
  <2>1. StartWriting(h, o, "sync", None, copy, "completed")
    BY <2>0
  <2>2. copy \in Twin /\ copy.effects = {} /\ ~copy.diverged
    BY DEF Twin
  <2> HIDE DEF copy
  <2> QED
    BY <2>1, <2>2, StartStep DEF Kinds
<1>5. CASE ApplyRecommendation(h, o)
  <2> DEFINE copy == [twin EXCEPT !.effects = @ \cup {o}, !.diverged = TRUE]
  <2>1. StartWriting(h, o, "apply", None, copy, "completed")
    BY <1>5 DEF ApplyRecommendation
  <2>2. copy \in Twin /\ copy.effects = Effects \cup {o}
    BY <1>1, <1>5 DEF Twin, ApplyRecommendation
  <2> HIDE DEF copy
  <2> QED
    BY <2>1, <2>2, StartStep DEF Kinds
<1>6. ASSUME NEW of \in Ops, Rollback(h, o, of) PROVE TypeOK' /\ TwinInv'
  <2> DEFINE copy == [twin EXCEPT !.diverged = FALSE]
  <2>1. StartWriting(h, o, "rollback", of, copy, "rolled_back")
    BY <1>6 DEF Rollback
  <2>2. copy \in Twin /\ copy.effects = Effects /\ ~copy.diverged
    BY <1>1, <1>6 DEF Twin, Rollback
  <2> HIDE DEF copy
  <2> QED
    BY <2>1, <2>2, StartStep DEF Kinds
<1>7. CASE ActuateDry(h, o) \/ ActuateFails(h, o)
  BY <1>7, StartRecordingStep DEF ActuateDry, ActuateFails
<1> QED
  BY <1>3, <1>4, <1>5, <1>6, <1>7

LEMMA TwinStep == TypeOK /\ TwinInv /\ [Next]_vars => TypeOK' /\ TwinInv'
<1> SUFFICES ASSUME TypeOK, TwinInv, [Next]_vars PROVE TypeOK' /\ TwinInv'
  OBVIOUS
<1>1. CASE UNCHANGED vars
  BY <1>1 DEF vars, TypeOK, TwinInv, BusyInv, WriterInv, RecorderInv, Busy, Writers,
              Recorded, Effects
<1>2. ASSUME NEW h \in Handlers,
             SaveTwin(h) \/ SaveTwinFails(h) \/ SaveActuation(h) \/ SaveActuationFails(h)
      PROVE  TypeOK' /\ TwinInv'
  BY <1>2, SaveTwinStep, SaveTwinFailsStep, SaveActuationStep, SaveActuationFailsStep
<1> QED
  BY <1>1, <1>2, StartsStep, CrashStep DEF Next

LEMMA TwinInvariant == Spec => [](TypeOK /\ TwinInv)
  BY TwinInit, TwinStep, PTL DEF Spec

(* The twin and the audit records are well formed, and no record is ever   *)
(* saved as pending or in progress.                                        *)
THEOREM TwinIsTyped == Spec => []TypeOK
  BY TwinInvariant, PTL

(* A live actuation that was recorded as completed is in the twin until a  *)
(* sync, unless its handler overlapped another one.                        *)
THEOREM ReportsAreTrue == Spec => []ReportedIsApplied
<1>1. TwinInv => ReportedIsApplied
  BY DEF TwinInv, ReportedIsApplied
<1> QED
  BY <1>1, TwinInvariant, PTL

(* Nothing survives a sync but what overlapped, and only a changed twin is *)
(* marked as diverged.                                                     *)
THEOREM SyncsDiscard == Spec => []SyncDiscards
<1>1. TypeOK /\ TwinInv => SyncDiscards
  BY DEF TypeOK, TwinInv, SyncDiscards, Fits, Effects
<1> QED
  BY <1>1, TwinInvariant, PTL

(* Every change in the twin is recorded, will be, or was lost to a crash,  *)
(* a double failure or a path that records nothing.                        *)
THEOREM TrailIsComplete == Spec => []EffectsAreRecorded
<1>1. TwinInv => EffectsAreRecorded
  BY DEF TwinInv, EffectsAreRecorded
<1> QED
  BY <1>1, TwinInvariant, PTL

-------------------------------------------------------------------------------
(* The refinement: a save is its request's own change of the twin as it    *)
(* stands, because a copy whose request overlapped nobody's was made from  *)
(* the twin that it replaces; and what else a save can replace, and write, *)
(* is all tainted.                                                         *)
AsIf(w, t) ==
  \/ /\ w.kind = "live"
     /\ w.copy = [(IF t = None THEN BuiltTwin ELSE t)
                    EXCEPT !.effects = @ \cup {w.op}, !.full = FALSE, !.diverged = TRUE]
  \/ /\ w.kind = "apply" /\ t # None /\ t.full
     /\ w.copy = [t EXCEPT !.effects = @ \cup {w.op}, !.diverged = TRUE]
  \/ /\ w.kind = "rollback" /\ t # None
     /\ w.copy = [t EXCEPT !.diverged = FALSE]
  \/ /\ w.kind = "sync"
     /\ \E nodes \in BOOLEAN :
          w.copy = [effects |-> {}, nodes |-> nodes, full |-> TRUE, diverged |-> FALSE]

Tainted(w, taint) == w.op \in taint => w.copy.effects \subseteq taint

ExactInv ==
  \A h \in Writers :
    /\ Tainted(work[h], overlapped)
    /\ (work[h].op \notin overlapped \/ work[h].kind = "sync") => AsIf(work[h], twin)

LEMMA ExactInit == Init => ExactInv /\ Register!RegisterInit
  BY DEF Init, ExactInv, Writers, Busy, Register!RegisterInit

LEMMA SyncAsIf ==
  ASSUME NEW w, NEW s, NEW t, w.kind = "sync", AsIf(w, s)
  PROVE  AsIf(w, t)
  BY DEF AsIf

(* A step that takes no copy and leaves the twin alone.                    *)
LEMMA ExactFrame ==
  ASSUME ExactInv, UNCHANGED <<twin, overlapped>>,
         \A g \in Writers' : g \in Writers /\ work'[g] = work[g]
  PROVE  ExactInv'
  BY DEF ExactInv

LEMMA StartExact ==
  ASSUME TypeOK, TwinInv, ExactInv, NEW h \in Handlers, NEW o \in Ops, NEW kind, NEW of,
         NEW copy, NEW status, StartWriting(h, o, kind, of, copy, status),
         NEW w, AsIf(w, twin),
         w = [op |-> o, kind |-> kind, of |-> of, todo |-> "twin",
              copy |-> copy, status |-> status]
  PROVE  ExactInv'
<1>1. w.op = o /\ w.copy = copy /\ w.kind = kind /\ AsIf(w, twin)
  OBVIOUS
<1>2. /\ o \notin begun /\ work' = [work EXCEPT ![h] = w] /\ overlapped' = Overlap(o, copy)
      /\ twin' = twin /\ o \notin overlapped
  BY DEF StartWriting, Start, TypeOK
<1>3. work'[h] = w /\ \A g \in Writers' : g = h \/ (g \in Writers /\ work'[g] = work[g])
  BY <1>2 DEF TypeOK, Busy, Writers
<1>4. Tainted(w, overlapped')
  <2>1. CASE Writers = {}
    BY <1>1, <1>2, <2>1 DEF Overlap, Tainted
  <2>2. CASE Writers # {}
    BY <1>1, <1>2, <2>2, OverlapTaints DEF Tainted
  <2> QED
    BY <2>1, <2>2
<1>5. ASSUME NEW g \in Writers
      PROVE  /\ work[g].op \in overlapped' /\ work[g].copy.effects \subseteq overlapped'
             /\ work[g].kind = "sync" => AsIf(work[g], twin)
  BY <1>2, OverlapTaints DEF ExactInv
<1>6. ASSUME NEW g \in Writers'
      PROVE  /\ Tainted(work'[g], overlapped')
             /\ (work'[g].op \notin overlapped' \/ work'[g].kind = "sync")
                  => AsIf(work'[g], twin')
  <2>1. CASE g = h
    BY <1>1, <1>2, <1>3, <1>4, <2>1
  <2>2. CASE g # h
    BY <1>2, <1>3, <1>5, <1>6, <2>2 DEF Tainted
  <2> QED
    BY <2>1, <2>2
<1> QED
  BY <1>6 DEF ExactInv

LEMMA SaveExact ==
  ASSUME TypeOK, TwinInv, ExactInv, NEW h \in Handlers, SaveTwin(h)
  PROVE  ExactInv'
<1>1. h \in Writers /\ h \in Busy /\ overlapped' = overlapped
  BY DEF SaveTwin, Writers
<1>2. \A g \in Writers' : g # h /\ g \in Writers /\ work'[g] = work[g]
  <2>1. work' = [work EXCEPT ![h] = IF HasRecord(work[h].kind)
                                    THEN [work[h] EXCEPT !.todo = "record", !.copy = None]
                                    ELSE None]
    BY DEF SaveTwin, TypeOK
  <2>2. work[h] \in Work
    BY <1>1 DEF TypeOK, Busy
  <2>3. work'[h] = None \/ work'[h].todo = "record"
    BY <2>1, <2>2 DEF TypeOK, Work
  <2>4. \A g \in Handlers : g # h => work'[g] = work[g]
    BY <2>1 DEF TypeOK
  <2> QED
    BY <2>3, <2>4 DEF Writers, Busy
<1>3. \A g \in Writers : g # h => work[g].op \in overlapped
  BY <1>1 DEF TwinInv, BusyInv, WriterInv, Writers
<1> QED
  BY <1>1, <1>2, <1>3, SyncAsIf DEF ExactInv

LEMMA StartsExact ==
  ASSUME TypeOK, TwinInv, ExactInv, NEW h \in Handlers, NEW o \in Ops,
         \/ ActuateDry(h, o) \/ ActuateLive(h, o) \/ ActuateFails(h, o)
         \/ SyncTwin(h, o) \/ ApplyRecommendation(h, o)
         \/ \E of \in Ops : Rollback(h, o, of)
  PROVE  ExactInv' /\ UNCHANGED twin /\ \E met \in SUBSET Ops : Register!Met(met)
<1>1. ASSUME ActuateLive(h, o) PROVE ExactInv'
  <2> DEFINE copy == [(IF twin = None THEN BuiltTwin ELSE twin)
                        EXCEPT !.effects = @ \cup {o}, !.full = FALSE, !.diverged = TRUE]
             w == [op |-> o, kind |-> "live", of |-> None, todo |-> "twin",
                   copy |-> copy, status |-> "completed"]
  <2>1. StartWriting(h, o, "live", None, copy, "completed")
    BY <1>1 DEF ActuateLive
  <2>2. w.op = o /\ w.kind = "live" /\ w.copy = copy
    OBVIOUS
  <2>3. AsIf(w, twin)
    <3> HIDE DEF w
    <3> QED
      BY <2>2 DEF AsIf
  <2> HIDE DEF copy
  <2> QED
    BY <2>1, <2>3, StartExact
<1>2. ASSUME SyncTwin(h, o) PROVE ExactInv'
  <2>0. PICK nodes \in BOOLEAN :
          StartWriting(h, o, "sync", None,
            [effects |-> {}, nodes |-> nodes, full |-> TRUE, diverged |-> FALSE], "completed")
    BY <1>2 DEF SyncTwin
  <2> DEFINE copy == [effects |-> {}, nodes |-> nodes, full |-> TRUE, diverged |-> FALSE]
             w == [op |-> o, kind |-> "sync", of |-> None, todo |-> "twin",
                   copy |-> copy, status |-> "completed"]
  <2>1. StartWriting(h, o, "sync", None, copy, "completed")
    BY <2>0
  <2>2. w.kind = "sync" /\ w.copy = copy
    OBVIOUS
  <2>3. AsIf(w, twin)
    <3> HIDE DEF w
    <3> QED
      BY <2>2 DEF AsIf
  <2> HIDE DEF copy
  <2> QED
    BY <2>1, <2>3, StartExact
<1>3. ASSUME ApplyRecommendation(h, o) PROVE ExactInv'
  <2> DEFINE copy == [twin EXCEPT !.effects = @ \cup {o}, !.diverged = TRUE]
             w == [op |-> o, kind |-> "apply", of |-> None, todo |-> "twin",
                   copy |-> copy, status |-> "completed"]
  <2>1. StartWriting(h, o, "apply", None, copy, "completed") /\ twin # None /\ twin.full
    BY <1>3 DEF ApplyRecommendation
  <2>2. w.op = o /\ w.kind = "apply" /\ w.copy = copy
    OBVIOUS
  <2>3. AsIf(w, twin)
    <3> HIDE DEF w
    <3> QED
      BY <2>1, <2>2 DEF AsIf
  <2> HIDE DEF copy
  <2> QED
    BY <2>1, <2>3, StartExact
<1>4. ASSUME NEW of \in Ops, Rollback(h, o, of) PROVE ExactInv'
  <2> DEFINE copy == [twin EXCEPT !.diverged = FALSE]
             w == [op |-> o, kind |-> "rollback", of |-> of, todo |-> "twin",
                   copy |-> copy, status |-> "rolled_back"]
  <2>1. StartWriting(h, o, "rollback", of, copy, "rolled_back") /\ twin # None
    BY <1>4 DEF Rollback
  <2>2. w.kind = "rollback" /\ w.copy = copy
    OBVIOUS
  <2>3. AsIf(w, twin)
    <3> HIDE DEF w
    <3> QED
      BY <2>1, <2>2 DEF AsIf
  <2> HIDE DEF copy
  <2> QED
    BY <2>1, <2>3, StartExact
<1>5. ASSUME ActuateDry(h, o) \/ ActuateFails(h, o) PROVE ExactInv'
  <2>1. /\ UNCHANGED <<twin, overlapped>>
        /\ \E w : w.todo = "record" /\ work' = [work EXCEPT ![h] = w]
    BY <1>5 DEF ActuateDry, ActuateFails, StartRecording, Start
  <2>2. \A g \in Writers' : g \in Writers /\ work'[g] = work[g]
    BY <2>1 DEF TypeOK, Writers, Busy
  <2> QED
    BY <2>1, <2>2, ExactFrame
<1>6. ExactInv'
  BY <1>1, <1>2, <1>3, <1>4, <1>5
<1>7. UNCHANGED twin /\ overlapped \subseteq overlapped'
  BY OverlapTaints
     DEF ActuateDry, ActuateLive, ActuateFails, SyncTwin, ApplyRecommendation, Rollback,
         StartWriting, StartRecording
<1>8. overlapped' = overlapped \cup overlapped' /\ overlapped' \in SUBSET Ops
  BY <1>7, StartsStep DEF TypeOK
<1> QED
  BY <1>6, <1>7, <1>8 DEF Register!Met

LEMMA ExactStep == TypeOK /\ TwinInv /\ ExactInv /\ [Next]_vars => ExactInv'
<1> SUFFICES ASSUME TypeOK, TwinInv, ExactInv, [Next]_vars PROVE ExactInv'
  OBVIOUS
<1>1. ASSUME NEW h \in Handlers,
             SaveTwinFails(h) \/ SaveActuation(h) \/ SaveActuationFails(h)
      PROVE  ExactInv'
  <2>1. /\ \A g \in Handlers : g # h => work'[g] = work[g]
        /\ UNCHANGED <<twin, overlapped>>
    BY <1>1 DEF SaveTwinFails, SaveActuation, SaveActuationFails, TypeOK
  <2>2. h \in Busy /\ work[h] \in Work
    BY <1>1 DEF SaveTwinFails, SaveActuation, SaveActuationFails, TypeOK, Writers, Busy
  <2>3. work'[h] = None \/ work'[h].todo = "record"
    <3>1. CASE SaveTwinFails(h)
      BY <3>1, <2>2 DEF SaveTwinFails, TypeOK, Work
    <3>2. CASE SaveActuation(h)
      BY <3>2, <2>2 DEF SaveActuation, TypeOK
    <3>3. CASE SaveActuationFails(h)
      BY <3>3, <2>2 DEF SaveActuationFails, TypeOK, Work
    <3> QED
      BY <1>1, <3>1, <3>2, <3>3
  <2>4. \A g \in Writers' : g \in Writers /\ work'[g] = work[g]
    BY <2>1, <2>3 DEF Writers, Busy
  <2> QED
    BY <2>1, <2>4, ExactFrame
<1>2. CASE Crash
  BY <1>2, ExactFrame DEF Crash, Writers, Busy
<1>3. CASE UNCHANGED vars
  BY <1>3, ExactFrame DEF vars, Writers, Busy
<1> QED
  BY <1>1, <1>2, <1>3, SaveExact, StartsExact DEF Next

LEMMA SaveAsIf ==
  ASSUME TypeOK, NEW h \in Handlers, SaveTwin(h), AsIf(work[h], twin)
  PROVE  Register!SerialNext
<1> DEFINE w == work[h]
<1>1. AsIf(w, twin) /\ w.op \in Ops /\ twin' = w.copy /\ UNCHANGED overlapped
  BY DEF SaveTwin, Writers, Busy, TypeOK, Work
<1> HIDE DEF w
<1>2. CASE w.kind = "live"
  BY <1>1, <1>2 DEF AsIf, BuiltTwin, Register!SerialNext, Register!Actuated, Register!Empty
<1>3. CASE w.kind = "apply"
  BY <1>1, <1>3 DEF AsIf, Register!SerialNext, Register!Applied
<1>4. CASE w.kind = "rollback"
  BY <1>1, <1>4 DEF AsIf, Register!SerialNext, Register!RolledBack
<1>5. CASE w.kind = "sync"
  BY <1>1, <1>5 DEF AsIf, Register!SerialNext, Register!Synced
<1> QED
  BY <1>1, <1>2, <1>3, <1>4, <1>5 DEF AsIf

LEMMA SaveRefines ==
  ASSUME TypeOK, TwinInv, ExactInv, NEW h \in Handlers, SaveTwin(h)
  PROVE  Register!RegisterNext
<1> DEFINE w == work[h]
<1>1. /\ h \in Writers /\ WriterInv(h) /\ twin' = w.copy /\ UNCHANGED overlapped
  BY DEF SaveTwin, Writers, Busy, TwinInv, BusyInv
<1>2. CASE AsIf(w, twin)
  BY <1>2, SaveAsIf DEF Register!RegisterNext
<1>3. CASE ~AsIf(w, twin)
  <2>1. w.op \in overlapped /\ w.kind # "sync" /\ w.copy.effects \subseteq overlapped
    BY <1>1, <1>3 DEF ExactInv, Tainted
  <2>2. Effects \subseteq overlapped
    BY <1>1, <2>1 DEF WriterInv
  <2>3. w.copy \in Register!Twin /\ (w.copy.diverged => w.copy.effects # {})
    BY <1>1 DEF WriterInv, Fits, Register!Twin, Twin
  <2>4. Register!Within(overlapped)
    BY <2>2 DEF Register!Within, Effects
  <2> QED
    BY <1>1, <2>1, <2>3, <2>4 DEF Register!RegisterNext, Register!Mixed
<1> QED
  BY <1>2, <1>3

LEMMA RegisterStep ==
  ASSUME TypeOK, TwinInv, ExactInv, [Next]_vars
  PROVE  [Register!RegisterNext]_(Register!registerVars)
<1>1. ASSUME NEW h \in Handlers,
             SaveTwinFails(h) \/ SaveActuation(h) \/ SaveActuationFails(h)
      PROVE  UNCHANGED <<twin, overlapped>>
  BY <1>1 DEF SaveTwinFails, SaveActuation, SaveActuationFails
<1>2. Crash \/ UNCHANGED vars => UNCHANGED <<twin, overlapped>>
  BY DEF Crash, vars
<1>3. ASSUME NEW h \in Handlers, NEW o \in Ops,
             \/ ActuateDry(h, o) \/ ActuateLive(h, o) \/ ActuateFails(h, o)
             \/ SyncTwin(h, o) \/ ApplyRecommendation(h, o)
             \/ \E of \in Ops : Rollback(h, o, of)
      PROVE  Register!RegisterNext
  BY <1>3, StartsExact DEF Register!RegisterNext
<1> QED
  BY <1>1, <1>2, <1>3, SaveRefines DEF Next, Register!registerVars

(* The twin is a register that requests change one at a time, for any      *)
(* number of handlers and requests, failed saves and process deaths.  In   *)
(* particular no rollback ever takes a change out of it.                   *)
THEOREM ImplementsTheRegister == Spec => ImplementsRegister
<1>1. TypeOK /\ TwinInv /\ ExactInv /\ [Next]_vars => (TypeOK /\ TwinInv /\ ExactInv)'
  BY TwinStep, ExactStep
<1>2. TypeOK /\ TwinInv /\ ExactInv /\ [Next]_vars
        => [Register!RegisterNext]_(Register!registerVars)
  BY RegisterStep
<1> QED
  BY <1>1, <1>2, TwinInit, ExactInit, PTL
     DEF Spec, ImplementsRegister, Register!RegisterSpec

-------------------------------------------------------------------------------
(* Without the race.  Nothing in the code keeps a handler from reading the *)
(* twin while another one is about to save it.  When something does, the   *)
(* twin is a plain register: every change that was reported is in it, and  *)
(* nothing of before a sync.                                               *)
OneWriterAtATime == \A g, h \in Writers : g = h
NoWritersMet     == overlapped = {}

EveryReportIsApplied ==
  \A o \in Recorded \ synced : acts[o].kind = "live" /\ acts[o].status = "completed" => o \in Effects

SyncsDiscardAll == Effects \cap synced = {}

LEMMA WritersTakeTurns ==
  TypeOK /\ TwinInv /\ NoWritersMet /\ OneWriterAtATime' /\ [Next]_vars => NoWritersMet'
<1> SUFFICES ASSUME TypeOK, TwinInv, NoWritersMet, OneWriterAtATime', [Next]_vars
             PROVE  NoWritersMet'
  OBVIOUS
<1>1. ASSUME NEW h \in Handlers, NEW o, NEW kind, NEW of, NEW copy, NEW status,
             StartWriting(h, o, kind, of, copy, status)
      PROVE  NoWritersMet'
  <2> DEFINE w == [op |-> o, kind |-> kind, of |-> of, todo |-> "twin",
                   copy |-> copy, status |-> status]
  <2>1. w.todo = "twin" /\ w.op = o /\ w.copy = copy
    OBVIOUS
  <2>2. work[h] = None /\ work' = [work EXCEPT ![h] = w] /\ overlapped' = Overlap(o, copy)
    BY <1>1 DEF StartWriting, Start
  <2> HIDE DEF w
  <2>3. work'[h] = w /\ \A g \in Handlers : g # h => work'[g] = work[g]
    BY <2>2 DEF TypeOK
  <2>4. w # None
    <3> SUFFICES ASSUME w = None PROVE FALSE
      OBVIOUS
    <3>1. Busy' = Busy /\ \A g \in Busy : work'[g] = work[g]
      BY <2>2, <2>3 DEF Busy
    <3>2. o \in begun' /\ o \notin begun /\ acts' = acts /\ unrecorded' = unrecorded
      BY <1>1 DEF StartWriting, Start
    <3>3. o \notin Recorded' /\ o \notin unrecorded'
      BY <3>2 DEF Recorded, TypeOK, TwinInv
    <3>4. PICK g \in Busy : work[g].op = o
      BY <3>1, <3>2, <3>3, TwinStep DEF TwinInv
    <3> QED
      BY <3>2, <3>4 DEF TwinInv, BusyInv
  <2>5. ASSUME NEW g \in Writers PROVE FALSE
    <3>1. g \in Handlers /\ g # h /\ g \in Writers'
      BY <2>2, <2>3, <2>5 DEF Writers, Busy
    <3>2. h \in Writers'
      BY <2>1, <2>3, <2>4 DEF Writers, Busy
    <3> QED
      BY <3>1, <3>2 DEF OneWriterAtATime
  <2> QED
    BY <2>2, <2>5 DEF Overlap, NoWritersMet
<1>2. ASSUME UNCHANGED overlapped PROVE NoWritersMet'
  BY <1>2 DEF NoWritersMet
<1>3. ASSUME NEW h \in Handlers, NEW o \in Ops,
             \/ ActuateDry(h, o) \/ ActuateLive(h, o) \/ ActuateFails(h, o)
             \/ SyncTwin(h, o) \/ ApplyRecommendation(h, o)
             \/ \E of \in Ops : Rollback(h, o, of)
      PROVE  NoWritersMet'
  <2>1. CASE ActuateDry(h, o) \/ ActuateFails(h, o)
    BY <1>2, <2>1 DEF ActuateDry, ActuateFails, StartRecording
  <2>2. CASE ~(ActuateDry(h, o) \/ ActuateFails(h, o))
    <3>1. \E kind, of, copy, status : StartWriting(h, o, kind, of, copy, status)
      BY <1>3, <2>2 DEF ActuateLive, SyncTwin, ApplyRecommendation, Rollback
    <3> QED
      BY <1>1, <3>1
  <2> QED
    BY <2>1, <2>2
<1>4. ASSUME NEW h \in Handlers,
             SaveTwin(h) \/ SaveTwinFails(h) \/ SaveActuation(h) \/ SaveActuationFails(h)
      PROVE  NoWritersMet'
  BY <1>2, <1>4 DEF SaveTwin, SaveTwinFails, SaveActuation, SaveActuationFails
<1>5. Crash \/ UNCHANGED vars => UNCHANGED overlapped
  BY DEF Crash, vars
<1> QED
  BY <1>2, <1>3, <1>4, <1>5 DEF Next

LEMMA SerialStep ==
  TypeOK /\ TwinInv /\ ExactInv /\ NoWritersMet /\ OneWriterAtATime' /\ [Next]_vars
    => [Register!SerialNext]_(Register!registerVars)
<1> SUFFICES ASSUME TypeOK, TwinInv, ExactInv, NoWritersMet, OneWriterAtATime', [Next]_vars
             PROVE  [Register!SerialNext]_(Register!registerVars)
  OBVIOUS
<1>1. UNCHANGED overlapped
  BY WritersTakeTurns DEF NoWritersMet
<1>2. ASSUME NEW h \in Handlers, SaveTwin(h)
      PROVE  Register!SerialNext
  <2>1. AsIf(work[h], twin)
    BY <1>2 DEF SaveTwin, ExactInv, NoWritersMet
  <2> QED
    BY <1>2, <2>1, SaveAsIf
<1>3. ASSUME ~\E h \in Handlers : SaveTwin(h)
      PROVE  UNCHANGED twin
  <2>1. ASSUME NEW h \in Handlers, NEW o \in Ops,
               \/ ActuateDry(h, o) \/ ActuateLive(h, o) \/ ActuateFails(h, o)
               \/ SyncTwin(h, o) \/ ApplyRecommendation(h, o)
               \/ \E of \in Ops : Rollback(h, o, of)
        PROVE  UNCHANGED twin
    BY <2>1, StartsExact
  <2>2. ASSUME NEW h \in Handlers,
               SaveTwinFails(h) \/ SaveActuation(h) \/ SaveActuationFails(h)
        PROVE  UNCHANGED twin
    BY <2>2 DEF SaveTwinFails, SaveActuation, SaveActuationFails
  <2>3. Crash \/ UNCHANGED vars => UNCHANGED twin
    BY DEF Crash, vars
  <2> QED
    BY <1>3, <2>1, <2>2, <2>3 DEF Next
<1> QED
  BY <1>1, <1>2, <1>3 DEF Register!registerVars

LEMMA NoneMet == Spec /\ []OneWriterAtATime => []NoWritersMet
<1>1. Init => NoWritersMet
  BY DEF Init, NoWritersMet
<1> QED
  BY <1>1, TwinInvariant, WritersTakeTurns, PTL DEF Spec

(* If no handler reads the twin while another is about to save it, every   *)
(* actuation that was reported as completed is in the twin until a sync.   *)
THEOREM TurnsKeepReports == Spec /\ []OneWriterAtATime => []EveryReportIsApplied
<1>1. TwinInv /\ NoWritersMet => EveryReportIsApplied
  BY DEF TwinInv, NoWritersMet, EveryReportIsApplied
<1> QED
  BY <1>1, NoneMet, TwinInvariant, PTL

(* Under the same condition a sync discards whatever was in the twin.      *)
THEOREM TurnsDiscard == Spec /\ []OneWriterAtATime => []SyncsDiscardAll
<1>1. NoWritersMet => (SyncDiscards => SyncsDiscardAll)
  BY DEF NoWritersMet, SyncDiscards, SyncsDiscardAll
<1> QED
  BY <1>1, NoneMet, SyncsDiscard, PTL

(* Under the same condition the twin is changed by one request at a time,  *)
(* and never mixed up.                                                     *)
THEOREM TurnsAreSerial == Spec /\ []OneWriterAtATime => Register!SerialSpec
<1>1. TypeOK /\ TwinInv /\ ExactInv /\ [Next]_vars => (TypeOK /\ TwinInv /\ ExactInv)'
  BY TwinStep, ExactStep
<1> QED
  BY <1>1, NoneMet, SerialStep, TwinInit, ExactInit, PTL DEF Spec, Register!SerialSpec
===============================================================================
