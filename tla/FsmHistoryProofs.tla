--------------------------- MODULE FsmHistoryProofs ---------------------------
(***************************************************************************)
(* The presence machine is the function of the observation history that    *)
(* StateFromHistory states, for every grace period and every history.      *)
(***************************************************************************)
EXTENDS FsmHistory, SequenceTheorems, TLAPS

(* Readings of the history never decrease and stay within the clock. *)
Ordered ==
    /\ \A i \in DOMAIN obs : FirstReading <= obs[i].t /\ obs[i].t <= clock
    /\ \A i, j \in DOMAIN obs : i <= j => obs[i].t <= obs[j].t
    /\ FirstReading <= clock

(* The grace timestamp is the reading of the first miss of the current run. *)
GraceFromHistory ==
    state \in {"away_grace", "away"} =>
        \E s \in DOMAIN obs :
            /\ Missing(s)
            /\ s = 1 \/ obs[s - 1].face
            /\ grace_started = obs[s].t

IInv == HTypeOK /\ Ordered /\ GraceFromHistory /\ StateFromHistory

------------------------------------------------------------------------------

Observation == [face : BOOLEAN, t : Nat]

(* What obs' = Append(obs, o) looks like, index by index. *)
LEMMA AppendFacts ==
    ASSUME NEW s \in Seq(Observation), NEW o \in Observation
    PROVE  /\ Append(s, o) \in Seq(Observation)
           /\ Len(s) \in Nat
           /\ DOMAIN s = 1..Len(s)
           /\ Len(Append(s, o)) = Len(s) + 1
           /\ DOMAIN Append(s, o) = 1..(Len(s) + 1)
           /\ \A i \in 1..Len(s) : s[i] \in Observation /\ Append(s, o)[i] = s[i]
           /\ Append(s, o)[Len(s) + 1] = o
           /\ Append(s, o) # << >>
           /\ s # << >> <=> Len(s) > 0
<1>1. /\ Append(s, o) \in Seq(Observation)
      /\ Len(Append(s, o)) = Len(s) + 1
      /\ \A i \in 1..Len(s) : Append(s, o)[i] = s[i]
      /\ Append(s, o)[Len(s) + 1] = o
  BY AppendProperties
<1>2. Len(s) \in Nat /\ DOMAIN s = 1..Len(s)
  BY LenProperties
<1>3. DOMAIN Append(s, o) = 1..(Len(s) + 1)
  BY <1>1, LenProperties
<1>4. \A i \in 1..Len(s) : s[i] \in Observation
  BY ElementOfSeq
<1>5. Append(s, o) # << >> /\ (s # << >> <=> Len(s) > 0)
  BY <1>1, <1>2, EmptySeq
<1>6. QED
  BY <1>1, <1>2, <1>3, <1>4, <1>5

LEMMA InitHolds == HInit => IInv
  BY ReadingAssumption
     DEF HInit, Init, IInv, HTypeOK, TypeOK, Ordered, GraceFromHistory,
         StateFromHistory, States, None

LEMMA TypePreserved == HTypeOK /\ [Next]_vars => HTypeOK'
<1> SUFFICES ASSUME HTypeOK, [Next]_vars PROVE HTypeOK'
  OBVIOUS
<1>1. CASE Tick
  BY <1>1 DEF Tick, fsm, HTypeOK, TypeOK
<1>2. ASSUME NEW face \in BOOLEAN, Observe(face) PROVE HTypeOK'
  <2>1. obs' \in Seq([face : BOOLEAN, t : Nat])
    <3>1. [face |-> face, t |-> clock] \in Observation
      BY <1>2 DEF Observation, HTypeOK, TypeOK
    <3>2. QED
      BY <1>2, <3>1, AppendFacts DEF Observe, HTypeOK, Observation
  <2>2. TypeOK'
    BY <1>2 DEF Observe, observe, FaceSeen, FaceLost, DeclareAway,
                StillMissing, StillRunning, fsm, HTypeOK, TypeOK, States, None
  <2>3. QED
    BY <2>1, <2>2 DEF HTypeOK
<1>3. CASE UNCHANGED vars
  BY <1>3 DEF vars, fsm, HTypeOK, TypeOK
<1>4. QED
  BY <1>1, <1>2, <1>3 DEF Next

(* fsm.py stores only states, readings and None, whatever it is shown. *)
THEOREM TypeCorrect == Spec => []HTypeOK
<1>1. HInit => HTypeOK
  BY InitHolds DEF IInv
<1>2. QED
  BY <1>1, TypePreserved, PTL DEF Spec

LEMMA StepPreserves ==
    ASSUME IInv, HTypeOK', NEW face \in BOOLEAN, Observe(face)
    PROVE  Ordered' /\ GraceFromHistory' /\ StateFromHistory'
<1> DEFINE o == [face |-> face, t |-> clock]
<1>0. PICK n \in Nat : n = Len(obs)
  BY LenProperties DEF IInv, HTypeOK
<1>1. o \in Observation /\ obs \in Seq(Observation) /\ obs' = Append(obs, o)
  BY DEF Observation, IInv, HTypeOK, TypeOK, Observe
<1>2. /\ n \in Nat
      /\ DOMAIN obs = 1..n /\ DOMAIN obs' = 1..(n + 1) /\ Len(obs') = n + 1
      /\ \A i \in 1..n : obs[i] \in Observation /\ obs'[i] = obs[i]
      /\ obs'[n + 1] = o
      /\ obs' # << >> /\ (obs # << >> <=> n > 0)
  BY <1>0, <1>1, AppendFacts
<1>3. clock \in Nat /\ Grace \in Int /\ FirstReading \in Nat \ {0}
  BY GraceAssumption, ReadingAssumption DEF IInv, HTypeOK, TypeOK
<1>4. clock' = clock /\ o.face = face /\ o.t = clock
  BY DEF Observe
<1>5. Ordered'
  <2>1. \A i \in 1..n : /\ obs[i].t \in Nat
                        /\ FirstReading <= obs[i].t /\ obs[i].t <= clock
    BY <1>2 DEF Ordered, IInv, Observation
  <2>2. \A i \in 1..(n + 1) : FirstReading <= obs'[i].t /\ obs'[i].t <= clock'
    BY <1>2, <1>3, <1>4, <2>1 DEF Ordered, IInv
  <2>3. \A i, j \in 1..(n + 1) : i <= j => obs'[i].t <= obs'[j].t
    <3>1. ASSUME NEW i \in 1..(n + 1), NEW j \in 1..(n + 1), i <= j
          PROVE  obs'[i].t <= obs'[j].t
      <4>1. CASE j = n + 1
        BY <1>2, <1>3, <1>4, <2>2, <4>1
      <4>2. CASE j # n + 1
        BY <1>2, <3>1, <4>2 DEF Ordered, IInv
      <4>3. QED
        BY <4>1, <4>2
    <3>2. QED
      BY <3>1
  <2>4. QED
    BY <1>2, <1>4, <2>2, <2>3 DEF Ordered, IInv
<1>6. /\ LastFace' = face
      /\ LastFace <=> (n > 0 /\ obs[n].face)
  BY <1>0, <1>2, <1>4 DEF LastFace
<1>7. \A i \in 1..n : Missing(i)' <=> Missing(i) /\ ~face
  BY <1>0, <1>2, <1>4 DEF Missing
<1>8. Missing(n + 1)' <=> ~face
  <2>1. (n + 1)..(n + 1) = {n + 1}
    BY <1>2
  <2>2. Missing(n + 1)' <=> \A k \in (n + 1)..(n + 1) : ~obs'[k].face
    BY <1>2 DEF Missing
  <2>3. QED
    BY <1>2, <1>4, <2>1, <2>2
<1>9. \A i \in 1..n : Missing(i) => ~obs[n].face
  BY <1>0, <1>2 DEF Missing
<1> HIDE DEF o
<1>10. CASE face /\ FaceSeen
  BY <1>2, <1>5, <1>6, <1>10 DEF FaceSeen, GraceFromHistory, StateFromHistory
<1>11. CASE ~face /\ FaceLost
  <2>1. \A i \in 1..n : ~Missing(i)
    BY <1>2, <1>6, <1>9, <1>11 DEF FaceLost, IInv, StateFromHistory
  <2>2. ~LongGone'
    BY <1>2, <1>7, <2>1 DEF LongGone
  <2>3. n + 1 = 1 \/ obs'[(n + 1) - 1].face
    <3>1. n = 0 \/ (n > 0 /\ obs[n].face)
      BY <1>2, <1>6, <1>11 DEF FaceLost, IInv, StateFromHistory
    <3>2. QED
      BY <1>2, <3>1
  <2>4. GraceFromHistory'
    BY <1>2, <1>4, <1>8, <1>11, <2>3 DEF FaceLost, GraceFromHistory
  <2>5. QED
    BY <1>2, <1>5, <1>6, <1>11, <2>2, <2>4 DEF FaceLost, StateFromHistory
<1>12. CASE ~face /\ (DeclareAway \/ StillMissing)
  <2>1. state \in {"away_grace", "away"} /\ grace_started' = grace_started
    BY <1>12 DEF DeclareAway, StillMissing, StillRunning, fsm
  <2>2. PICK s \in 1..n : /\ Missing(s)
                          /\ s = 1 \/ obs[s - 1].face
                          /\ grace_started = obs[s].t
    BY <1>2, <2>1 DEF IInv, GraceFromHistory
  <2>3. Started = obs[s].t /\ obs[s].t \in Nat
    BY <1>2, <1>3, <2>2 DEF Started, IInv, Ordered, Observation, None
  <2>4. GraceFromHistory'
    <3>1. Missing(s)' /\ (s = 1 \/ obs'[s - 1].face) /\ grace_started' = obs'[s].t
      BY <1>2, <1>7, <1>12, <2>1, <2>2
    <3>2. s \in DOMAIN obs'
      BY <1>2
    <3>3. QED
      BY <3>1, <3>2 DEF GraceFromHistory
  <2>5. ~LastFace' /\ ~LastFace /\ obs # << >>
    BY <1>2, <1>6, <1>9, <1>12, <2>2
  <2>6. LongGone <=> state = "away"
    BY <2>1, <2>5 DEF IInv, StateFromHistory
  <2>7. LongGone' <=> LongGone \/ GraceElapsed
    <3>1. LongGone => LongGone'
      BY <1>2, <1>7, <1>12 DEF LongGone
    <3>2. GraceElapsed => LongGone'
      <4>1. GraceElapsed => obs'[n + 1].t - obs'[s].t >= Grace
        BY <1>2, <1>4, <2>3 DEF GraceElapsed
      <4>2. s < n + 1 /\ s \in DOMAIN obs' /\ n + 1 \in DOMAIN obs'
        BY <1>2
      <4>3. QED
        BY <1>7, <1>12, <2>2, <4>1, <4>2 DEF LongGone
    <3>3. ASSUME NEW i \in 1..n, Missing(i)
          PROVE  obs[s].t <= obs[i].t
      <4>1. s <= i
        BY <1>0, <1>2, <2>2, <3>3 DEF Missing
      <4>2. QED
        BY <1>2, <4>1 DEF IInv, Ordered
    <3>4. ASSUME LongGone', ~LongGone PROVE GraceElapsed
      <4>1. PICK i, j \in DOMAIN obs' :
                i < j /\ Missing(i)' /\ obs'[j].t - obs'[i].t >= Grace
        BY <3>4 DEF LongGone
      <4>2. i \in 1..n /\ Missing(i)
        BY <1>2, <1>7, <4>1
      <4>3. j = n + 1
        BY <1>2, <3>4, <4>1, <4>2 DEF LongGone
      <4>4. obs[i].t \in Nat /\ clock - obs[i].t >= Grace
        BY <1>2, <1>4, <4>1, <4>2, <4>3 DEF Observation
      <4>5. clock - obs[s].t >= Grace
        BY <1>3, <2>3, <3>3, <4>2, <4>4
      <4>6. QED
        BY <2>3, <4>5 DEF GraceElapsed
    <3>5. QED
      BY <3>1, <3>2, <3>4
  <2>8. StateFromHistory'
    <3>1. state' = IF LongGone' THEN "away" ELSE "away_grace"
      BY <1>12, <2>1, <2>6, <2>7 DEF DeclareAway, StillMissing, StillRunning, fsm
    <3>2. QED
      BY <1>2, <2>5, <3>1 DEF StateFromHistory
  <2>9. QED
    BY <1>5, <2>4, <2>8
<1>13. QED
  BY <1>10, <1>11, <1>12 DEF Observe, observe

(* PRESENT exactly after a face, AWAY exactly when two misses of the       *)
(* current run lie a grace period apart: observe() computes that of every  *)
(* history, for every grace period and every monotone sequence of readings.*)
THEOREM HistoryDetermines == Spec => []StateFromHistory
<1>1. HInit => IInv
  BY InitHolds
<1>2. IInv /\ [Next]_vars => IInv'
  <2> SUFFICES ASSUME IInv, [Next]_vars PROVE IInv'
    OBVIOUS
  <2>1. HTypeOK'
    BY TypePreserved DEF IInv
  <2>2. CASE Tick \/ UNCHANGED vars
    <3>1. UNCHANGED <<state, last_seen, grace_started, obs>>
      BY <2>2 DEF Tick, vars, fsm
    <3>2. GraceFromHistory' /\ StateFromHistory'
      BY <3>1 DEF IInv, GraceFromHistory, StateFromHistory, Missing, LongGone, LastFace
    <3>3. clock' \in Nat /\ clock <= clock' /\ clock \in Nat
      BY <2>2 DEF Tick, vars, IInv, HTypeOK, TypeOK
    <3>4. \A i \in DOMAIN obs : obs[i].t \in Nat
      <4>1. obs \in Seq([face : BOOLEAN, t : Nat])
        BY DEF IInv, HTypeOK
      <4>2. \A i \in DOMAIN obs : obs[i] \in [face : BOOLEAN, t : Nat]
        BY <4>1, LenProperties, ElementOfSeq
      <4>3. QED
        BY <4>2
    <3>5. Ordered'
      BY <3>1, <3>3, <3>4, ReadingAssumption DEF IInv, Ordered
    <3>6. QED
      BY <2>1, <3>2, <3>5 DEF IInv
  <2>3. ASSUME NEW face \in BOOLEAN, Observe(face) PROVE IInv'
    BY <2>1, <2>3, StepPreserves DEF IInv
  <2>4. QED
    BY <2>2, <2>3 DEF Next
<1>3. IInv => StateFromHistory
  BY DEF IInv
<1>4. QED
  BY <1>1, <1>2, <1>3, PTL DEF Spec

==============================================================================
