------------------------ MODULE PresencedServiceProofs ------------------------
(***************************************************************************)
(* What a reader of the journal learns of the FSM, for every number of     *)
(* lines that it asks for.                                                 *)
(***************************************************************************)
EXTENDS PresencedService, SequenceTheorems, TLAPS

USE WindowAssumption

Modes == {"unknown", "present", "away_grace", "away"}
Entries == [to : Modes \cup {"none"}, life : {"this", "earlier"}]

TypeInv ==
    /\ unit \in {"inactive", "active", "deactivating", "auto-restart"}
    /\ mode \in Modes
    /\ journal \in Seq(Entries)

(* The last transition among the lines is the one to m. *)
Reports(lines, m) ==
    \E i \in 1..Len(lines) :
        lines[i].to = m /\ \A j \in (i + 1)..Len(lines) : lines[j].to = "none"

(* The transition of the running process stays in the window until the     *)
(* next one: the loop logs nothing else but the bridge's line.             *)
JournalInv == unit = "active" /\ mode # "unknown" => Reports(journal, mode)

IInv == TypeInv /\ JournalInv

------------------------------------------------------------------------------

(* The newest lines keep a report that has at most one line after it.      *)
LEMMA NewestKeeps ==
    ASSUME NEW lines \in Seq(Entries)
    PROVE  /\ Newest(lines) \in Seq(Entries)
           /\ \A i \in 1..Len(lines), m \in Modes :
                 /\ i + 1 >= Len(lines)
                 /\ lines[i].to = m
                 /\ \A j \in (i + 1)..Len(lines) : lines[j].to = "none"
                 => Reports(Newest(lines), m)
<1>1. Len(lines) \in Nat
  BY LenProperties
<1>2. CASE Len(lines) <= Window
  BY <1>2 DEF Newest, Reports
<1>3. CASE Len(lines) > Window
  <2> DEFINE skip == Len(lines) - Window
             rest == SubSeq(lines, skip + 1, Len(lines))
  <2>1. skip \in Nat /\ skip + 1 \in Int /\ Len(lines) \in Int /\ skip + Window = Len(lines)
    BY <1>1, <1>3
  <2>2. \A i \in (skip + 1)..Len(lines) : lines[i] \in Entries
    BY <2>1, ElementOfSeq
  <2> HIDE DEF skip
  <2>3. /\ rest \in Seq(Entries) /\ Len(rest) = Window
        /\ \A i \in 1..Window : rest[i] = lines[skip + i]
    <3>1. /\ rest \in Seq(Entries)
          /\ Len(rest) = IF skip + 1 <= Len(lines) THEN Len(lines) - (skip + 1) + 1 ELSE 0
          /\ \A i \in 1..(Len(lines) - (skip + 1) + 1) : rest[i] = lines[(skip + 1) + i - 1]
      BY <2>1, <2>2, SubSeqProperties
    <3>2. Len(lines) - (skip + 1) + 1 = Window /\ skip + 1 <= Len(lines)
      BY <2>1
    <3> HIDE DEF rest
    <3>3. ASSUME NEW i \in 1..Window PROVE rest[i] = lines[skip + i]
      <4>1. (skip + 1) + i - 1 = skip + i
        BY <2>1
      <4>2. QED
        BY <3>1, <3>2, <4>1
    <3>4. QED
      BY <3>1, <3>2, <3>3
  <2>4. Newest(lines) = rest
    BY <1>1, <1>3 DEF Newest, skip
  <2> HIDE DEF rest
  <2>5. ASSUME NEW i \in 1..Len(lines), NEW m \in Modes,
               i + 1 >= Len(lines), lines[i].to = m,
               \A j \in (i + 1)..Len(lines) : lines[j].to = "none"
        PROVE  Reports(rest, m)
    <3>1. i - skip \in 1..Window /\ rest[i - skip] = lines[i]
      BY <2>1, <2>3, <2>5
    <3>2. ASSUME NEW j \in (i - skip + 1)..Window PROVE rest[j].to = "none"
      <4>1. rest[j] = lines[skip + j] /\ skip + j \in (i + 1)..Len(lines)
        BY <2>1, <2>3, <3>1
      <4>2. QED
        BY <2>5, <4>1
    <3>3. QED
      BY <2>3, <2>5, <3>1, <3>2 DEF Reports
  <2>6. QED
    BY <2>3, <2>4, <2>5
<1>4. QED
  BY <1>1, <1>2, <1>3

(* What the loop writes of a transition is the last report.                *)
LEMMA LogReports ==
    ASSUME TypeInv, NEW m \in Modes,
           Log(<<m>>) \/ Log(<<m, "none">>)
    PROVE  journal' \in Seq(Entries) /\ Reports(journal', m)
<1> DEFINE here == [to |-> m, life |-> "this"]
           also == [to |-> "none", life |-> "this"]
<1>1. here \in Entries /\ also \in Entries /\ here.to = m /\ also.to = "none"
  BY DEF Entries
<1>2. journal \in Seq(Entries) /\ Len(journal) \in Nat
  BY LenProperties DEF TypeInv
<1> HIDE DEF here, also
<1>3. CASE Log(<<m>>)
  <2> DEFINE lines == journal \o <<here>>
  <2>1. journal' = Newest(lines)
    <3>1. [i \in DOMAIN <<m>> |-> [to |-> <<m>>[i], life |-> "this"]] = <<here>>
      BY DEF here
    <3>2. QED
      BY <1>3, <3>1, Zenon DEF Log
  <2>2. <<here>> \in Seq(Entries) /\ Len(<<here>>) = 1 /\ <<here>>[1] = here
    BY <1>1
  <2>3. /\ lines \in Seq(Entries) /\ Len(lines) = Len(journal) + 1
        /\ lines[Len(journal) + 1] = here
    BY <1>2, <2>2, ConcatProperties
  <2> HIDE DEF lines
  <2>4. /\ Len(journal) + 1 \in 1..Len(lines) /\ (Len(journal) + 1) + 1 >= Len(lines)
        /\ lines[Len(journal) + 1].to = m
        /\ \A j \in ((Len(journal) + 1) + 1)..Len(lines) : lines[j].to = "none"
    BY <1>1, <1>2, <2>3
  <2>5. QED
    BY <2>1, <2>3, <2>4, NewestKeeps
<1>4. CASE Log(<<m, "none">>)
  <2> DEFINE lines == journal \o <<here, also>>
  <2>1. journal' = Newest(lines)
    <3>1. [i \in DOMAIN <<m, "none">> |-> [to |-> <<m, "none">>[i], life |-> "this"]]
          = <<here, also>>
      BY DEF here, also
    <3>2. QED
      BY <1>4, <3>1, Zenon DEF Log
  <2>2. /\ <<here, also>> \in Seq(Entries) /\ Len(<<here, also>>) = 2
        /\ <<here, also>>[1] = here /\ <<here, also>>[2] = also
    BY <1>1
  <2>3. /\ lines \in Seq(Entries) /\ Len(lines) = Len(journal) + 2
        /\ lines[Len(journal) + 1] = here /\ lines[Len(journal) + 2] = also
    BY <1>2, <2>2, ConcatProperties
  <2> HIDE DEF lines
  <2>4. /\ Len(journal) + 1 \in 1..Len(lines) /\ (Len(journal) + 1) + 1 >= Len(lines)
        /\ lines[Len(journal) + 1].to = m
        /\ \A j \in ((Len(journal) + 1) + 1)..Len(lines) : lines[j].to = "none"
    BY <1>1, <1>2, <2>3
  <2>5. QED
    BY <2>1, <2>3, <2>4, NewestKeeps
<1>5. QED
  BY <1>3, <1>4

LEMMA LogIsSeq == ASSUME TypeInv, Log(<<"none">>) PROVE journal' \in Seq(Entries)
<1> DEFINE also == [to |-> "none", life |-> "this"]
<1>1. also \in Entries
  BY DEF Entries
<1>2. [i \in DOMAIN <<"none">> |-> [to |-> <<"none">>[i], life |-> "this"]] = <<also>>
  OBVIOUS
<1> HIDE DEF also
<1>3. journal' = Newest(journal \o <<also>>)
  BY <1>2, Zenon DEF Log
<1>4. journal \o <<also>> \in Seq(Entries)
  BY <1>1, ConcatProperties DEF TypeInv
<1>5. QED
  BY <1>3, <1>4, NewestKeeps

LEMMA InitHolds == Init => IInv
  BY EmptySeq DEF Init, IInv, TypeInv, JournalInv, Modes

LEMMA ExecKeeps == TypeInv /\ Exec => IInv'
<1> SUFFICES ASSUME TypeInv, Exec PROVE IInv'
  OBVIOUS
<1>1. Aged \in Seq(Entries)
  <2>1. journal \in Seq(Entries) /\ Len(journal) \in Nat /\ DOMAIN journal = 1..Len(journal)
    BY LenProperties DEF TypeInv
  <2>2. Aged \in [1..Len(journal) -> Entries]
    <3>1. ASSUME NEW i \in 1..Len(journal)
          PROVE  [journal[i] EXCEPT !.life = "earlier"] \in Entries
      <4>1. journal[i] \in Entries
        BY <2>1, ElementOfSeq
      <4>2. QED
        BY <4>1 DEF Entries
    <3>2. QED
      BY <2>1, <3>1 DEF Aged
  <2>3. QED
    BY <2>1, <2>2, SeqDef
<1>2. [to |-> "none", life |-> "this"] \in Entries
  BY DEF Entries
<1>3. Append(Aged, [to |-> "none", life |-> "this"]) \in Seq(Entries)
  BY <1>1, <1>2, AppendProperties
<1>4. journal' \in Seq(Entries)
  BY <1>3, NewestKeeps DEF Exec
<1>5. QED
  BY <1>4 DEF Exec, IInv, TypeInv, JournalInv, Modes

LEMMA StepKeeps == IInv /\ [Next]_vars => IInv'
<1> SUFFICES ASSUME IInv, [Next]_vars PROVE IInv'
  OBVIOUS
<1>1. TypeInv /\ JournalInv
  BY DEF IInv
<1>2. CASE RestartTimer
  BY <1>1, <1>2, ExecKeeps DEF RestartTimer
<1>3. CASE Crash
  <2>1. journal' \in Seq(Entries)
    BY <1>1, <1>3, LogIsSeq DEF Crash
  <2>2. QED
    BY <1>1, <1>3, <2>1 DEF Crash, OnFailure, Running, IInv, TypeInv, JournalInv
<1>4. CASE CleanExit
  BY <1>1, <1>4 DEF CleanExit, daemon, IInv, TypeInv, JournalInv
<1>5. CASE BeginLook \/ CommandRuns
  BY <1>1, <1>5 DEF BeginLook, CommandRuns, IInv, TypeInv, JournalInv
<1>6. ASSUME NEW face \in BOOLEAN, Look(face) PROVE IInv'
  <2>1. mode' \in Modes /\ unit' = unit
    BY <1>1, <1>6 DEF Look, LookEnds, NextModes, TypeInv, Modes
  <2>2. CASE mode' = mode
    BY <1>1, <1>6, <2>1, <2>2 DEF Look, IInv, TypeInv, JournalInv
  <2>3. CASE mode' # mode
    <3>1. Log(<<mode'>>) \/ Log(<<mode', "none">>)
      BY <1>6, <2>3 DEF Look, Lines
    <3>2. journal' \in Seq(Entries) /\ Reports(journal', mode')
      BY <1>1, <2>1, <3>1, LogReports
    <3>3. QED
      BY <1>1, <2>1, <3>2 DEF IInv, TypeInv, JournalInv, Reports
  <2>4. QED
    BY <2>2, <2>3
<1>7. CASE Poll \/ PollReads \/ TogglePressed
  BY <1>1, <1>7 DEF Poll, PollReads, TogglePressed, daemon, IInv, TypeInv, JournalInv
<1>8. CASE ToggleActs
  <2>1. CASE Stop
    BY <1>1, <2>1 DEF Stop, daemon, IInv, TypeInv, JournalInv
  <2>2. CASE Start
    BY <1>1, <2>2, ExecKeeps DEF Start
  <2>3. CASE UNCHANGED <<unit, daemon, journal, wanted>>
    BY <1>1, <2>3 DEF daemon, IInv, TypeInv, JournalInv
  <2>4. QED
    BY <1>8, <2>1, <2>2, <2>3 DEF ToggleActs
<1>9. CASE UNCHANGED vars
  BY <1>1, <1>9 DEF vars, daemon, IInv, TypeInv, JournalInv
<1>10. QED
  BY <1>2, <1>3, <1>4, <1>5, <1>6, <1>7, <1>8, <1>9 DEF Next, Unit, Daemon, Readers

(* With two lines or more, what demo.fish prints as the FSM's state of an  *)
(* active service is its state, as soon as the process has taken a         *)
(* transition and whatever crashed processes have written before.          *)
THEOREM StatusIsTrue == Spec => []StatusIsMode
<1>1. IInv => StatusIsMode
  <2> SUFFICES ASSUME IInv, unit = "active", mode # "unknown" PROVE LastTransition = mode
    BY DEF StatusIsMode, IsActive
  <2>1. PICK i \in 1..Len(journal) :
            journal[i].to = mode /\ \A j \in (i + 1)..Len(journal) : journal[j].to = "none"
    BY DEF IInv, JournalInv, Reports
  <2>2. /\ Len(journal) \in Nat /\ DOMAIN journal = 1..Len(journal)
        /\ mode # "none"
    BY LenProperties DEF IInv, TypeInv, Modes
  <2>3. i \in Transitions
    BY <2>1, <2>2 DEF Transitions
  <2>4. ASSUME NEW j \in Transitions PROVE j \in Int /\ j <= i
    BY <2>1, <2>2 DEF Transitions
  <2> DEFINE last == CHOOSE k \in Transitions : \A j \in Transitions : j <= k
  <2>5. last = i
    <3>1. last \in Transitions /\ \A j \in Transitions : j <= last
      BY <2>3, <2>4
    <3> HIDE DEF last
    <3>2. i <= last /\ last <= i /\ last \in Int
      BY <2>3, <2>4, <3>1
    <3>3. QED
      BY <3>2
  <2>6. QED
    BY <2>1, <2>3, <2>5 DEF LastTransition
<1>2. QED
  BY <1>1, InitHolds, StepKeeps, PTL DEF Spec
==============================================================================
