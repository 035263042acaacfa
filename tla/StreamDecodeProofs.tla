------------------------- MODULE StreamDecodeProofs --------------------------
(***************************************************************************)
(* What is on the screen while a reply grows, for every set of tokens and  *)
(* every length of reply.                                                  *)
(***************************************************************************)
EXTENDS StreamDecode, FiniteSetTheorems, SequenceTheorems, TLAPS

USE ConstantsAssumption

Characters == Bytes \cup {FFFD}
Text == Seq(Characters)

(* What a decoder knows after some of the bytes. *)
Decoders == [text : Text, rest : Seq(Bytes)]
Fresh == [text |-> <<>>, rest |-> <<>>]

(* The decoder after each of the bytes. *)
Run(r, bytes) ==
    /\ r \in [0..Len(bytes) -> Decoders]
    /\ r[0] = Fresh
    /\ \A i \in 1..Len(bytes) : r[i] = DecodeByte(r[i - 1], bytes[i])

------------------------------------------------------------------------------
(* Induction over the natural numbers, for sets. *)

LEMMA LessIsLess == \A x, y \in Nat : y < x => <<y, x>> \in OpToRel(<, Nat)
  BY DEF OpToRel

LEMMA SetInduction ==
    ASSUME NEW T \in SUBSET Nat, 0 \in T, \A i \in T : i + 1 \in T
    PROVE  T = Nat
<1> SUFFICES ASSUME Nat \ T # {} PROVE FALSE
  OBVIOUS
<1>1. PICK x \in Nat \ T : \A y \in Nat \ T : <<y, x>> \notin OpToRel(<, Nat)
  <2> DEFINE R == OpToRel(<, Nat)
  <2>1. IsWellFoundedOn(R, Nat)
    BY NatLessThanWellFounded
  <2> HIDE DEF R
  <2>2. \E x \in Nat \ T : \A y \in Nat \ T : <<y, x>> \notin R
    BY <2>1, WFMin
  <2>3. QED
    BY <2>2 DEF R
<1>2. x - 1 \in T
  <2>1. x - 1 \in Nat /\ x - 1 < x
    OBVIOUS
  <2>2. QED
    BY <2>1, <1>1, LessIsLess
<1>3. QED
  BY <1>2

------------------------------------------------------------------------------
(* The decoder. *)

(* IsPrefix, element by element.                                           *)
Begins(s, t) == Len(s) <= Len(t) /\ \A i \in 1..Len(s) : s[i] = t[i]

LEMMA BeginsIsPrefix ==
    ASSUME NEW s \in Text, NEW t \in Text
    PROVE  Begins(s, t) <=> IsPrefix(s, t)
<1> DEFINE u == SubSeq(t, 1, Len(s))
<1>1. s = SubSeq(s, 1, Len(s))
  BY SubSeqFull DEF Text
<1>2. ASSUME Len(s) <= Len(t) PROVE u \in Text /\ Len(u) = Len(s) /\ \A i \in 1..Len(s) : u[i] = t[i]
  <2>1. \A i \in 1..Len(s) : t[i] \in Characters
    BY <1>2, ElementOfSeq DEF Text
  <2>2. QED
    BY <1>2, <2>1, SubSeqProperties DEF Text
<1>3. ASSUME Begins(s, t) PROVE IsPrefix(s, t)
  <2>1. s = u
    BY <1>2, <1>3, SeqEqual DEF Begins, Text
  <2>2. QED
    BY <1>1, <1>3, <2>1 DEF IsPrefix, Begins
<1>4. ASSUME IsPrefix(s, t) PROVE Begins(s, t)
  <2>1. Len(s) <= Len(t) /\ s = u
    BY <1>1, <1>4 DEF IsPrefix
  <2>2. \A i \in 1..Len(s) : u[i] = t[i]
    BY <1>2, <2>1
  <2>3. \A i \in 1..Len(s) : s[i] = t[i]
    BY <2>1, <2>2
  <2>4. QED
    BY <2>1, <2>3 DEF Begins
<1>5. QED
  BY <1>3, <1>4

LEMMA BeginsTransitive ==
    ASSUME NEW s \in Text, NEW t \in Text, NEW u \in Text, Begins(s, t), Begins(t, u)
    PROVE  Begins(s, u)
  BY DEF Begins, Text

LEMMA AppendBegins ==
    ASSUME NEW s \in Text, NEW t \in Text, NEW x \in Characters, Begins(s, t)
    PROVE  Append(t, x) \in Text /\ Begins(s, Append(t, x))
  BY AppendProperties DEF Begins, Text

(* A byte adds to the text and leaves what is there alone.                 *)
LEMMA DecodeByteGrows ==
    ASSUME NEW d \in Decoders, NEW b \in Bytes
    PROVE  DecodeByte(d, b) \in Decoders /\ Begins(d.text, DecodeByte(d, b).text)
<1> DEFINE e == DecodeByte(d, b)
<1>1. /\ d.text \in Text /\ d.rest \in Seq(Bytes)
      /\ FFFD \in Characters /\ b \in Characters /\ Begins(d.text, d.text)
  BY DEF Decoders, Characters, Begins
<1>2. Broken(d) \in Text /\ Begins(d.text, Broken(d))
  BY <1>1, AppendBegins DEF Broken
<1>3. ASSUME NEW t \in Text, NEW rest \in Seq(Bytes),
             Begins(d.text, t), e = [text |-> t, rest |-> rest]
      PROVE  e \in Decoders /\ Begins(d.text, e.text)
  BY <1>3 DEF Decoders
<1>4. <<>> \in Seq(Bytes) /\ <<b>> \in Seq(Bytes)
  OBVIOUS
<1>5. CASE b = "c"
  <2> DEFINE rest == Append(d.rest, "c")
  <2>1. rest \in Seq(Bytes) /\ e = Continue(d)
    BY <1>1, <1>5, AppendProperties DEF DecodeByte, Bytes
  <2>2. CASE d.rest = <<>>
    <3>1. e = [text |-> Append(d.text, FFFD), rest |-> <<>>]
      BY <2>1, <2>2 DEF Continue
    <3>2. Append(d.text, FFFD) \in Text /\ Begins(d.text, Append(d.text, FFFD))
      BY <1>1, AppendBegins
    <3>3. QED
      BY <1>3, <1>4, <3>1, <3>2
  <2>3. CASE d.rest # <<>> /\ Len(rest) = Length(d.rest[1])
    <3>1. d.rest[1] \in Characters
      BY <1>1, <2>3 DEF Characters
    <3>2. e = [text |-> Append(d.text, d.rest[1]), rest |-> <<>>]
      BY <2>1, <2>3 DEF Continue
    <3>3. Append(d.text, d.rest[1]) \in Text /\ Begins(d.text, Append(d.text, d.rest[1]))
      BY <1>1, <3>1, AppendBegins
    <3>4. QED
      BY <1>3, <1>4, <3>2, <3>3
  <2>4. CASE d.rest # <<>> /\ Len(rest) # Length(d.rest[1])
    <3>1. e = [text |-> d.text, rest |-> rest]
      BY <2>1, <2>4 DEF Continue
    <3>2. QED
      BY <1>1, <1>3, <2>1, <3>1
  <2>5. QED
    BY <2>2, <2>3, <2>4
<1>6. CASE b \in {"L2", "L3"}
  <2>1. e = [text |-> Broken(d), rest |-> <<b>>]
    BY <1>6 DEF DecodeByte
  <2>2. QED
    BY <1>2, <1>3, <1>4, <2>1
<1>7. CASE b \in {"fffd", "a"}
  <2> DEFINE x == IF b = "fffd" THEN FFFD ELSE "a"
  <2>1. e = [text |-> Append(Broken(d), x), rest |-> <<>>]
    BY <1>7 DEF DecodeByte
  <2>2. x \in Characters
    BY <1>1, <1>7
  <2>3. Append(Broken(d), x) \in Text /\ Begins(d.text, Append(Broken(d), x))
    BY <1>1, <1>2, <2>2, AppendBegins
  <2>4. QED
    BY <1>3, <1>4, <2>1, <2>3
<1>8. QED
  BY <1>5, <1>6, <1>7 DEF Bytes

(* The fold over the first k bytes, as the community modules define it.    *)
Folding(g, bytes, k) ==
    g = [s \in SUBSET (1..k) |->
            IF s = {} THEN Fresh ELSE DecodeByte(g[s \ {Max(s)}], bytes[Max(s)])]

LEMMA MaxOfInterval ==
    ASSUME NEW k \in Nat, NEW s \in SUBSET (1..(k + 1)), k + 1 \in s
    PROVE  Max(s) = k + 1 /\ s \ {Max(s)} \in SUBSET (1..k)
<1>1. \A y \in s : k + 1 >= y
  OBVIOUS
<1>2. \A x \in s : (\A y \in s : x >= y) => x = k + 1
  OBVIOUS
<1>3. Max(s) = k + 1
  BY <1>1, <1>2 DEF Max
<1>4. QED
  BY <1>3

(* That fold is well defined, whatever the number of bytes.                *)
LEMMA FoldingExists ==
    ASSUME NEW bytes, NEW k \in Nat
    PROVE  \E g : Folding(g, bytes, k)
<1> DEFINE T == {i \in Nat : \E g : Folding(g, bytes, i)}
<1>1. 0 \in T
  <2> DEFINE g == [s \in SUBSET (1..0) |-> Fresh]
  <2>1. \A s \in SUBSET (1..0) : s = {}
    OBVIOUS
  <2>2. g = [s \in SUBSET (1..0) |->
               IF s = {} THEN Fresh ELSE DecodeByte(g[s \ {Max(s)}], bytes[Max(s)])]
    BY <2>1
  <2>3. Folding(g, bytes, 0)
    BY <2>2 DEF Folding
  <2>4. QED
    BY <2>3
<1>2. ASSUME NEW i \in T PROVE i + 1 \in T
  <2>1. PICK g : Folding(g, bytes, i)
    OBVIOUS
  <2> DEFINE Step(s, x) == DecodeByte(g[s \ {x}], bytes[x])
             f == [s \in SUBSET (1..(i + 1)) |-> IF i + 1 \in s THEN Step(s, i + 1) ELSE g[s]]
             h == [s \in SUBSET (1..(i + 1)) |->
                     IF s = {} THEN Fresh ELSE DecodeByte(f[s \ {Max(s)}], bytes[Max(s)])]
  <2>2. \A s \in SUBSET (1..i) : s \in SUBSET (1..(i + 1)) /\ f[s] = g[s]
    OBVIOUS
  <2>3. ASSUME NEW s \in SUBSET (1..(i + 1)) PROVE f[s] = h[s]
    <3>1. CASE i + 1 \in s
      <4>1. Max(s) = i + 1 /\ s \ {Max(s)} \in SUBSET (1..i)
        BY <3>1, MaxOfInterval
      <4>2. f[s \ {i + 1}] = g[s \ {i + 1}]
        BY <2>2, <4>1
      <4>3. QED
        BY <3>1, <4>1, <4>2
    <3>2. CASE i + 1 \notin s
      <4>1. s \in SUBSET (1..i) /\ s \ {Max(s)} \in SUBSET (1..i)
        <5>1. \A x \in s : x \in 1..(i + 1) /\ x # i + 1
          BY <3>2
        <5>2. \A x \in s : x \in 1..i
          BY <5>1
        <5>3. QED
          BY <5>2
      <4>2. f[s] = g[s] /\ f[s \ {Max(s)}] = g[s \ {Max(s)}]
        BY <2>2, <4>1
      <4>3. g[s] = IF s = {} THEN Fresh ELSE DecodeByte(g[s \ {Max(s)}], bytes[Max(s)])
        BY <2>1, <4>1 DEF Folding
      <4>4. QED
        BY <4>2, <4>3
    <3>3. QED
      BY <3>1, <3>2
  <2>4. f = h
    BY <2>3
  <2>5. Folding(f, bytes, i + 1)
    BY <2>4 DEF Folding
  <2>6. QED
    BY <2>5
<1>3. T = Nat
  BY <1>1, <1>2, SetInduction
<1>4. QED
  BY <1>3

LEMMA DecodeIsRun ==
    ASSUME NEW bytes \in Seq(Bytes)
    PROVE  \E r : Run(r, bytes) /\ decode(bytes) = Broken(r[Len(bytes)])
<1> DEFINE n_bytes == Len(bytes)
           g == CHOOSE f : Folding(f, bytes, n_bytes)
           r == [i \in 0..n_bytes |-> g[1..i]]
<1>1. n_bytes \in Nat /\ DOMAIN bytes = 1..n_bytes
  OBVIOUS
<1>2. Folding(g, bytes, n_bytes)
  BY <1>1, FoldingExists
<1>3. decode(bytes) = Broken(g[1..n_bytes])
  BY <1>1 DEF decode, FoldLeft, MapThenFoldSet, Folding, Fresh
<1>4. r[0] = Fresh
  <2>1. r[0] = g[1..0] /\ 1..0 = {} /\ {} \in SUBSET (1..n_bytes)
    BY <1>1
  <2>2. QED
    BY <1>2, <2>1 DEF Folding
<1>5. \A i \in 1..n_bytes : r[i] = DecodeByte(r[i - 1], bytes[i])
  <2> TAKE i \in 1..n_bytes
  <2> DEFINE s == 1..i
  <2>1. s \in SUBSET (1..n_bytes) /\ s # {} /\ r[i] = g[s] /\ i - 1 \in Nat /\ r[i - 1] = g[1..(i - 1)]
    BY <1>1
  <2>2. Max(s) = i
    <3>1. (i - 1) + 1 = i /\ i \in s
      OBVIOUS
    <3>2. QED
      BY <2>1, <3>1, MaxOfInterval
  <2>3. s \ {i} = 1..(i - 1)
    OBVIOUS
  <2>4. g[s] = IF s = {} THEN Fresh ELSE DecodeByte(g[s \ {Max(s)}], bytes[Max(s)])
    <3> HIDE DEF g, s
    <3>1. QED
      BY <1>2, <2>1 DEF Folding
  <2>5. QED
    BY <2>1, <2>2, <2>3, <2>4
<1>6. \A i \in 0..n_bytes : r[i] \in Decoders
  <2> HIDE DEF r, n_bytes
  <2> DEFINE T == {i \in Nat : i <= n_bytes => r[i] \in Decoders}
  <2>1. 0 \in T
    <3>1. <<>> \in Text /\ <<>> \in Seq(Bytes)
      BY EmptySeq DEF Text
    <3>2. Fresh \in Decoders
      BY <3>1 DEF Fresh, Decoders
    <3>3. QED
      BY <1>4, <3>2
  <2>2. ASSUME NEW i \in T PROVE i + 1 \in T
    <3>1. SUFFICES ASSUME i + 1 <= n_bytes PROVE r[i + 1] \in Decoders
      OBVIOUS
    <3>2. i + 1 \in 1..n_bytes /\ (i + 1) - 1 = i /\ r[i] \in Decoders
      BY <1>1, <3>1
    <3>3. bytes[i + 1] \in Bytes
      BY <3>2, ElementOfSeq DEF n_bytes
    <3>4. QED
      BY <1>5, <3>2, <3>3, DecodeByteGrows
  <2>3. T = Nat
    <3> HIDE DEF T
    <3>1. T \in SUBSET Nat
      BY DEF T
    <3>2. QED
      BY <2>1, <2>2, <3>1, SetInduction
  <2>4. QED
    BY <1>1, <2>3
<1>7. Run(r, bytes)
  <2>1. r \in [0..n_bytes -> Decoders]
    BY <1>6
  <2>2. QED
    BY <1>4, <1>5, <2>1 DEF Run
<1>8. n_bytes \in 0..n_bytes /\ decode(bytes) = Broken(r[Len(bytes)])
  BY <1>1, <1>3
<1>9. QED
  BY <1>7, <1>8

(* More bytes continue the text that is there.                             *)
LEMMA TextGrows ==
    ASSUME NEW bytes \in Seq(Bytes), NEW more \in Seq(Bytes),
           NEW r, Run(r, bytes), NEW q, Run(q, bytes \o more)
    PROVE  Begins(r[Len(bytes)].text, q[Len(bytes \o more)].text)
<1> DEFINE k == Len(bytes)
           all == bytes \o more
<1>1. /\ k \in Nat /\ Len(all) \in Nat /\ k <= Len(all) /\ all \in Seq(Bytes)
      /\ \A i \in 1..k : all[i] = bytes[i]
  BY ConcatProperties
<1>2. /\ \A i \in 0..k : r[i] \in Decoders
      /\ \A i \in 0..Len(all) : q[i] \in Decoders
      /\ q[0] = r[0]
      /\ \A i \in 1..k : r[i] = DecodeByte(r[i - 1], bytes[i])
      /\ \A i \in 1..Len(all) : q[i] = DecodeByte(q[i - 1], all[i]) /\ all[i] \in Bytes
  BY <1>1, ElementOfSeq DEF Run
<1> HIDE DEF k, all
<1>3. q[k] = r[k]
  <2> DEFINE T == {i \in Nat : i <= k => q[i] = r[i]}
  <2>1. 0 \in T
    BY <1>2
  <2>2. ASSUME NEW i \in T PROVE i + 1 \in T
    <3>1. SUFFICES ASSUME i + 1 <= k PROVE q[i + 1] = r[i + 1]
      OBVIOUS
    <3>2. i + 1 \in 1..k /\ i + 1 \in 1..Len(all) /\ (i + 1) - 1 = i /\ q[i] = r[i]
      BY <1>1, <3>1
    <3>3. QED
      BY <1>1, <1>2, <3>2
  <2>3. T \in SUBSET Nat
    OBVIOUS
  <2>4. T = Nat
    <3> HIDE DEF T
    <3>1. QED
      BY <2>1, <2>2, <2>3, SetInduction
  <2>5. QED
    BY <1>1, <2>4
<1>4. Begins(q[k].text, q[Len(all)].text)
  <2> DEFINE T == {i \in Nat : k + i <= Len(all) => Begins(q[k].text, q[k + i].text)}
  <2>1. 0 \in T
    BY <1>1, <1>2 DEF Begins, Decoders, Text
  <2>2. ASSUME NEW i \in T PROVE i + 1 \in T
    <3> DEFINE next == k + (i + 1)
    <3>1. SUFFICES ASSUME next <= Len(all) PROVE Begins(q[k].text, q[next].text)
      OBVIOUS
    <3>2. /\ next \in 1..Len(all) /\ next - 1 = k + i /\ k + i \in 0..Len(all)
          /\ k \in 0..Len(all) /\ next \in 0..Len(all) /\ Begins(q[k].text, q[k + i].text)
      BY <1>1, <3>1
    <3>3. Begins(q[k + i].text, q[next].text)
      BY <1>2, <3>2, DecodeByteGrows
    <3>4. q[k].text \in Text /\ q[k + i].text \in Text /\ q[next].text \in Text
      BY <1>2, <3>2 DEF Decoders
    <3>5. QED
      BY <3>2, <3>3, <3>4, BeginsTransitive
  <2>3. T \in SUBSET Nat
    OBVIOUS
  <2>4. T = Nat
    <3> HIDE DEF T
    <3>1. QED
      BY <2>1, <2>2, <2>3, SetInduction
  <2> DEFINE rest == Len(all) - k
  <2>5. rest \in Nat /\ k + rest = Len(all) /\ k + rest <= Len(all)
    BY <1>1
  <2>6. rest \in T
    BY <2>4, <2>5
  <2>7. Begins(q[k].text, q[k + rest].text)
    BY <2>5, <2>6
  <2>8. QED
    BY <2>5, <2>7
<1>5. QED
  BY <1>3, <1>4 DEF k, all

------------------------------------------------------------------------------
(* What is held back. *)

(* The first k characters are what is left without the trailing U+FFFD.    *)
Safely(full, k) ==
    /\ k = 0 \/ full[k] # FFFD
    /\ \A i \in (k + 1)..Len(full) : full[i] = FFFD

LEMMA SafelyExists ==
    ASSUME NEW full \in Text
    PROVE  \E k \in 0..Len(full) : Safely(full, k)
<1> DEFINE Good(i, k) == (k = 0 \/ full[k] # FFFD) /\ \A j \in (k + 1)..i : full[j] = FFFD
           T == {i \in Nat : \E k \in 0..i : Good(i, k)}
<1>1. 0 \in T
  OBVIOUS
<1>2. ASSUME NEW i \in T PROVE i + 1 \in T
  <2>1. PICK k \in 0..i : Good(i, k)
    OBVIOUS
  <2>2. CASE full[i + 1] # FFFD
    BY <2>2
  <2>3. CASE full[i + 1] = FFFD
    BY <2>1, <2>3
  <2>4. QED
    BY <2>2, <2>3
<1>3. T \in SUBSET Nat
  OBVIOUS
<1>4. T = Nat
  <2> HIDE DEF T
  <2>1. QED
    BY <1>1, <1>2, <1>3, SetInduction
<1>5. Len(full) \in T
  BY <1>4 DEF Text
<1>6. QED
  BY <1>5 DEF Safely

LEMMA RstripIsSafe ==
    ASSUME NEW full \in Text, NEW k \in 0..Len(full), Safely(full, k)
    PROVE  /\ rstrip(full) = SubSeq(full, 1, k)
           /\ rstrip(full) \in Text /\ Len(rstrip(full)) = k
           /\ \A i \in 1..k : rstrip(full)[i] = full[i]
<1>1. Len(full) \in Nat /\ k \in Nat /\ k <= Len(full)
  BY DEF Text
<1>2. \A j \in 0..Len(full) : Safely(full, j) => j = k
  BY <1>1 DEF Safely
<1>3. rstrip(full) = SubSeq(full, 1, CHOOSE j \in 0..Len(full) : Safely(full, j))
  BY DEF rstrip, Safely
<1>4. (CHOOSE j \in 0..Len(full) : Safely(full, j)) = k
  BY <1>2
<1>5. \A i \in 1..k : full[i] \in Characters
  BY <1>1, ElementOfSeq DEF Text
<1>6. /\ SubSeq(full, 1, k) \in Text
      /\ Len(SubSeq(full, 1, k)) = IF 1 <= k THEN k - 1 + 1 ELSE 0
      /\ \A i \in 1..(k - 1 + 1) : SubSeq(full, 1, k)[i] = full[1 + i - 1]
  BY <1>1, <1>5, SubSeqProperties DEF Text
<1>7. Len(SubSeq(full, 1, k)) = k
  BY <1>1, <1>6
<1>8. \A i \in 1..k : SubSeq(full, 1, k)[i] = full[i]
  BY <1>1, <1>6
<1>9. QED
  BY <1>3, <1>4, <1>6, <1>7, <1>8

(* What is safe stays safe: it begins the text, and what is safe of any    *)
(* longer text.                                                            *)
LEMMA RstripGrows ==
    ASSUME NEW s \in Text, NEW t \in Text, Begins(s, t)
    PROVE  /\ rstrip(s) \in Text /\ rstrip(t) \in Text
           /\ Begins(rstrip(s), rstrip(t)) /\ Begins(rstrip(s), s)
<1>1. PICK j \in 0..Len(s) : Safely(s, j)
  BY SafelyExists
<1>2. PICK k \in 0..Len(t) : Safely(t, k)
  BY SafelyExists
<1>3. Len(s) \in Nat /\ Len(t) \in Nat /\ Len(s) <= Len(t)
  BY DEF Text, Begins
<1>4. j <= k
  <2>1. SUFFICES ASSUME k < j PROVE FALSE
    BY <1>1, <1>2, <1>3
  <2>2. j \in (k + 1)..Len(t) /\ j \in 1..Len(s)
    BY <1>1, <1>2, <1>3, <2>1
  <2>3. t[j] = FFFD /\ s[j] # FFFD /\ s[j] = t[j]
    BY <1>1, <1>2, <2>2 DEF Safely, Begins
  <2>4. QED
    BY <2>3
<1>5. /\ rstrip(s) \in Text /\ Len(rstrip(s)) = j /\ \A i \in 1..j : rstrip(s)[i] = s[i]
      /\ rstrip(t) \in Text /\ Len(rstrip(t)) = k /\ \A i \in 1..k : rstrip(t)[i] = t[i]
  BY <1>1, <1>2, RstripIsSafe
<1>6. QED
  BY <1>1, <1>2, <1>3, <1>4, <1>5 DEF Begins

(* The bytes of an incomplete character change nothing of what is safe.    *)
LEMMA RstripOfBroken ==
    ASSUME NEW d \in Decoders
    PROVE  /\ Broken(d) \in Text /\ Begins(d.text, Broken(d))
           /\ rstrip(Broken(d)) = rstrip(d.text)
<1>1. d.text \in Text /\ Len(d.text) \in Nat /\ FFFD \in Characters /\ Begins(d.text, d.text)
  BY DEF Decoders, Text, Characters, Begins
<1>2. CASE d.rest = <<>>
  BY <1>1, <1>2 DEF Broken
<1>3. CASE d.rest # <<>>
  <2> DEFINE t == Append(d.text, FFFD)
  <2>1. Broken(d) = t /\ t \in Text /\ Begins(d.text, t)
    BY <1>1, <1>3, AppendBegins DEF Broken
  <2>2. /\ Len(t) = Len(d.text) + 1 /\ t[Len(d.text) + 1] = FFFD
        /\ \A i \in 1..Len(d.text) : t[i] = d.text[i]
    BY <1>1, AppendProperties DEF Text
  <2> HIDE DEF t
  <2>3. PICK k \in 0..Len(d.text) : Safely(d.text, k)
    BY <1>1, SafelyExists
  <2>4. k \in 0..Len(t) /\ Safely(t, k)
    BY <1>1, <2>2, <2>3 DEF Safely
  <2>5. /\ rstrip(t) \in Text /\ Len(rstrip(t)) = k /\ \A i \in 1..k : rstrip(t)[i] = t[i]
        /\ rstrip(d.text) \in Text /\ Len(rstrip(d.text)) = k
        /\ \A i \in 1..k : rstrip(d.text)[i] = d.text[i]
    BY <1>1, <2>1, <2>3, <2>4, RstripIsSafe
  <2>6. \A i \in 1..k : rstrip(t)[i] = rstrip(d.text)[i]
    BY <1>1, <2>2, <2>3, <2>5
  <2>7. rstrip(t) = rstrip(d.text)
    BY <2>5, <2>6, SeqEqual DEF Text
  <2>8. QED
    BY <2>1, <2>7
<1>4. QED
  BY <1>2, <1>3

(* However the reply goes on, what is safe now remains a beginning of it.  *)
LEMMA SafeStaysSafe ==
    ASSUME NEW bytes \in Seq(Bytes), NEW more \in Seq(Bytes)
    PROVE  LET now == decode(bytes)
               later == decode(bytes \o more)
           IN /\ now \in Text /\ later \in Text
              /\ rstrip(now) \in Text /\ rstrip(later) \in Text
              /\ Begins(rstrip(now), now) /\ Begins(rstrip(now), later)
              /\ Begins(rstrip(now), rstrip(later))
<1> DEFINE all == bytes \o more
<1>1. all \in Seq(Bytes) /\ Len(bytes) \in Nat /\ Len(all) \in Nat
  BY ConcatProperties
<1>2. PICK r : Run(r, bytes) /\ decode(bytes) = Broken(r[Len(bytes)])
  BY DecodeIsRun
<1>3. PICK q : Run(q, all) /\ decode(all) = Broken(q[Len(all)])
  BY <1>1, DecodeIsRun
<1> DEFINE d == r[Len(bytes)]
           e == q[Len(all)]
<1>4. d \in Decoders /\ e \in Decoders
  BY <1>1, <1>2, <1>3 DEF Run
<1>5. Begins(d.text, e.text)
  BY <1>2, <1>3, TextGrows
<1>6. decode(bytes) = Broken(d) /\ decode(all) = Broken(e)
  BY <1>2, <1>3
<1> HIDE DEF d, e, all
<1>7. d.text \in Text /\ e.text \in Text
  BY <1>4 DEF Decoders
<1>8. /\ Broken(d) \in Text /\ Begins(d.text, Broken(d)) /\ rstrip(Broken(d)) = rstrip(d.text)
      /\ Broken(e) \in Text /\ Begins(e.text, Broken(e)) /\ rstrip(Broken(e)) = rstrip(e.text)
  BY <1>4, RstripOfBroken
<1>9. /\ rstrip(d.text) \in Text /\ rstrip(e.text) \in Text
      /\ Begins(rstrip(d.text), rstrip(e.text)) /\ Begins(rstrip(d.text), d.text)
  BY <1>5, <1>7, RstripGrows
<1>10. Begins(rstrip(d.text), Broken(d))
  BY <1>7, <1>8, <1>9, BeginsTransitive
<1>11. Begins(rstrip(d.text), Broken(e))
  BY <1>5, <1>7, <1>8, <1>9, BeginsTransitive
<1>12. QED
  BY <1>6, <1>8, <1>9, <1>10, <1>11 DEF all

LEMMA Resume ==
    ASSUME NEW s \in Text, NEW t \in Text, Begins(s, t)
    PROVE  s \o SubSeq(t, Len(s) + 1, Len(t)) = t
<1>1. Len(s) \in Nat /\ Len(t) \in Nat /\ Len(s) <= Len(t)
  BY DEF Text, Begins
<1>2. s = SubSeq(t, 1, Len(s))
  BY BeginsIsPrefix, SubSeqFull DEF IsPrefix, Text
<1>3. SubSeq(t, 1, Len(s)) \o SubSeq(t, Len(s) + 1, Len(t)) = SubSeq(t, 1, Len(t))
  <2>1. t \in Seq(Characters) /\ 1 \in 1..(Len(t) + 1) /\ Len(s) \in (1 - 1)..Len(t) /\ Len(t) \in Len(s)..Len(t)
    BY <1>1 DEF Text
  <2>2. QED
    BY ONLY <2>1, ConcatAdjacentSubSeq
<1>4. SubSeq(t, 1, Len(t)) = t
  BY SubSeqFull DEF Text
<1>5. QED
  BY <1>2, <1>3, <1>4

------------------------------------------------------------------------------
(* The loop. *)

(* What is taken for written is what is written, and is what is safe.      *)
IInv ==
    /\ out_ids \in Seq(Bytes) /\ n \in Nat /\ pc \in {"reply", "done"}
    /\ pc = "reply" => stdout = rstrip(decode(out_ids)) /\ printed = stdout
    /\ pc = "done" => stdout = decode(out_ids)

LEMMA InitIInv == Init => IInv
<1> SUFFICES ASSUME Init PROVE IInv
  OBVIOUS
<1> DEFINE none == <<>>
<1>1. none \in Seq(Bytes) /\ none \in Text /\ Len(none) = 0
  BY EmptySeq DEF Text
<1>2. PICK r : Run(r, none) /\ decode(none) = Broken(r[Len(none)])
  BY <1>1, DecodeIsRun
<1>3. decode(none) = none
  BY <1>1, <1>2 DEF Run, Fresh, Broken
<1>4. Safely(none, 0)
  BY <1>1 DEF Safely
<1>5. rstrip(none) \in Text /\ Len(rstrip(none)) = 0
  BY <1>1, <1>4, RstripIsSafe
<1>6. rstrip(none) = none
  BY <1>5, EmptySeq DEF Text
<1>7. QED
  BY <1>1, <1>3, <1>6 DEF Init, IInv

LEMMA TokenIInv == IInv /\ Token => IInv'
<1> SUFFICES ASSUME IInv, Token PROVE IInv'
  OBVIOUS
<1>1. PICK t \in Vocabulary : out_ids' = out_ids \o t
  BY DEF Token
<1>2. /\ out_ids \in Seq(Bytes) /\ t \in Seq(Bytes) /\ pc = "reply" /\ pc' = "reply"
      /\ printed = stdout /\ stdout = rstrip(decode(out_ids)) /\ n' \in Nat
  BY DEF IInv, Token
<1> DEFINE safe == rstrip(decode(out_ids'))
<1>3. stdout \in Text /\ safe \in Text /\ Begins(stdout, safe) /\ out_ids' \in Seq(Bytes)
  BY <1>1, <1>2, SafeStaysSafe, ConcatProperties
<1>4. CASE Len(safe) > Len(printed)
  <2>1. stdout' = stdout \o SubSeq(safe, Len(stdout) + 1, Len(safe)) /\ printed' = safe
    BY <1>2, <1>4 DEF Token, Delta, Safe
  <2>2. QED
    BY <1>2, <1>3, <2>1, Resume DEF IInv
<1>5. CASE ~(Len(safe) > Len(printed))
  <2>1. stdout' = stdout /\ printed' = printed
    BY <1>5 DEF Token
  <2>2. Len(stdout) = Len(safe) /\ \A i \in 1..Len(stdout) : stdout[i] = safe[i]
    BY <1>2, <1>3, <1>5 DEF Begins, Text
  <2>3. stdout = safe
    BY <1>3, <2>2, SeqEqual DEF Text
  <2>4. QED
    BY <1>2, <1>3, <2>1, <2>3 DEF IInv
<1>6. QED
  BY <1>4, <1>5

LEMMA EndIInv == IInv /\ End => IInv'
<1> SUFFICES ASSUME IInv, End PROVE IInv'
  OBVIOUS
<1>1. /\ out_ids \in Seq(Bytes) /\ pc' = "done" /\ UNCHANGED <<out_ids, n>> /\ n \in Nat
      /\ printed = stdout /\ stdout = rstrip(decode(out_ids))
      /\ stdout' = stdout \o SubSeq(decode(out_ids), Len(stdout) + 1, Len(decode(out_ids)))
  BY DEF IInv, End, Held, Delta
<1>2. stdout \in Text /\ decode(out_ids) \in Text /\ Begins(stdout, decode(out_ids))
  BY <1>1, SafeStaysSafe, EmptySeq
<1>3. stdout' = decode(out_ids)
  BY <1>1, <1>2, Resume
<1>4. QED
  BY <1>1, <1>3 DEF IInv

LEMMA Invariance == Spec => []IInv
<1>1. IInv /\ UNCHANGED vars => IInv'
  BY DEF IInv, vars
<1>2. IInv /\ [Next]_vars => IInv'
  BY <1>1, TokenIInv, EndIInv DEF Next
<1>3. QED
  BY <1>2, InitIInv, PTL DEF Spec

(* What is on the screen is a prefix of the reply, and of every way it may *)
(* go on (llama_npu.py:321-323): a character that is not complete is never *)
(* written as U+FFFD before its other bytes have come.                     *)
THEOREM ScreenIsPrefix == Spec => []NeverGarbled
<1>1. IInv => NeverGarbled
  <2> SUFFICES ASSUME IInv PROVE NeverGarbled
    OBVIOUS
  <2>1. out_ids \in Seq(Bytes) /\ \A t \in Vocabulary : t \in Seq(Bytes)
    BY DEF IInv
  <2>2. CASE pc = "reply"
    <3>1. stdout = rstrip(decode(out_ids))
      BY <2>2 DEF IInv
    <3>2. \A t \in Seq(Bytes) : /\ stdout \in Text /\ decode(out_ids) \in Text
                                /\ decode(out_ids \o t) \in Text
                                /\ Begins(stdout, decode(out_ids))
                                /\ Begins(stdout, decode(out_ids \o t))
      BY <2>1, <3>1, SafeStaysSafe
    <3>3. \A t \in Seq(Bytes) : IsPrefix(stdout, decode(out_ids)) /\ IsPrefix(stdout, decode(out_ids \o t))
      BY <3>2, BeginsIsPrefix
    <3>4. <<>> \in Seq(Bytes)
      BY EmptySeq
    <3>5. QED
      BY <2>1, <3>3, <3>4 DEF NeverGarbled
  <2>3. CASE pc = "done"
    BY <2>3 DEF IInv, NeverGarbled, IsPrefix
  <2>4. QED
    BY <2>2, <2>3 DEF IInv
<1>2. QED
  BY <1>1, Invariance, PTL

(* Only the trailing U+FFFD are held back (llama_npu.py:324-328): the rest *)
(* of the reply is on the screen after every token.                        *)
THEOREM RestIsShown == Spec => []NothingElseHeldBack
<1>1. IInv => NothingElseHeldBack
  BY DEF IInv, NothingElseHeldBack
<1>2. QED
  BY <1>1, Invariance, PTL

(* At the end of a reply all of it has been written, no character twice    *)
(* (llama_npu.py:330-333).                                                 *)
THEOREM ReplyIsWritten == Spec => []WrittenInFull
<1>1. IInv => WrittenInFull
  BY DEF IInv, WrittenInFull
<1>2. QED
  BY <1>1, Invariance, PTL
==============================================================================
