----------------------------- MODULE GemvProofs -----------------------------
(***************************************************************************)
(* Safety of gemv() with the kernel it runs, for every tiling, fifo depth, *)
(* block length and set of shapes, and any number of calls: first the      *)
(* inductive invariant of the kernel, then that of the host around it.     *)
(***************************************************************************)
EXTENDS Gemv, SequenceTheorems, TLAPS

USE KernelAssumption

------------------------------------------------------------------------------
(* The kernel. *)

(* The elements of a fifo follow each other up to the tile "to".           *)
Linked(s, to) ==
    \A i \in 1..Len(s) : After(s[i]) = IF i = Len(s) THEN to ELSE s[i + 1]

Start(s, to) == IF s = <<>> THEN to ELSE s[1]

LEMMA LinkedAppend ==
    ASSUME NEW T, NEW s \in Seq(T), NEW t \in T, Linked(s, t)
    PROVE  /\ Linked(Append(s, t), After(t))
           /\ Start(Append(s, t), After(t)) = Start(s, t)
  BY DEF Linked, Start

LEMMA LinkedTail ==
    ASSUME NEW T, NEW s \in Seq(T), NEW to, s # <<>>, Linked(s, to)
    PROVE  /\ Linked(Tail(s), to)
           /\ Start(Tail(s), to) = After(Head(s))
           /\ Head(s) = Start(s, to)
<1> DEFINE u == Tail(s)
<1>1. /\ u \in Seq(T) /\ Len(s) \in Nat \ {0} /\ Len(u) = Len(s) - 1
      /\ \A i \in 1..Len(u) : u[i] = s[i + 1]
  OBVIOUS
<1>2. u = <<>> <=> Len(u) = 0
  <2> HIDE DEF u
  <2> QED
    BY <1>1, EmptySeq
<1>3. \A i \in 1..Len(s) : After(s[i]) = IF i = Len(s) THEN to ELSE s[i + 1]
  BY DEF Linked
<1> HIDE DEF u
<1>4. Linked(u, to)
  <2> SUFFICES ASSUME NEW i \in 1..Len(u)
               PROVE  After(u[i]) = IF i = Len(u) THEN to ELSE u[i + 1]
    BY DEF Linked
  <2>1. i + 1 \in 1..Len(s) /\ u[i] = s[i + 1]
    BY <1>1
  <2>2. CASE i = Len(u)
    BY <1>1, <1>3, <2>1, <2>2
  <2>3. CASE i # Len(u)
    <3>1. i + 1 \in 1..Len(u) /\ u[i + 1] = s[(i + 1) + 1]
      BY <1>1, <2>3
    <3> QED
      BY <1>1, <1>3, <2>1, <2>3, <3>1
  <2> QED
    BY <2>2, <2>3
<1>5. Start(u, to) = After(s[1])
  <2>1. CASE Len(s) = 1
    BY <1>1, <1>3, <1>2, <2>1 DEF Start
  <2>2. CASE Len(s) # 1
    <3>1. 1 \in 1..Len(u) /\ u[1] = s[2]
      BY <1>1, <2>2
    <3> QED
      BY <1>1, <1>3, <1>2, <2>2, <3>1 DEF Start
  <2> QED
    BY <2>1, <2>2
<1>6. Head(s) = s[1]
  OBVIOUS
<1> QED
  BY <1>4, <1>5, <1>6 DEF Start, u

(* Rows of this call that the worker has finished, and the tile of A and   *)
(* of b that it will multiply next.                                        *)
finished == Len(c_out) + Len(outC)

cursor == IF col < K_div_k THEN Tile(call, finished + 1, col + 1)
                            ELSE Tile(call, finished + 2, 1)

Midway == Start(a_fifo, A_taps)

(* Both input streams are gapless from the core's position to the DMAs'.   *)
StreamInv ==
    /\ Linked(B_fifo, b_tap) /\ Start(B_fifo, b_tap) = cursor
    /\ Linked(a_fifo, A_taps)
    /\ Linked(coreA, Midway) /\ Start(coreA, Midway) = cursor

(* A DMA that is through its rows stands at the first column. *)
TapInv ==
    /\ b_tap.row = M_div_m + 1 => b_tap.col = 1
    /\ A_taps.row = M_div_m + 1 => A_taps.col = 1

(* What the core holds agrees with where it is. *)
CoreInv ==
    /\ at = "acquireC" => elem_out = <<>> /\ col = 0
    /\ at = "releaseC" <=> col = K_div_k
    /\ at \in {"acquireB", "matvec"} => coreA # <<>>
    /\ at = "matvec" => B_fifo # <<>>

(* Every buffer is the row, or the part of the row, it stands for. *)
RowInv ==
    /\ elem_out = [k \in 1..col |-> <<Tile(call, finished + 1, k),
                                      Tile(call, finished + 1, k)>>]
    /\ \A i \in 1..Len(outC) : outC[i] = Row(call, Len(c_out) + i)
    /\ \A i \in 1..Len(c_out) : c_out[i] = Row(call, i)

KInv == KernelTypeOK /\ StreamInv /\ TapInv /\ CoreInv /\ RowInv

------------------------------------------------------------------------------

LEMMA KernelInitHolds == KernelInit => KInv
<1> SUFFICES ASSUME KernelInit PROVE KInv
  OBVIOUS
<1>1. KernelTypeOK
  BY DEF KernelInit, KernelTypeOK, Tile, Cursors, Buffers
<1>2. StreamInv /\ TapInv
  BY DEF KernelInit, StreamInv, TapInv, Linked, Start, cursor, finished, Midway, Tile
<1>3. CoreInv
  BY DEF KernelInit, CoreInv
<1>4. RowInv
  BY DEF KernelInit, RowInv, finished, Tile
<1> QED
  BY <1>1, <1>2, <1>3, <1>4 DEF KInv

LEMMA CursorType == ASSUME KInv PROVE cursor \in Cursors /\ Midway \in Cursors
<1>1. Tiles \subseteq Cursors
  BY DEF Tiles, Cursors, KInv, KernelTypeOK
<1>2. Midway \in Cursors
  BY <1>1 DEF Midway, Start, KInv, KernelTypeOK
<1> QED
  BY <1>1, <1>2 DEF KInv, StreamInv, Start, KernelTypeOK

LEMMA AfterType == ASSUME NEW t \in Tiles, M_div_m \in Nat
                   PROVE  /\ After(t) \in Cursors
                          /\ After(t).row = M_div_m + 1 => After(t).col = 1
<1> USE DEF Tiles, Cursors
<1>1. CASE t.col < K_div_k
  <2>1. After(t) = [call |-> t.call, row |-> t.row, col |-> t.col + 1]
    BY <1>1 DEF After
  <2> QED
    BY <1>1, <2>1
<1>2. CASE ~(t.col < K_div_k)
  <2>1. After(t) = [call |-> t.call, row |-> t.row + 1, col |-> 1]
    BY <1>2 DEF After
  <2> QED
    BY <1>2, <2>1
<1> QED
  BY <1>1, <1>2

LEMMA TapSends == ASSUME NEW t \in Cursors, t.row <= M_div_m PROVE t \in Tiles
  BY DEF Tiles, Cursors

LEMMA FillBStep == KInv /\ FillB => KInv'
<1> SUFFICES ASSUME KInv, FillB PROVE KInv'
  OBVIOUS
<1> USE DEF FillB, MoreB, worker
<1>0. Tiles' = Tiles /\ Cursors' = Cursors
  BY DEF Tiles, Cursors
<1>1. b_tap \in Tiles
  BY TapSends DEF KInv, KernelTypeOK
<1>2. KernelTypeOK' /\ TapInv'
  BY <1>0, <1>1, AfterType DEF KInv, KernelTypeOK, TapInv
<1>3. StreamInv'
  <2>1. /\ Linked(B_fifo, b_tap)' /\ Start(B_fifo, b_tap)' = Start(B_fifo, b_tap)
    BY <1>1, LinkedAppend DEF KInv, KernelTypeOK, StreamInv
  <2>2. cursor' = cursor /\ Midway' = Midway
    BY DEF cursor, finished, Midway
  <2> QED
    BY <2>1, <2>2 DEF KInv, StreamInv
<1>4. CoreInv'
  <2>1. Len(B_fifo') = Len(B_fifo) + 1 /\ Len(B_fifo) \in Nat
    BY <1>1 DEF KInv, KernelTypeOK
  <2>2. B_fifo' # <<>>
    BY <2>1, EmptySeq
  <2> QED
    BY <2>2 DEF KInv, CoreInv
<1>5. RowInv'
  BY DEF KInv, RowInv, finished
<1> QED
  BY <1>2, <1>3, <1>4, <1>5 DEF KInv

LEMMA FillAStep == KInv /\ FillA => KInv'
<1> SUFFICES ASSUME KInv, FillA PROVE KInv'
  OBVIOUS
<1> USE DEF FillA, MoreA, worker
<1>0. Tiles' = Tiles /\ Cursors' = Cursors
  BY DEF Tiles, Cursors
<1>1. A_taps \in Tiles
  BY TapSends DEF KInv, KernelTypeOK
<1>2. KernelTypeOK' /\ TapInv'
  BY <1>0, <1>1, AfterType DEF KInv, KernelTypeOK, TapInv
<1>3. StreamInv'
  <2>1. /\ Linked(a_fifo, A_taps)' /\ Start(a_fifo, A_taps)' = Start(a_fifo, A_taps)
    BY <1>1, LinkedAppend DEF KInv, KernelTypeOK, StreamInv
  <2>2. cursor' = cursor /\ Midway' = Midway
    BY <2>1 DEF cursor, finished, Midway
  <2> QED
    BY <2>1, <2>2 DEF KInv, StreamInv
<1>4. CoreInv'
  BY <1>1 DEF KInv, KernelTypeOK, CoreInv
<1>5. RowInv'
  BY DEF KInv, RowInv, finished
<1> QED
  BY <1>2, <1>3, <1>4, <1>5 DEF KInv

LEMMA ForwardStep == KInv /\ Forward => KInv'
<1> SUFFICES ASSUME KInv, Forward PROVE KInv'
  OBVIOUS
<1> USE DEF Forward, worker
<1>0. Tiles' = Tiles /\ Cursors' = Cursors
  BY DEF Tiles, Cursors
<1>1. Head(a_fifo) \in Tiles /\ Tail(a_fifo) \in Seq(Tiles) /\ Len(Tail(a_fifo)) <= Depth
  BY DEF KInv, KernelTypeOK
<1>2. KernelTypeOK' /\ TapInv'
  BY <1>0, <1>1 DEF KInv, KernelTypeOK, TapInv
<1>3. StreamInv'
  <2>1. /\ Linked(Tail(a_fifo), A_taps)
        /\ Start(Tail(a_fifo), A_taps) = After(Head(a_fifo))
        /\ Head(a_fifo) = Midway
    BY LinkedTail DEF KInv, KernelTypeOK, StreamInv, Midway
  <2>2. /\ Linked(Append(coreA, Head(a_fifo)), After(Head(a_fifo)))
        /\ Start(Append(coreA, Head(a_fifo)), After(Head(a_fifo))) = cursor
    BY <1>1, <2>1, LinkedAppend DEF KInv, KernelTypeOK, StreamInv
  <2>3. cursor' = cursor /\ Midway' = After(Head(a_fifo))
    BY <2>1 DEF cursor, finished, Midway
  <2> QED
    BY <2>1, <2>2, <2>3 DEF KInv, StreamInv
<1>4. CoreInv'
  <2>1. Len(coreA') = Len(coreA) + 1 /\ Len(coreA) \in Nat
    BY <1>1 DEF KInv, KernelTypeOK
  <2>2. coreA' # <<>>
    BY <2>1, EmptySeq
  <2> QED
    BY <2>2 DEF KInv, KernelTypeOK, CoreInv
<1>5. RowInv'
  BY DEF KInv, RowInv, finished
<1> QED
  BY <1>2, <1>3, <1>4, <1>5 DEF KInv

LEMMA DrainStep == KInv /\ Drain => KInv'
<1> SUFFICES ASSUME KInv, Drain PROVE KInv'
  OBVIOUS
<1> USE DEF Drain, GiveBack, inputs, worker
<1>0. Tiles' = Tiles /\ Cursors' = Cursors
  BY DEF Tiles, Cursors
<1>1. /\ Head(outC) = outC[1] /\ Head(outC) \in Buffers
      /\ Tail(outC) \in Seq(Buffers) /\ Len(Tail(outC)) = Len(outC) - 1
      /\ \A i \in 1..Len(Tail(outC)) : Tail(outC)[i] = outC[i + 1]
      /\ Len(outC) \in Nat \ {0} /\ Len(c_out) \in Nat /\ Len(spare) \in Nat
  BY DEF KInv, KernelTypeOK
<1>2. Len(c_out') = Len(c_out) + 1 /\ Len(spare') = Len(spare) + 1
  BY <1>1 DEF KInv, KernelTypeOK
<1>3. KernelTypeOK' /\ TapInv'
  <2>1. /\ c_out' \in Seq(Buffers) /\ spare' \in Seq(Buffers) /\ outC' \in Seq(Buffers)
        /\ Len(c_out') <= M_div_m /\ Len(outC') + Len(spare') = Len(outC) + Len(spare)
    BY <1>1, <1>2 DEF KInv, KernelTypeOK
  <2> QED
    BY <1>0, <2>1 DEF KInv, KernelTypeOK, TapInv
<1>4. finished' = finished
  BY <1>1, <1>2 DEF finished
<1>5. StreamInv' /\ CoreInv'
  BY <1>4 DEF KInv, StreamInv, CoreInv, cursor, Midway
<1>6. RowInv'
  <2>1. outC[1] = Row(call, Len(c_out) + 1)
    BY <1>1 DEF KInv, RowInv
  <2>2. \A i \in 1..Len(c_out') : c_out'[i] = Row(call, i)
    BY <1>1, <1>2, <2>1 DEF KInv, RowInv, KernelTypeOK
  <2>3. \A i \in 1..Len(outC') : outC'[i] = Row(call, Len(c_out') + i)
    <3> SUFFICES ASSUME NEW i \in 1..Len(outC')
                 PROVE  outC'[i] = Row(call, Len(c_out') + i)
      OBVIOUS
    <3>1. outC'[i] = outC[i + 1] /\ i + 1 \in 1..Len(outC)
      BY <1>1
    <3>2. Len(c_out) + (i + 1) = Len(c_out') + i
      BY <1>1, <1>2
    <3> QED
      BY <3>1, <3>2 DEF KInv, RowInv
  <2> QED
    BY <1>4, <2>2, <2>3 DEF KInv, RowInv
<1> QED
  BY <1>3, <1>5, <1>6 DEF KInv

------------------------------------------------------------------------------

LEMMA AcquireCStep == KInv /\ AcquireC => KInv'
<1> SUFFICES ASSUME KInv, AcquireC PROVE KInv'
  OBVIOUS
<1> USE DEF AcquireC, zero, inputs
<1>0. Tiles' = Tiles /\ Cursors' = Cursors
  BY DEF Tiles, Cursors
<1>1. Tail(spare) \in Seq(Buffers) /\ Len(Tail(spare)) = Len(spare) - 1 /\ Len(spare) \in Nat
  BY DEF KInv, KernelTypeOK
<1>2. KernelTypeOK' /\ TapInv'
  BY <1>0, <1>1 DEF KInv, KernelTypeOK, TapInv, Buffers
<1>3. StreamInv'
  BY DEF KInv, StreamInv, cursor, finished, Midway
<1>4. CoreInv'
  BY DEF KInv, CoreInv, KernelTypeOK
<1>5. RowInv'
  BY DEF KInv, RowInv, CoreInv, finished
<1> QED
  BY <1>2, <1>3, <1>4, <1>5 DEF KInv

LEMMA AcquireInputStep == KInv /\ AcquireInput => KInv'
<1> SUFFICES ASSUME KInv, AcquireInput PROVE KInv'
  OBVIOUS
<1> USE DEF AcquireInput, inputs
<1>0. Tiles' = Tiles /\ Cursors' = Cursors
  BY DEF Tiles, Cursors
<1>1. KernelTypeOK' /\ TapInv'
  BY <1>0 DEF KInv, KernelTypeOK, TapInv
<1>2. StreamInv'
  BY DEF KInv, StreamInv, cursor, finished, Midway
<1>3. CoreInv'
  BY DEF KInv, CoreInv, KernelTypeOK
<1>4. RowInv'
  BY DEF KInv, RowInv, finished
<1> QED
  BY <1>1, <1>2, <1>3, <1>4 DEF KInv

LEMMA MatvecStep == KInv /\ Matvec => KInv'
<1> SUFFICES ASSUME KInv, Matvec PROVE KInv'
  OBVIOUS
<1> USE DEF Matvec
<1>0. Tiles' = Tiles /\ Cursors' = Cursors
  BY DEF Tiles, Cursors
<1>1. /\ coreA # <<>> /\ B_fifo # <<>> /\ col < K_div_k /\ col \in Nat
  BY DEF KInv, CoreInv, KernelTypeOK
<1>2. /\ Head(coreA) = cursor /\ Linked(Tail(coreA), Midway)
      /\ Start(Tail(coreA), Midway) = After(cursor)
  BY <1>1, LinkedTail, CursorType DEF KInv, KernelTypeOK, StreamInv
<1>3. /\ Head(B_fifo) = cursor /\ Linked(Tail(B_fifo), b_tap)
      /\ Start(Tail(B_fifo), b_tap) = After(cursor)
  BY <1>1, LinkedTail DEF KInv, KernelTypeOK, StreamInv
<1>4. cursor = Tile(call, finished + 1, col + 1) /\ cursor \in Tiles
  BY <1>1, <1>2 DEF cursor, KInv, KernelTypeOK
<1>5. finished \in Nat /\ finished' = finished
  BY DEF finished, KInv, KernelTypeOK
<1>6. cursor' = After(cursor)
  <2>1. CASE col + 1 < K_div_k
    <3>1. After(cursor) = Tile(call, finished + 1, (col + 1) + 1)
      BY <1>1, <1>4, <2>1 DEF After, Tile
    <3> QED
      BY <1>1, <1>5, <2>1, <3>1 DEF cursor
  <2>2. CASE ~(col + 1 < K_div_k)
    <3>1. After(cursor) = Tile(call, (finished + 1) + 1, 1)
      BY <1>1, <1>4, <2>2 DEF After, Tile
    <3> QED
      BY <1>1, <1>5, <2>2, <3>1 DEF cursor
  <2> QED
    BY <2>1, <2>2
<1>7. /\ Tail(coreA) \in Seq(Tiles) /\ Len(Tail(coreA)) <= Depth
      /\ Tail(B_fifo) \in Seq(Tiles) /\ Len(Tail(B_fifo)) <= Depth
  BY <1>1 DEF KInv, KernelTypeOK
<1>8. KernelTypeOK' /\ TapInv'
  <2>1. elem_out' \in Buffers
    <3>1. cursor \in AnyTile
      BY <1>1, <1>4, <1>5 DEF AnyTile, Tile, KInv, KernelTypeOK
    <3>2. <<Head(coreA), Head(B_fifo)>> \in AnyTile \X AnyTile
      BY <1>2, <1>3, <3>1
    <3> QED
      BY <3>2 DEF KInv, KernelTypeOK, Buffers
  <2>2. at' \in {"acquireA", "releaseC"} /\ col' \in 0..K_div_k
    BY <1>1
  <2> QED
    BY <1>0, <1>7, <2>1, <2>2 DEF KInv, KernelTypeOK, TapInv
<1>9. StreamInv'
  BY <1>2, <1>3, <1>6 DEF KInv, StreamInv, Midway
<1>10. CoreInv'
  BY <1>1 DEF KInv, CoreInv, KernelTypeOK
<1>11. RowInv'
  <2>1. elem_out' = [k \in 1..(col + 1) |-> <<Tile(call, finished + 1, k),
                                               Tile(call, finished + 1, k)>>]
    <3> DEFINE t(k) == <<Tile(call, finished + 1, k), Tile(call, finished + 1, k)>>
    <3>1. elem_out' = Append(elem_out, t(col + 1))
      BY <1>2, <1>3, <1>4
    <3>2. elem_out = [k \in 1..col |-> t(k)]
      BY DEF KInv, RowInv
    <3> HIDE DEF t
    <3>3. Append([k \in 1..col |-> t(k)], t(col + 1)) = [k \in 1..(col + 1) |-> t(k)]
      BY <1>1
    <3> QED
      BY <3>1, <3>2, <3>3 DEF t
  <2> QED
    BY <1>5, <2>1 DEF KInv, RowInv
<1> QED
  BY <1>8, <1>9, <1>10, <1>11 DEF KInv

LEMMA ReleaseCStep == KInv /\ ReleaseC => KInv'
<1> SUFFICES ASSUME KInv, ReleaseC PROVE KInv'
  OBVIOUS
<1> USE DEF ReleaseC, inputs
<1>0. Tiles' = Tiles /\ Cursors' = Cursors
  BY DEF Tiles, Cursors
<1>1. col = K_div_k /\ elem_out \in Buffers /\ Len(outC) \in Nat /\ Len(c_out) \in Nat
  BY DEF KInv, CoreInv, KernelTypeOK
<1>2. Len(outC') = Len(outC) + 1 /\ finished' = finished + 1 /\ finished \in Nat
  BY <1>1 DEF finished, KInv, KernelTypeOK
<1>3. KernelTypeOK' /\ TapInv'
  BY <1>0, <1>1, <1>2 DEF KInv, KernelTypeOK, TapInv, Buffers
<1>4. cursor' = cursor
  BY <1>1, <1>2 DEF cursor
<1>5. StreamInv' /\ CoreInv'
  BY <1>4 DEF KInv, StreamInv, CoreInv, Midway, KernelTypeOK
<1>6. RowInv'
  <2>1. elem_out = Row(call, finished + 1)
    BY <1>1 DEF KInv, RowInv, Row
  <2>2. \A i \in 1..Len(outC') : outC'[i] = Row(call, Len(c_out) + i)
    <3> SUFFICES ASSUME NEW i \in 1..Len(outC')
                 PROVE  outC'[i] = Row(call, Len(c_out) + i)
      OBVIOUS
    <3>1. CASE i = Len(outC) + 1
      <4>1. outC'[i] = elem_out /\ Len(c_out) + i = finished + 1
        BY <1>1, <3>1 DEF KInv, KernelTypeOK, finished
      <4> QED
        BY <2>1, <4>1
    <3>2. CASE i # Len(outC) + 1
      <4>1. i \in 1..Len(outC) /\ outC'[i] = outC[i]
        BY <1>1, <1>2, <3>2 DEF KInv, KernelTypeOK
      <4> QED
        BY <4>1 DEF KInv, RowInv
    <3> QED
      BY <3>1, <3>2
  <2> QED
    BY <2>2 DEF KInv, RowInv
<1> QED
  BY <1>3, <1>5, <1>6 DEF KInv

------------------------------------------------------------------------------

(* At the end of a call the core waits at the first column of a row that   *)
(* does not exist, and nothing is left to consume.                         *)
LEMMA EndIsClean == KInv => CallEndsClean /\ (Len(c_out) = M_div_m => col = 0)
<1> SUFFICES ASSUME KInv, Len(c_out) = M_div_m
             PROVE  CallEndsClean /\ col = 0
  BY DEF CallEndsClean, Drained
<1> USE DEF KInv, KernelTypeOK
<1>1. cursor \in Cursors /\ finished \in Nat /\ finished >= M_div_m
  BY CursorType DEF finished
<1>2. col < K_div_k /\ finished = M_div_m /\ cursor = Tile(call, M_div_m + 1, col + 1)
  <2>1. CASE col < K_div_k
    <3>1. cursor = Tile(call, finished + 1, col + 1)
      BY <2>1 DEF cursor
    <3> QED
      <4>1. cursor.row = finished + 1 /\ cursor.row <= M_div_m + 1
        BY <1>1, <3>1 DEF Tile, Cursors
      <4>2. finished = M_div_m
        BY <1>1, <4>1
      <4> QED
        BY <2>1, <3>1, <4>2
  <2>2. CASE ~(col < K_div_k)
    <3>1. cursor = Tile(call, finished + 2, 1)
      BY <2>2 DEF cursor
    <3> QED
      BY <1>1, <3>1 DEF Tile, Cursors
  <2> QED
    BY <2>1, <2>2
<1>3. cursor \notin Tiles
  BY <1>2 DEF Tiles, Tile
<1>4. coreA = <<>> /\ B_fifo = <<>> /\ Midway = cursor /\ b_tap = cursor
  BY <1>3 DEF StreamInv, Start
<1>5. a_fifo = <<>> /\ A_taps = cursor
  BY <1>3, <1>4 DEF Midway, Start
<1>6. outC = <<>>
  BY <1>2, EmptySeq DEF finished
<1>7. col = 0
  BY <1>2, <1>4, <1>5 DEF TapInv, Tile
<1>8. at \in {"acquireC", "acquireA"} /\ elem_out = <<>>
  BY <1>4, <1>7 DEF CoreInv, RowInv
<1> QED
  BY <1>2, <1>4, <1>5, <1>6, <1>7, <1>8 DEF CallEndsClean, Tile

(* A call that starts when the one before has ended starts clean, whether  *)
(* the device is loaded anew or not.                                       *)
LEMMA InvokeStep ==
    ASSUME NEW rows \in Nat, KInv, Drained, Invoke(rows), call # 0 \/ rows # M_div_m
    PROVE  KInv'
<1> USE DEF Invoke
<1>1. CallEndsClean /\ col = 0
  BY EndIsClean DEF Drained
<1>2. /\ B_fifo' = <<>> /\ a_fifo' = <<>> /\ coreA' = <<>> /\ outC' = <<>>
      /\ at' \in {"acquireC", "acquireA"} /\ elem_out' = <<>> /\ col' = 0
      /\ call' # 0 /\ c_out' = <<>>
  BY <1>1 DEF CallEndsClean, Drained, Load, worker, inputs, KInv, KernelTypeOK
<1>3. KernelTypeOK'
  <2>1. spare' \in Seq(Buffers) /\ Len(spare') + (IF at' = "acquireC" THEN 0 ELSE 1) = Depth
    <3>1. CASE Load
      <4>1. Leftover \in Buffers
        BY DEF Leftover, Buffers, AnyTile, Tile
      <4> QED
        BY <3>1, <4>1 DEF Load
    <3>2. CASE rows = M_div_m /\ UNCHANGED <<inputs, outC, spare, worker>>
      BY <1>1, <3>2 DEF CallEndsClean, Drained, worker, KInv, KernelTypeOK
    <3> QED
      BY <3>1, <3>2
  <2>2. b_tap' \in Cursors' /\ A_taps' \in Cursors' /\ call' \in Nat /\ M_div_m' \in Nat
    BY DEF KInv, KernelTypeOK, Tile, Cursors
  <2>3. col' \in 0..K_div_k /\ Len(c_out') <= M_div_m' /\ Len(outC') = 0
    BY <1>2, <2>2
  <2>4. elem_out' \in Buffers /\ Len(B_fifo') <= Depth /\ Len(a_fifo') <= Depth /\ Len(coreA') <= Depth
    BY <1>2 DEF Buffers
  <2>5. Len(spare') \in Nat
    BY <2>1
  <2> QED
    BY <1>2, <2>1, <2>2, <2>3, <2>4, <2>5 DEF KernelTypeOK
<1>4. StreamInv'
  BY <1>2 DEF StreamInv, Linked, Start, Midway, cursor, finished, Tile
<1>5. TapInv' /\ CoreInv'
  BY <1>2 DEF TapInv, CoreInv, Tile
<1>6. RowInv'
  BY <1>2 DEF RowInv, finished
<1> QED
  BY <1>3, <1>4, <1>5, <1>6 DEF KInv

LEMMA DeviceStep == KInv /\ Device => KInv'
  BY FillBStep, FillAStep, ForwardStep, DrainStep, AcquireCStep, AcquireInputStep,
     MatvecStep, ReleaseCStep DEF Device, core_fn

LEMMA KernelStutter == KInv /\ UNCHANGED kernel => KInv'
  BY DEF kernel, inputs, worker, KInv, KernelTypeOK, StreamInv, TapInv, CoreInv, RowInv,
         cursor, finished, Midway, Tiles, Cursors, Linked, Start

(* What the host relies on when its wait is over. *)
LEMMA KernelIsCorrect == KInv => KernelTypeOK /\ TilesAreProducts /\ CallEndsClean
  BY EndIsClean DEF KInv, RowInv, TilesAreProducts

------------------------------------------------------------------------------
(* The data flow can always go on, and only so often. *)

(* Some engine or the core has what its next step waits for. *)
Ready ==
    \/ MoreB /\ Len(B_fifo) < Depth
    \/ MoreA /\ Len(a_fifo) < Depth
    \/ a_fifo # <<>> /\ Len(coreA) < Depth
    \/ outC # <<>> /\ Len(c_out) < M_div_m
    \/ at = "acquireC" /\ spare # <<>>
    \/ at = "acquireA" /\ coreA # <<>>
    \/ at = "acquireB" /\ B_fifo # <<>>
    \/ at \in {"matvec", "releaseC"}

(* While rows are missing, the tile the core waits for is in a fifo or     *)
(* still to be sent through one with room, and buffers of C come back.     *)
LEMMA NeverStuck == KInv /\ call # 0 /\ ~Drained => Ready
<1> SUFFICES ASSUME KInv, call # 0, ~Drained, ~Ready PROVE FALSE
  OBVIOUS
<1> USE DEF KInv, KernelTypeOK
<1>1. Len(c_out) < M_div_m /\ Len(c_out) \in Nat /\ M_div_m \in Nat
  BY DEF Drained
<1>2. outC = <<>> /\ Len(outC) = 0
  BY <1>1 DEF Ready
<1>3. at \in {"acquireA", "acquireB"}
  <2>1. at = "acquireC" => spare # <<>>
    <3> SUFFICES ASSUME at = "acquireC", spare = <<>> PROVE FALSE
      OBVIOUS
    <3> QED
      BY <1>2, KernelAssumption
  <2> QED
    BY <2>1 DEF Ready
<1>4. col < K_div_k
  BY <1>3 DEF CoreInv
<1>5. cursor.row <= M_div_m
  <2>1. cursor = Tile(call, finished + 1, col + 1) /\ finished = Len(c_out)
    BY <1>1, <1>2, <1>4 DEF cursor, finished
  <2> QED
    BY <1>1, <2>1 DEF Tile
<1>6. CASE at = "acquireA"
  <2>1. coreA = <<>> /\ cursor = Midway
    BY <1>6 DEF Ready, StreamInv, Start
  <2>2. a_fifo = <<>> /\ Midway = A_taps
    BY <2>1, EmptySeq, KernelAssumption DEF Ready, Midway, Start
  <2>3. MoreA
    BY <1>5, <2>1, <2>2 DEF MoreA
  <2> QED
    BY <2>2, <2>3, EmptySeq, KernelAssumption DEF Ready
<1>7. CASE at = "acquireB"
  <2>1. B_fifo = <<>> /\ cursor = b_tap
    BY <1>7 DEF Ready, StreamInv, Start
  <2>2. MoreB
    BY <1>5, <2>1 DEF MoreB
  <2> QED
    BY <2>1, <2>2, EmptySeq, KernelAssumption DEF Ready
<1> QED
  BY <1>3, <1>6, <1>7

(* The tiles a DMA has still to send. *)
ToSend(tap) == (M_div_m + 1 - tap.row) * K_div_k + 1 - tap.col

(* The steps the core has made on the row it is at, of the RowSteps that a *)
(* row takes.                                                              *)
Along ==
    IF at = "acquireC" THEN 0
    ELSE 3 * col + (IF at = "acquireB" THEN 2 ELSE IF at = "matvec" THEN 3 ELSE 1)

RowSteps == 3 * K_div_k + 2

(* It may get one step into the row after the last. *)
CoreWork == (M_div_m + 1 - finished) * RowSteps - Along

(* A tile of A is sent and forwarded. *)
ToPass == 2 * ToSend(A_taps) + Len(a_fifo)

ToDrain == M_div_m - Len(c_out)

(* The steps left in a call. *)
Work == ToSend(b_tap) + ToPass + ToDrain + CoreWork

LEMMA Product ==
    ASSUME NEW a \in Nat, NEW b \in Nat
    PROVE  a * b \in Nat /\ (a + 1) * b = a * b + b
  BY SMT

LEMMA ToSendNat ==
    ASSUME NEW t \in Cursors, M_div_m \in Nat, t.row = M_div_m + 1 => t.col = 1
    PROVE  ToSend(t) \in Nat
<1>1. t.row \in 1..(M_div_m + 1) /\ t.col \in 1..K_div_k
  BY DEF Cursors
<1>2. CASE t.row = M_div_m + 1
  <2>1. (M_div_m + 1 - t.row) * K_div_k = 0
    BY <1>1, <1>2, KernelAssumption
  <2> QED
    BY <1>2, <2>1 DEF ToSend
<1>3. CASE t.row # M_div_m + 1
  <2> DEFINE a == M_div_m - t.row
  <2>1. a \in Nat /\ M_div_m + 1 - t.row = a + 1
    BY <1>1, <1>3
  <2>2. a * K_div_k \in Nat /\ (a + 1) * K_div_k = a * K_div_k + K_div_k
    BY <2>1, Product, KernelAssumption
  <2> HIDE DEF a
  <2> QED
    BY <1>1, <2>1, <2>2, KernelAssumption DEF ToSend
<1> QED
  BY <1>2, <1>3

LEMMA OneSent ==
    ASSUME NEW t \in Tiles, M_div_m \in Nat
    PROVE  ToSend(After(t)) = ToSend(t) - 1
<1>1. t.row \in 1..M_div_m /\ t.col \in 1..K_div_k
  BY DEF Tiles
<1> DEFINE a == M_div_m - t.row
<1>2. /\ a \in Nat /\ M_div_m + 1 - t.row = a + 1
      /\ a * K_div_k \in Nat /\ (a + 1) * K_div_k = a * K_div_k + K_div_k
  BY <1>1, Product, KernelAssumption
<1>3. CASE t.col < K_div_k
  <2>1. After(t).row = t.row /\ After(t).col = t.col + 1
    BY <1>3 DEF After, Tiles
  <2>2. ToSend(t) = (a + 1) * K_div_k + 1 - t.col
    BY <1>2 DEF ToSend
  <2>3. ToSend(After(t)) = (a + 1) * K_div_k + 1 - (t.col + 1)
    BY <1>2, <2>1 DEF ToSend
  <2> HIDE DEF a
  <2> QED
    BY <1>1, <1>2, <2>2, <2>3, KernelAssumption
<1>4. CASE ~(t.col < K_div_k)
  <2>1. After(t).row = t.row + 1 /\ After(t).col = 1 /\ t.col = K_div_k
    BY <1>1, <1>4, KernelAssumption DEF After, Tiles
  <2>2. ToSend(t) = (a + 1) * K_div_k + 1 - K_div_k
    BY <1>2, <2>1 DEF ToSend
  <2>3. M_div_m + 1 - (t.row + 1) = a
    BY <1>1
  <2>4. ToSend(After(t)) = a * K_div_k + 1 - 1
    BY <2>1, <2>3 DEF ToSend
  <2> HIDE DEF a
  <2> QED
    BY <1>2, <2>2, <2>4, KernelAssumption
<1> QED
  BY <1>3, <1>4

LEMMA RowStepsNat == RowSteps \in Nat
  BY KernelAssumption DEF RowSteps

LEMMA AlongRow == KInv => Along \in Nat /\ Along <= RowSteps - 1
<1> SUFFICES ASSUME KInv PROVE Along \in Nat /\ Along <= RowSteps - 1
  OBVIOUS
<1>1. /\ col \in Nat /\ K_div_k \in Nat
      /\ at \in {"acquireC", "acquireA", "acquireB", "matvec", "releaseC"}
      /\ at = "releaseC" => col = K_div_k
      /\ at # "releaseC" => col + 1 <= K_div_k
  BY KernelAssumption DEF KInv, KernelTypeOK, CoreInv
<1>2. CASE at = "acquireC"
  BY <1>1, <1>2 DEF Along, RowSteps
<1>3. CASE at = "releaseC"
  <2>1. Along = 3 * col + 1
    BY <1>3 DEF Along
  <2> QED
    BY <1>1, <1>3, <2>1 DEF RowSteps
<1>4. CASE at \in {"acquireA", "acquireB", "matvec"}
  <2>1. Along = 3 * col + 1 \/ Along = 3 * col + 2 \/ Along = 3 * col + 3
    BY <1>4 DEF Along
  <2> QED
    BY <1>1, <1>4, <2>1 DEF RowSteps
<1> QED
  BY <1>1, <1>2, <1>3, <1>4

LEMMA RowsLeft == KInv => finished \in Nat /\ finished <= M_div_m /\ M_div_m \in Nat
<1> SUFFICES ASSUME KInv PROVE finished \in Nat /\ finished <= M_div_m /\ M_div_m \in Nat
  OBVIOUS
<1>1. finished \in Nat /\ M_div_m \in Nat /\ cursor \in Cursors
  BY CursorType DEF KInv, KernelTypeOK, finished
<1>2. cursor.row = finished + 1 \/ cursor.row = finished + 2
  BY DEF cursor, Tile
<1>3. cursor.row \in 1..(M_div_m + 1)
  BY <1>1 DEF Cursors
<1> QED
  BY <1>1, <1>2, <1>3

LEMMA CoreWorkNat == KInv => CoreWork \in Nat
<1> SUFFICES ASSUME KInv PROVE CoreWork \in Nat
  OBVIOUS
<1> DEFINE a == M_div_m - finished
<1>1. a \in Nat /\ M_div_m + 1 - finished = a + 1
  BY RowsLeft
<1>2. CoreWork = (a + 1) * RowSteps - Along
  BY <1>1 DEF CoreWork
<1> HIDE DEF a
<1>3. a * RowSteps \in Nat /\ (a + 1) * RowSteps = a * RowSteps + RowSteps
  BY <1>1, RowStepsNat, Product
<1> QED
  BY <1>2, <1>3, AlongRow, RowStepsNat

LEMMA SharesNat ==
    KInv => ToSend(b_tap) \in Nat /\ ToPass \in Nat /\ ToDrain \in Nat /\ CoreWork \in Nat
<1> SUFFICES ASSUME KInv
             PROVE  ToSend(b_tap) \in Nat /\ ToPass \in Nat /\ ToDrain \in Nat /\ CoreWork \in Nat
  OBVIOUS
<1>1. ToSend(b_tap) \in Nat /\ ToSend(A_taps) \in Nat
  BY ToSendNat DEF KInv, KernelTypeOK, TapInv
<1>2. Len(a_fifo) \in Nat /\ ToDrain \in Nat
  BY DEF KInv, KernelTypeOK, ToDrain
<1> QED
  BY <1>1, <1>2, CoreWorkNat DEF ToPass

LEMMA WorkNat == KInv => Work \in Nat
  BY SharesNat DEF Work

(* The core's share falls with each of its steps. *)
LEMMA CoreWorkDone == KInv /\ core_fn => CoreWork' = CoreWork - 1
<1> SUFFICES ASSUME KInv, core_fn PROVE CoreWork' = CoreWork - 1
  OBVIOUS
<1>1. col \in Nat /\ Len(outC) \in Nat /\ Len(c_out) \in Nat /\ M_div_m \in Nat
  BY DEF KInv, KernelTypeOK
<1>2. CASE ReleaseC
  <2> DEFINE a == M_div_m - finished
  <2>1. /\ a \in Nat /\ M_div_m + 1 - finished = a + 1 /\ finished \in Nat
        /\ finished' = finished + 1 /\ M_div_m' = M_div_m
    <3>1. outC \in Seq(Buffers) /\ elem_out \in Buffers
      BY DEF KInv, KernelTypeOK
    <3>2. Len(Append(outC, elem_out)) = Len(outC) + 1
      BY <3>1
    <3> QED
      BY <1>1, <1>2, <3>2, RowsLeft DEF ReleaseC, finished
  <2>2. M_div_m + 1 - (finished + 1) = a
    BY <1>1, <2>1
  <2>3. Along = 3 * K_div_k + 1 /\ Along' = 0
    BY <1>2 DEF ReleaseC, Along, KInv, CoreInv
  <2>4. RowSteps' = RowSteps
    BY DEF RowSteps
  <2>5. CoreWork = (a + 1) * RowSteps - (3 * K_div_k + 1)
    BY <2>1, <2>3 DEF CoreWork
  <2>6. CoreWork' = a * RowSteps - 0
    BY <2>1, <2>2, <2>3, <2>4 DEF CoreWork
  <2> HIDE DEF a
  <2>7. a * RowSteps \in Nat /\ (a + 1) * RowSteps = a * RowSteps + RowSteps
    BY <2>1, RowStepsNat, Product
  <2> QED
    BY <2>5, <2>6, <2>7, RowStepsNat, KernelAssumption DEF RowSteps
<1>3. CASE AcquireC \/ AcquireInput \/ Matvec
  <2>1. UNCHANGED <<M_div_m, outC, c_out>>
    BY <1>3 DEF AcquireC, AcquireInput, Matvec, inputs
  <2>2. finished' = finished /\ RowSteps' = RowSteps
    BY <2>1 DEF finished, RowSteps
  <2>3. Along' = Along + 1
    <3>1. CASE AcquireC
      BY <3>1 DEF AcquireC, Along, KInv, CoreInv
    <3>2. CASE AcquireInput
      BY <1>1, <3>2 DEF AcquireInput, Along
    <3>3. CASE Matvec
      BY <1>1, <3>3 DEF Matvec, Along
    <3> QED
      BY <1>3, <3>1, <3>2, <3>3
  <2> DEFINE w == (M_div_m + 1 - finished) * RowSteps
  <2>4. CoreWork = w - Along /\ CoreWork' = w - (Along + 1)
    BY <2>1, <2>2, <2>3 DEF CoreWork
  <2>5. w \in Nat /\ Along \in Nat
    <3>1. M_div_m + 1 - finished \in Nat
      BY RowsLeft
    <3> QED
      BY <3>1, RowStepsNat, Product, AlongRow
  <2> HIDE DEF w
  <2> QED
    BY <2>4, <2>5
<1> QED
  BY <1>2, <1>3 DEF core_fn

(* No step of the device is without progress. *)
LEMMA WorkDone == KInv /\ Device => Work' = Work - 1
<1> SUFFICES ASSUME KInv, Device PROVE Work' = Work - 1
  OBVIOUS
<1>0. /\ ToSend(b_tap) \in Nat /\ ToPass \in Nat /\ ToDrain \in Nat /\ CoreWork \in Nat
  BY SharesNat
<1>1. /\ ToSend(A_taps) \in Nat
      /\ Len(a_fifo) \in Nat /\ Len(c_out) \in Nat /\ Len(outC) \in Nat /\ M_div_m \in Nat
  BY ToSendNat DEF KInv, KernelTypeOK, TapInv
<1>2. CASE FillB
  <2>1. ToSend(b_tap)' = ToSend(b_tap) - 1
    BY <1>2, OneSent, TapSends DEF FillB, MoreB, ToSend, KInv, KernelTypeOK
  <2>2. ToPass' = ToPass /\ ToDrain' = ToDrain /\ CoreWork' = CoreWork
    BY <1>2 DEF FillB, worker, ToPass, ToDrain, ToSend, CoreWork, Along, RowSteps, finished
  <2> QED
    BY <1>0, <2>1, <2>2 DEF Work
<1>3. CASE FillA
  <2>1. ToSend(A_taps)' = ToSend(A_taps) - 1
    BY <1>3, OneSent, TapSends DEF FillA, MoreA, ToSend, KInv, KernelTypeOK
  <2>2. Len(a_fifo)' = Len(a_fifo) + 1
    BY <1>3, TapSends DEF FillA, MoreA, KInv, KernelTypeOK
  <2>3. ToPass' = ToPass - 1
    BY <1>1, <2>1, <2>2 DEF ToPass
  <2>4. ToSend(b_tap)' = ToSend(b_tap) /\ ToDrain' = ToDrain /\ CoreWork' = CoreWork
    BY <1>3 DEF FillA, worker, ToDrain, ToSend, CoreWork, Along, RowSteps, finished
  <2> QED
    BY <1>0, <2>3, <2>4 DEF Work
<1>4. CASE Forward
  <2>1. ToSend(A_taps)' = ToSend(A_taps)
    BY <1>4 DEF Forward, ToSend
  <2>2. Len(a_fifo)' = Len(a_fifo) - 1
    BY <1>4 DEF Forward, KInv, KernelTypeOK
  <2>3. ToPass' = ToPass - 1
    BY <1>1, <2>1, <2>2 DEF ToPass
  <2>4. ToSend(b_tap)' = ToSend(b_tap) /\ ToDrain' = ToDrain /\ CoreWork' = CoreWork
    BY <1>4 DEF Forward, worker, ToDrain, ToSend, CoreWork, Along, RowSteps, finished
  <2> QED
    BY <1>0, <2>3, <2>4 DEF Work
<1>5. CASE Drain
  <2>1. /\ ToSend(b_tap)' = ToSend(b_tap) /\ ToPass' = ToPass
        /\ M_div_m' = M_div_m /\ Along' = Along /\ RowSteps' = RowSteps
    BY <1>5 DEF Drain, inputs, worker, ToPass, ToSend, Along, RowSteps
  <2>2. Len(c_out)' = Len(c_out) + 1 /\ Len(outC)' = Len(outC) - 1
    BY <1>5 DEF Drain, KInv, KernelTypeOK
  <2>3. finished' = finished
    BY <1>1, <2>2 DEF finished
  <2>4. CoreWork' = CoreWork
    BY <2>1, <2>3 DEF CoreWork
  <2>5. ToDrain' = ToDrain - 1
    BY <1>1, <2>1, <2>2 DEF ToDrain
  <2> QED
    BY <1>0, <2>1, <2>4, <2>5 DEF Work
<1>6. CASE core_fn
  <2>1. ToSend(b_tap)' = ToSend(b_tap) /\ ToPass' = ToPass /\ ToDrain' = ToDrain
    BY <1>6 DEF core_fn, AcquireC, AcquireInput, Matvec, ReleaseC, inputs, ToPass, ToDrain,
       ToSend
  <2> QED
    BY <1>0, <1>6, <2>1, CoreWorkDone DEF Work
<1> QED
  BY <1>2, <1>3, <1>4, <1>5, <1>6 DEF Device

------------------------------------------------------------------------------
(* The host. *)

USE HostAssumption

(* While the host is not waiting for the device, all of C is drained. *)
IdleInv ==
    /\ pc # "wait" => Drained
    /\ call = 0 => M_div_m = 0

(* What is known of the block between NextBlock and Copy. *)
BlockInv ==
    /\ pc \in {"run", "wait"} => mb > 0 /\ mb % m = 0 /\ mb \div m <= MaxRepeat
    /\ pc = "wait" => M_div_m = mb \div m

(* The blocks so far were whole tiles, and their rows are in place. *)
LoopInv ==
    /\ pc \in {"loop", "run", "wait", "returned"} =>
          M % m = 0 /\ start % m = 0 /\ \A r \in 1..start : out[r] = r
    /\ pc = "returned" => start = M

IInv == KInv /\ TypeOK /\ IdleInv /\ BlockInv /\ LoopInv

------------------------------------------------------------------------------
(* Multiples of m. *)

LEMMA Multiple == ASSUME NEW n \in Nat, n % m = 0
                  PROVE  n \div m \in Nat /\ n = (n \div m) * m
  OBVIOUS

LEMMA MultipleOf == ASSUME NEW q \in Nat PROVE (q * m) % m = 0 /\ (q * m) \div m = q
  OBVIOUS

LEMMA Difference ==
    ASSUME NEW a \in Nat, NEW b \in Nat, b <= a, a % m = 0, b % m = 0
    PROVE  (a - b) % m = 0
<1> DEFINE p == a \div m
           q == b \div m
<1>1. p \in Nat /\ q \in Nat /\ a = p * m /\ b = q * m
  BY Multiple
<1> HIDE DEF p, q
<1>2. q <= p
  BY <1>1
<1>3. a - b = (p - q) * m /\ p - q \in Nat
  BY <1>1, <1>2
<1> QED
  BY <1>3, MultipleOf

LEMMA Sum ==
    ASSUME NEW a \in Nat, NEW b \in Nat, a % m = 0, b % m = 0
    PROVE  (a + b) % m = 0
<1> DEFINE p == a \div m
           q == b \div m
<1>1. p \in Nat /\ q \in Nat /\ a = p * m /\ b = q * m
  BY Multiple
<1> HIDE DEF p, q
<1>2. a + b = (p + q) * m /\ p + q \in Nat
  BY <1>1
<1> QED
  BY <1>2, MultipleOf

LEMMA FewerTiles ==
    ASSUME NEW a \in Nat, NEW b \in Nat, b <= a, a % m = 0, b % m = 0
    PROVE  b \div m <= a \div m
  BY Multiple

LEMMA TileOfRow ==
    ASSUME NEW q \in Nat, NEW i \in 1..(q * m)
    PROVE  1 + (i - 1) \div m \in 1..q
<1> DEFINE d == (i - 1) \div m
<1>1. d \in Nat /\ i - 1 >= d * m
  OBVIOUS
<1> HIDE DEF d
<1>2. d < q
  <2> SUFFICES ASSUME d >= q PROVE FALSE
    BY <1>1
  <2>1. d * m >= q * m
    BY <1>1
  <2> QED
    BY <1>1, <2>1
<1> QED
  BY <1>1, <1>2 DEF d

------------------------------------------------------------------------------

LEMMA InitHolds == Init => IInv
<1> SUFFICES ASSUME Init PROVE IInv
  OBVIOUS
<1>1. KInv /\ KernelTypeOK
  BY KernelInitHolds, KernelIsCorrect DEF Init
<1>2. Drained
  BY DEF Init, KernelInit, Drained
<1> QED
  BY <1>1, <1>2 DEF Init, KernelInit, IInv, TypeOK, IdleInv, BlockInv, LoopInv

LEMMA CalledStep == IInv /\ Called => IInv'
<1> SUFFICES ASSUME IInv, Called PROVE IInv'
  OBVIOUS
<1>1. KInv' /\ KernelTypeOK'
  BY KernelStutter DEF Called, IInv, TypeOK, KInv
<1>2. IdleInv'
  BY DEF Called, kernel, IInv, IdleInv, Drained
<1>3. M' \in Nat /\ 0 % m = 0
  BY MultipleOf DEF Called
<1>4. pc' \in {"loop", "raised"} /\ (pc' = "loop" => M' % m = 0)
  BY DEF Called
<1>5. TypeOK'
  BY <1>1, <1>3, <1>4 DEF Called, IInv, TypeOK, Unset
<1>6. BlockInv'
  BY <1>4 DEF BlockInv
<1>7. LoopInv'
  <2>1. start' = 0 /\ start' % m = 0
    BY <1>3 DEF Called
  <2> QED
    BY <1>4, <2>1 DEF LoopInv
<1> QED
  BY <1>1, <1>2, <1>5, <1>6, <1>7 DEF IInv

LEMMA NextBlockStep == IInv /\ NextBlock => IInv'
<1> SUFFICES ASSUME IInv, NextBlock PROVE IInv'
  OBVIOUS
<1>1. /\ M \in Nat /\ start \in Nat /\ start < M /\ M % m = 0 /\ start % m = 0
  BY DEF NextBlock, IInv, TypeOK, LoopInv
<1>2. Block \in 1..MAX_M_BLOCK /\ start + Block <= M
  BY <1>1 DEF Block
<1>3. Block % m = 0 /\ Block \div m <= MaxRepeat
  <2>1. CASE MAX_M_BLOCK <= M - start
    BY <2>1, TilingAssumption DEF Block
  <2>2. CASE ~(MAX_M_BLOCK <= M - start)
    <3>1. Block = M - start /\ M - start \in Nat /\ M - start <= MAX_M_BLOCK
      BY <1>1, <2>2 DEF Block
    <3>2. (M - start) % m = 0
      <4>1. start <= M
        BY <1>1
      <4> QED
        BY <1>1, <4>1, Difference, Zenon
    <3>3. (M - start) \div m <= MAX_M_BLOCK \div m
      BY <3>1, <3>2, FewerTiles, TilingAssumption
    <3> QED
      BY <3>1, <3>2, <3>3, TilingAssumption
  <2> QED
    BY <2>1, <2>2
<1>4. KInv' /\ KernelTypeOK'
  BY KernelStutter DEF NextBlock, IInv, TypeOK, KInv
<1>5. TypeOK' /\ IdleInv'
  BY <1>1, <1>2, <1>4 DEF NextBlock, kernel, IInv, TypeOK, IdleInv, Drained
<1>6. BlockInv' /\ LoopInv'
  BY <1>1, <1>2, <1>3 DEF NextBlock, IInv, BlockInv, LoopInv
<1> QED
  BY <1>4, <1>5, <1>6 DEF IInv

LEMMA RunKernelStep == IInv /\ RunKernel => IInv'
<1> SUFFICES ASSUME IInv, RunKernel PROVE IInv'
  OBVIOUS
<1> DEFINE rows == mb \div m
<1>1. mb \in Nat \ {0} /\ mb % m = 0
  BY DEF RunKernel, IInv, TypeOK, BlockInv
<1>2. rows \in Nat \ {0}
  BY <1>1, Multiple
<1>3. Invoke(rows) /\ Drained /\ (call # 0 \/ rows # M_div_m)
  BY <1>2 DEF RunKernel, IInv, IdleInv
<1>4. KInv' /\ KernelTypeOK'
  <2> HIDE DEF rows
  <2>1. KInv'
    BY <1>2, <1>3, InvokeStep DEF IInv
  <2> QED
    BY <2>1 DEF KInv
<1>5. M_div_m' = rows /\ call' # 0
  BY <1>3 DEF Invoke, IInv, KInv, KernelTypeOK
<1> QED
  BY <1>4, <1>5 DEF RunKernel, IInv, TypeOK, IdleInv, BlockInv, LoopInv

LEMMA DrainedRows ==
    ASSUME IInv, pc = "wait", Drained
    PROVE  C_t = [i \in 1..mb |-> start + i]
<1>1. mb \in Nat /\ M_div_m \in Nat /\ mb = M_div_m * m
  <2>1. mb \in Nat /\ mb % m = 0 /\ M_div_m = mb \div m
    BY DEF IInv, TypeOK, BlockInv
  <2> QED
    BY <2>1, Multiple
<1>2. \A r \in 1..M_div_m : r \in 1..Len(c_out) /\ c_out[r] = Row(call, r)
  BY KernelIsCorrect DEF IInv, TilesAreProducts, Drained
<1>3. ASSUME NEW i \in 1..mb
      PROVE  1 + (i - 1) \div m \in 1..M_div_m
  BY <1>1, TileOfRow
<1> QED
  BY <1>2, <1>3 DEF C_t

LEMMA CopyStep == IInv /\ Copy => IInv'
<1> SUFFICES ASSUME IInv, Copy PROVE IInv'
  OBVIOUS
<1>1. /\ M \in Nat /\ start \in Nat /\ mb \in Nat /\ start + mb <= M
      /\ M % m = 0 /\ start % m = 0 /\ mb % m = 0
      /\ start' = start + mb /\ pc' = "loop"
  BY DEF Copy, IInv, TypeOK, LoopInv, BlockInv
<1>2. C_t = [i \in 1..mb |-> start + i]
  BY DrainedRows DEF Copy
<1>3. start' \in 0..M /\ start' % m = 0
  <2>1. (start + mb) % m = 0
    BY <1>1, Sum, Zenon
  <2> QED
    BY <1>1, <2>1
<1>4. \A r \in 1..start' : out'[r] = r
  <2> SUFFICES ASSUME NEW r \in 1..start' PROVE out'[r] = r
    OBVIOUS
  <2>1. CASE r \in 1..start
    BY <1>1, <2>1 DEF Copy, RowsBefore, IInv, LoopInv
  <2>2. CASE r \in (start + 1)..(start + mb)
    <3>1. r - start \in 1..mb /\ out'[r] = C_t[r - start]
      BY <1>1, <2>2 DEF Copy, RowsBefore
    <3> QED
      BY <1>1, <1>2, <3>1
  <2> QED
    BY <1>1, <2>1, <2>2
<1>5. out' \in [1..M -> Int]
  <2>1. ASSUME NEW i \in 1..mb PROVE C_t[i] \in Int
    BY <1>1, <1>2
  <2> QED
    BY <1>1, <2>1 DEF Copy, RowsBefore, IInv, TypeOK
<1>6. KInv' /\ KernelTypeOK'
  BY KernelStutter DEF Copy, IInv, TypeOK, KInv
<1> QED
  BY <1>1, <1>3, <1>4, <1>5, <1>6
     DEF Copy, kernel, IInv, TypeOK, IdleInv, Drained, BlockInv, LoopInv

(* The device touches nothing of the host's, nor the call it is in. *)
LEMMA DeviceStays ==
    Device => M_div_m' = M_div_m /\ call' = call /\ (Drained => Drained')
  BY DEF Device, core_fn, FillB, FillA, Forward, Drain, AcquireC, AcquireInput, Matvec,
         ReleaseC, Drained

LEMMA Inductive == IInv /\ [Next]_vars => IInv'
<1> SUFFICES ASSUME IInv, [Next]_vars PROVE IInv'
  OBVIOUS
<1>1. CASE Called
  BY <1>1, CalledStep
<1>2. CASE NextBlock
  BY <1>2, NextBlockStep
<1>3. CASE RunKernel
  BY <1>3, RunKernelStep
<1>4. CASE Copy
  BY <1>4, CopyStep
<1>5. CASE Return
  <2>1. KInv' /\ KernelTypeOK'
    BY <1>5, KernelStutter DEF Return, IInv, TypeOK, KInv
  <2> QED
    BY <1>5, <2>1 DEF Return, kernel, IInv, TypeOK, IdleInv, Drained, BlockInv, LoopInv
<1>6. CASE Device /\ UNCHANGED host
  <2>1. KInv' /\ KernelTypeOK'
    BY <1>6, DeviceStep DEF IInv, KInv
  <2> QED
    BY <1>6, <2>1, DeviceStays DEF host, IInv, TypeOK, IdleInv, BlockInv, LoopInv
<1>7. CASE UNCHANGED vars
  <2>1. KInv' /\ KernelTypeOK'
    BY <1>7, KernelStutter DEF vars, IInv, KInv
  <2> QED
    BY <1>7, <2>1 DEF vars, host, kernel, IInv, TypeOK, IdleInv, Drained, BlockInv, LoopInv
<1> QED
  BY <1>1, <1>2, <1>3, <1>4, <1>5, <1>6, <1>7 DEF Next, gemv

THEOREM Invariance == Spec => []IInv
  BY InitHolds, Inductive, PTL DEF Spec

------------------------------------------------------------------------------

(* No fifo is overrun, no buffer of C is lost or doubled, and no block     *)
(* leaves the matrix.                                                      *)
THEOREM TypeCorrect == Spec => []TypeOK
  BY Invariance, PTL DEF IInv

(* Every tile of C the host receives is the sum of its row's products, in  *)
(* column order and without anything else.                                 *)
THEOREM ProductsAreRight == Spec => []TilesAreProducts
<1>1. IInv => TilesAreProducts
  BY KernelIsCorrect DEF IInv
<1> QED
  BY <1>1, Invariance, PTL

(* A run of the kernel leaves nothing behind that the next one could take  *)
(* for its own.                                                            *)
THEOREM CallsAreIndependent == Spec => []CallEndsClean
<1>1. IInv => CallEndsClean
  BY KernelIsCorrect DEF IInv
<1> QED
  BY <1>1, Invariance, PTL

(* For every number of rows the device can run every block it is given. *)
THEOREM EveryBlockFits == Spec => []BlocksFit
<1>1. IInv => BlocksFit
  BY DEF IInv, BlockInv, BlocksFit
<1> QED
  BY <1>1, Invariance, PTL

(* What is returned is the whole product and nothing uninitialised. *)
THEOREM ResultIsProduct == Spec => []ReturnsProduct
<1>1. IInv => ReturnsProduct
  BY DEF IInv, TypeOK, LoopInv, ReturnsProduct
<1> QED
  BY <1>1, Invariance, PTL

(* npu_gemv.py:105: whatever the fifos hold and in whichever order the      *)
(* engines went, while the host waits some engine or the core can go on,    *)
(* and when all of C is drained the host can.                               *)
THEOREM NoDeadlock ==
    Spec => [](pc = "wait" => IF Drained THEN mb = M_div_m * m ELSE Ready)
<1>1. ASSUME IInv, pc = "wait"
      PROVE  IF Drained THEN mb = M_div_m * m ELSE Ready
  <2>1. mb \in Nat /\ mb > 0 /\ mb % m = 0 /\ M_div_m = mb \div m
    BY <1>1 DEF IInv, TypeOK, BlockInv
  <2>2. mb = M_div_m * m
    BY <2>1, Multiple
  <2>3. M_div_m # 0
    <3>1. 0 * m = 0
      OBVIOUS
    <3> QED
      BY <2>1, <2>2, <3>1
  <2>4. call # 0
    BY <1>1, <2>3 DEF IInv, IdleInv
  <2> QED
    BY <1>1, <2>2, <2>4, NeverStuck DEF IInv
<1> QED
  BY <1>1, Invariance, PTL

(* Every step of the device is one of a number that was settled when the   *)
(* kernel was invoked: no engine runs on, and with NoDeadlock every order   *)
(* of the steps drains all of C in the end.                                 *)
THEOREM CallsAreFinite ==
    Spec => [][Device => Work \in Nat /\ Work' \in Nat /\ Work' = Work - 1]_vars
<1>1. ASSUME IInv, IInv', Device
      PROVE  Work \in Nat /\ Work' \in Nat /\ Work' = Work - 1
  <2>1. (KInv => Work \in Nat)'
    BY WorkNat, PTL
  <2> QED
    BY <1>1, <2>1, WorkNat, WorkDone DEF IInv
<1> QED
  BY <1>1, Invariance, PTL
==============================================================================
