----------------------------- MODULE GemvKernel -----------------------------
(***************************************************************************)
(* One compute core's matrix-vector product, _gemv_bf16 in                 *)
(* project-c/m6-llm/npu_gemv.py: the data flow the IRON program builds.    *)
(* The two fill DMAs, the mem tile that forwards A, the worker and the     *)
(* drain DMA run on their own and meet only in the object fifos, whose     *)
(* elements stay in place until they are released.  Gemv, the host side,   *)
(* makes the calls.                                                        *)
(*                                                                         *)
(* A tile of A is named by its call, row and column, a tile of b by its    *)
(* call, the repetition it is sent in and its column; a buffer of C holds  *)
(* the products accumulated into it, in their order (f32 sums depend on    *)
(* it).                                                                    *)
(***************************************************************************)
EXTENDS Naturals, Sequences

CONSTANTS
    K_div_k,                \* tiles in a row of A
    Depth                   \* elements an ObjectFifo holds

ASSUME KernelAssumption == K_div_k \in Nat \ {0} /\ Depth \in Nat \ {0}

VARIABLES
    call, M_div_m,          \* the invocation that runs, its rows of tiles
    b_tap, A_taps,          \* next tile each of the fill DMAs sends
    B_fifo, a_fifo, coreA,  \* elements in flight, the acquired one included
    outC, spare,            \* buffers of C: released to the drain, free
    elem_out,               \* the buffer the worker holds, <<>> without one
    at, col,                \* where core_fn is, products done of this row
    c_out                   \* the tiles of C drained in this call

inputs == <<B_fifo, a_fifo, coreA>>
worker == <<elem_out, at, col>>
kernel == <<call, M_div_m, b_tap, A_taps, inputs, outC, spare, worker, c_out>>

Tile(c, r, k) == [call |-> c, row |-> r, col |-> k]

(* Row by row, and along each row: the order of group_tiler on A, and of   *)
(* simple_tiler with pattern_repeat on b.                                  *)
After(t) == IF t.col < K_div_k THEN [t EXCEPT !.col = @ + 1]
                               ELSE [t EXCEPT !.row = @ + 1, !.col = 1]

(* No program is on the device yet. *)
KernelInit ==
    /\ call = 0 /\ M_div_m = 0
    /\ b_tap = Tile(0, 1, 1) /\ A_taps = Tile(0, 1, 1)
    /\ B_fifo = <<>> /\ a_fifo = <<>> /\ coreA = <<>>
    /\ outC = <<>> /\ spare = <<>> /\ c_out = <<>>
    /\ elem_out = <<>> /\ at = "acquireC" /\ col = 0

(* What memory holds before anything has been written to it. *)
Leftover == <<<<Tile(0, 0, 0), Tile(0, 0, 0)>>>>

(* The program of a shape is put on the device and its worker started. *)
Load ==
    /\ B_fifo' = <<>> /\ a_fifo' = <<>> /\ coreA' = <<>>
    /\ outC' = <<>> /\ spare' = [i \in 1..Depth |-> Leftover]
    /\ elem_out' = <<>> /\ at' = "acquireC" /\ col' = 0

(* A call: the DMAs are set up anew.  A worker never returns, so a program *)
(* that is on the device already goes on with its fifos as they are.       *)
Invoke(rows) ==
    /\ call' = call + 1 /\ M_div_m' = rows
    /\ b_tap' = Tile(call + 1, 1, 1) /\ A_taps' = Tile(call + 1, 1, 1)
    /\ c_out' = <<>>
    /\ \/ Load
       \/ rows = M_div_m /\ UNCHANGED <<inputs, outC, spare, worker>>

------------------------------------------------------------------------------
(* The DMA engines.  A is sent row by row, b once per row of tiles.        *)

(* Slips: b is sent once too often; the fill of A waits for that of b.     *)
MoreBOnceMore == b_tap.row <= M_div_m + 1
MoreAAfterB == b_tap.row > M_div_m /\ A_taps.row <= M_div_m

MoreB == b_tap.row <= M_div_m
MoreA == A_taps.row <= M_div_m

FillB ==
    /\ MoreB /\ Len(B_fifo) < Depth
    /\ B_fifo' = Append(B_fifo, b_tap)
    /\ b_tap' = After(b_tap)
    /\ UNCHANGED <<call, M_div_m, A_taps, a_fifo, coreA, outC, spare, worker, c_out>>

FillA ==
    /\ MoreA /\ Len(a_fifo) < Depth
    /\ a_fifo' = Append(a_fifo, A_taps)
    /\ A_taps' = After(A_taps)
    /\ UNCHANGED <<call, M_div_m, b_tap, B_fifo, coreA, outC, spare, worker, c_out>>

(* The mem tile passes the oldest tile of A on to the core. *)
Forward ==
    /\ a_fifo # <<>> /\ Len(coreA) < Depth
    /\ coreA' = Append(coreA, Head(a_fifo))
    /\ a_fifo' = Tail(a_fifo)
    /\ UNCHANGED <<call, M_div_m, b_tap, A_taps, B_fifo, outC, spare, worker, c_out>>

(* A slip: the drained buffer is not given back. *)
KeepBuffer == UNCHANGED spare
GiveBack == spare' = Append(spare, Head(outC))

Drain ==
    /\ outC # <<>> /\ Len(c_out) < M_div_m
    /\ c_out' = Append(c_out, Head(outC))
    /\ outC' = Tail(outC)
    /\ GiveBack
    /\ UNCHANGED <<call, M_div_m, b_tap, A_taps, inputs, worker>>

------------------------------------------------------------------------------
(* core_fn. *)

(* A slip: the buffer is not cleared. *)
LeaveAsIs(buffer) == buffer
zero(buffer) == <<>>

AcquireC ==
    /\ at = "acquireC" /\ spare # <<>>
    /\ elem_out' = zero(Head(spare))
    /\ spare' = Tail(spare)
    /\ at' = "acquireA"
    /\ UNCHANGED <<call, M_div_m, b_tap, A_taps, inputs, outC, col, c_out>>

AcquireInput ==
    /\ \/ at = "acquireA" /\ coreA # <<>> /\ at' = "acquireB"
       \/ at = "acquireB" /\ B_fifo # <<>> /\ at' = "matvec"
    /\ UNCHANGED <<call, M_div_m, b_tap, A_taps, inputs, outC, spare, elem_out, col, c_out>>

(* The product is accumulated and both inputs are released. *)
Matvec ==
    /\ at = "matvec"
    /\ elem_out' = Append(elem_out, <<Head(coreA), Head(B_fifo)>>)
    /\ coreA' = Tail(coreA) /\ B_fifo' = Tail(B_fifo)
    /\ col' = col + 1
    /\ at' = IF col + 1 < K_div_k THEN "acquireA" ELSE "releaseC"
    /\ UNCHANGED <<call, M_div_m, b_tap, A_taps, a_fifo, outC, spare, c_out>>

ReleaseC ==
    /\ at = "releaseC"
    /\ outC' = Append(outC, elem_out)
    /\ elem_out' = <<>>
    /\ col' = 0
    /\ at' = "acquireC"
    /\ UNCHANGED <<call, M_div_m, b_tap, A_taps, inputs, spare, c_out>>

core_fn == AcquireC \/ AcquireInput \/ Matvec \/ ReleaseC

Device == FillB \/ FillA \/ Forward \/ Drain \/ core_fn

(* The drain is awaited: all rows of C are with the host. *)
Drained == Len(c_out) = M_div_m

------------------------------------------------------------------------------
(* Properties. *)

Tiles == [call : {call}, row : 1..M_div_m, col : 1..K_div_k]
Cursors == [call : {call}, row : 1..(M_div_m + 1), col : 1..K_div_k]
AnyTile == [call : Nat, row : Nat, col : Nat]
Buffers == Seq(AnyTile \X AnyTile)

(* The type invariant.  No fifo holds more than Depth elements, and the    *)
(* Depth buffers of C are neither lost nor doubled, whoever has them.      *)
KernelTypeOK ==
    /\ call \in Nat /\ M_div_m \in Nat
    /\ b_tap \in Cursors /\ A_taps \in Cursors
    /\ B_fifo \in Seq(Tiles) /\ Len(B_fifo) <= Depth
    /\ a_fifo \in Seq(Tiles) /\ Len(a_fifo) <= Depth
    /\ coreA \in Seq(Tiles) /\ Len(coreA) <= Depth
    /\ outC \in Seq(Buffers) /\ spare \in Seq(Buffers)
    /\ elem_out \in Buffers
    /\ at \in {"acquireC", "acquireA", "acquireB", "matvec", "releaseC"}
    /\ col \in 0..K_div_k
    /\ c_out \in Seq(Buffers) /\ Len(c_out) <= M_div_m
    /\ Len(outC) + Len(spare) + (IF at = "acquireC" THEN 0 ELSE 1)
           = IF call = 0 THEN 0 ELSE Depth

Row(c, r) == [k \in 1..K_div_k |-> <<Tile(c, r, k), Tile(c, r, k)>>]

(* npu_gemv.py:3, "C[M] = A[M,K] @ b[K]": every tile of C that reaches the *)
(* host is the sum of the products of its own row with the tiles of b that *)
(* belong to them, each once, in column order, and of nothing else:        *)
(* neither of what the reused buffer held nor of another call's inputs.    *)
TilesAreProducts == \A r \in 1..Len(c_out) : c_out[r] = Row(call, r)

(* A call ends, for the host, when its C has been drained.  By then all it *)
(* sent has been used: no tile of its A and b, and no buffer of its C, is  *)
(* left for the next call to meet, although only the drain is awaited.     *)
CallEndsClean ==
    Drained =>
        /\ b_tap.row > M_div_m /\ A_taps.row > M_div_m
        /\ B_fifo = <<>> /\ a_fifo = <<>> /\ coreA = <<>> /\ outC = <<>>
        /\ at \in {"acquireC", "acquireA"} /\ elem_out = <<>>
==============================================================================
