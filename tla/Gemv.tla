-------------------------------- MODULE Gemv --------------------------------
(***************************************************************************)
(* gemv() of project-c/m6-llm/npu_gemv.py on top of GemvKernel: the host   *)
(* cuts the rows of W into blocks, runs the compiled kernel on each and    *)
(* copies what was drained into the result.  Blocks of one length share a  *)
(* program, and one call of gemv() follows another with the device as it   *)
(* was left.                                                               *)
(*                                                                         *)
(* A row of W stands for itself and for its product with x.                *)
(***************************************************************************)
EXTENDS GemvKernel, Integers

CONSTANTS
    m,              \* rows of a tile
    MAX_M_BLOCK,    \* rows of a block, at most
    MaxRepeat,      \* the wrap limit of the DMA that repeats b: 64
    Shapes,         \* bound: the numbers of rows W may have
    MaxCalls        \* bound: calls of gemv()

ASSUME HostAssumption ==
    /\ m \in Nat \ {0} /\ MAX_M_BLOCK \in Nat \ {0} /\ MaxRepeat \in Nat
    /\ Shapes \subseteq Nat /\ MaxCalls \in Nat

(* 2048, 32 and 64 satisfy it. *)
ASSUME TilingAssumption ==
    MAX_M_BLOCK % m = 0 /\ MAX_M_BLOCK \div m <= MaxRepeat

VARIABLES
    calls,          \* calls of gemv() so far
    M,              \* rows of W
    start, mb,      \* first row, counted from 0, and length of the block
    out,            \* the result, row by row
    pc

host == <<calls, M, start, mb, out, pc>>
vars == <<kernel, host>>

Unset == -1         \* np.empty
Zero == 0           \* iron.zeros

Init ==
    /\ KernelInit
    /\ calls = 0 /\ M = 0 /\ start = 0 /\ mb = 0 /\ out = <<>>
    /\ pc = "idle"

(* The two assertions: K or x may not fit their tile, or the rows may not. *)
Called ==
    /\ pc \in {"idle", "returned", "raised"} /\ calls < MaxCalls
    /\ calls' = calls + 1
    /\ M' \in Shapes
    /\ start' = 0 /\ mb' = 0
    /\ out' = [r \in 1..M' |-> Unset]
    /\ pc' \in IF M' % m = 0 THEN {"loop", "raised"} ELSE {"raised"}
    /\ UNCHANGED kernel

(* A slip: a row short. *)
BlockOneShort == IF MAX_M_BLOCK <= M - start THEN MAX_M_BLOCK - 1 ELSE M - start

Block == IF MAX_M_BLOCK <= M - start THEN MAX_M_BLOCK ELSE M - start

NextBlock ==
    /\ pc = "loop" /\ start < M
    /\ mb' = Block
    /\ pc' = "run"
    /\ UNCHANGED <<kernel, calls, M, start, out>>

(* b cannot be repeated for more tiles than MaxRepeat: such a block gets   *)
(* no further.                                                             *)
RunKernel ==
    /\ pc = "run" /\ mb \div m <= MaxRepeat
    /\ Invoke(mb \div m)
    /\ pc' = "wait"
    /\ UNCHANGED <<calls, M, start, mb, out>>

(* The rows of C as the drain leaves them: a tile that is not the product  *)
(* of its rows makes them worthless.                                       *)
C_t == [i \in 1..mb |->
          LET r == 1 + (i - 1) \div m
          IN IF r \in 1..Len(c_out) /\ c_out[r] = Row(call, r) THEN start + i
             ELSE Zero]

(* A slip: every block is copied to the front. *)
NoRows == 0
RowsBefore == start

(* Rows that belong to no tile would keep the drain waiting. *)
Copy ==
    /\ pc = "wait" /\ Drained /\ mb = M_div_m * m
    /\ out' = [r \in 1..M |-> IF r - RowsBefore \in 1..mb
                              THEN C_t[r - RowsBefore] ELSE out[r]]
    /\ start' = start + mb
    /\ pc' = "loop"
    /\ UNCHANGED <<kernel, calls, M, mb>>

Return ==
    /\ pc = "loop" /\ start >= M
    /\ pc' = "returned"
    /\ UNCHANGED <<kernel, calls, M, start, mb, out>>

gemv == NextBlock \/ RunKernel \/ Copy \/ Return

Next == Called \/ gemv \/ (Device /\ UNCHANGED host)

(* The host runs, and every engine and the core go on while they can. *)
Fairness ==
    /\ WF_vars(gemv)
    /\ WF_vars(FillB /\ UNCHANGED host) /\ WF_vars(FillA /\ UNCHANGED host)
    /\ WF_vars(Forward /\ UNCHANGED host) /\ WF_vars(Drain /\ UNCHANGED host)
    /\ WF_vars(core_fn /\ UNCHANGED host)

Spec == Init /\ [][Next]_vars /\ Fairness

------------------------------------------------------------------------------
(* Properties; TilesAreProducts and CallEndsClean of GemvKernel are        *)
(* checked along with them.                                                *)

(* The type invariant; the block never leaves the matrix. *)
TypeOK ==
    /\ KernelTypeOK
    /\ calls \in 0..MaxCalls /\ M \in Nat
    /\ start \in 0..M /\ mb \in 0..MAX_M_BLOCK
    /\ out \in [1..M -> Int]
    /\ pc \in {"idle", "loop", "run", "wait", "returned", "raised"}
    /\ pc \in {"run", "wait"} => start + mb <= M

(* npu_gemv.py:116-118: no block asks for more repetitions of b than the   *)
(* DMA has, and none ends inside a tile, whatever M is, so that every run  *)
(* of the kernel compiles and ends.                                        *)
BlocksFit == pc = "run" => mb % m = 0 /\ mb \div m <= MaxRepeat

(* npu_gemv.py:123: the result is the product, every row at its place; no  *)
(* element of np.empty or iron.zeros is returned, and none of an earlier   *)
(* block or call.                                                          *)
ReturnsProduct == pc = "returned" => out = [r \in 1..M |-> r]

(* Every accepted call returns, however the engines take turns: the fills  *)
(* are issued one after the other without waiting, and each needs the      *)
(* other's tiles to be consumed.                                           *)
CallReturns == pc = "loop" ~> pc = "returned"
==============================================================================
