----------------------------- MODULE Allocator -----------------------------
(***************************************************************************)
(* What a heap allocator promises its callers, independent of how it keeps *)
(* its free list: a block it hands out lies inside the arena and overlaps  *)
(* no block another caller still holds, and a free gives back the caller's *)
(* block.  Each caller is a slot holding at most one block; a slot's p is  *)
(* 0 (NULL) while it holds none.  KHeap is checked against this            *)
(* specification through a refinement mapping.                            *)
(***************************************************************************)
EXTENDS Naturals

CONSTANTS
  Slots,   \* the callers
  Lo,      \* first address of the arena
  Hi,      \* first address past the arena
  Sizes    \* the request sizes callers use

VARIABLE blocks    \* slot -> [p |-> user pointer or 0, n |-> size]

None == [p |-> 0, n |-> 0]

Overlap(b, c) == b.p < c.p + c.n /\ c.p < b.p + b.n

Held(s) == blocks[s].p # 0

(* A block b may be handed to slot s. *)
Fits(s, b) ==
  /\ Lo <= b.p /\ b.p + b.n <= Hi
  /\ \A t \in Slots \ {s} : Held(t) => ~Overlap(b, blocks[t])

Init == blocks = [s \in Slots |-> None]

Malloc(s, p, n) ==
  /\ ~Held(s)
  /\ Fits(s, [p |-> p, n |-> n])
  /\ blocks' = [blocks EXCEPT ![s] = [p |-> p, n |-> n]]

Free(s) ==
  /\ Held(s)
  /\ blocks' = [blocks EXCEPT ![s] = None]

Next ==
  \E s \in Slots :
    \/ \E p \in Lo..Hi, n \in Sizes : Malloc(s, p, n)
    \/ Free(s)

Spec == Init /\ [][Next]_blocks

=============================================================================
