------------------------------- MODULE Malloc -------------------------------
(***************************************************************************)
(* What an allocator family promises its clients (spec §6): alloc hands    *)
(* out a block nobody holds with room for the request, free takes a held   *)
(* block back, realloc either keeps the block when it already has room or  *)
(* moves the client to another free block with room.  Caches, page         *)
(* sources, handles and the reclamation worker are invisible here: every   *)
(* step of theirs that clients cannot see is a stuttering step.           *)
(***************************************************************************)
EXTENDS Integers

CONSTANTS
  Blocks,   \* the blocks the family can hand out
  Caps,     \* the capacities a block can be handed out with
  Sizes     \* request sizes

VARIABLE held   \* blocks clients hold: [blk, cap, req]

Grant(b, c, n) == [blk |-> b, cap |-> c, req |-> n]
HeldBlocks == {x.blk : x \in held}

\* alloc(n) / realloc(null, n): a block no client holds, with room for n.
Alloc(b, c, n) ==
  /\ b \notin HeldBlocks /\ c >= n
  /\ held' = held \cup {Grant(b, c, n)}

\* free(p) / realloc(p, 0).
Free(x) == x \in held /\ held' = held \ {x}

\* realloc(p, n) that returns p: the block already has room for n.
Resize(x, n) ==
  /\ x \in held /\ x.cap >= n
  /\ held' = (held \ {x}) \cup {[x EXCEPT !.req = n]}

\* realloc(p, n) that returns another block: in one step the client holds
\* the new block and no longer the old one.
Move(x, b, c, n) ==
  /\ x \in held /\ b \notin HeldBlocks /\ c >= n
  /\ held' = (held \ {x}) \cup {Grant(b, c, n)}

Init == held = {}

Granted(x) == x.blk \in Blocks /\ x.cap \in Caps /\ x.req \in Sizes

\* The witnesses of Alloc, Resize and Move are taken from held': the same
\* as quantifying over Blocks, Caps and Sizes, since each of these actions
\* puts its grant into held'.
Next ==
  \/ \E y \in held' : Granted(y) /\ Alloc(y.blk, y.cap, y.req)
  \/ \E x \in held : Free(x)
  \/ \E x \in held, y \in held' : Granted(y) /\ y.blk = x.blk /\ Resize(x, y.req)
  \/ \E x \in held, y \in held' : Granted(y) /\ Move(x, y.blk, y.cap, y.req)

Spec == Init /\ [][Next]_held
=============================================================================
