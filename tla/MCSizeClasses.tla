--------------------------- MODULE MCSizeClasses ---------------------------
(* ElfMalloc::new's size classes: start_from 8, 25 classes, 16-byte steps. *)
EXTENDS SizeClasses

\* Every request up to 1100 and every power of two from 2^11 to 2^20 with
\* its neighbours: all class boundaries (16..192 and 256..2^20) are hit.
MCRequests ==
  (0..1100) \cup UNION {{2^k - 1, 2^k, 2^k + 1} : k \in 11..20}
=============================================================================
