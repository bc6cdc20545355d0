----------------------------- MODULE MCSysarena -----------------------------
(* A pool of 6 bytes and 5 descriptors: descriptors run out before bytes     *)
(* with small requests, bytes before descriptors with large ones, and the    *)
(* last bytes can be taken exactly, or the whole pool as one block.          *)
EXTENDS Sysarena

MCSizes == 1 .. 4 \cup {PoolSize}
=============================================================================
