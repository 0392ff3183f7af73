------------------------------- MODULE MC_Pack -------------------------------
(***************************************************************************)
(* The zero-run packing of getCompressedSamples checked on its own over    *)
(* every chunk shape with at most two metrics and two deltas, each delta   *)
(* 0, 1 or 2: the state is the chunk header and its delta matrix.          *)
(***************************************************************************)
EXTENDS FTDCPack

VARIABLE chunk

PackShapes ==
    UNION { [m : {m}, d : {d}, deltas : [1..(m * d) -> {0, 1, 2}],
             ref : {[vals |-> [i \in 1..m |-> 0]]}] : m \in 1..2, d \in 1..2 }

Init == chunk \in PackShapes

\* Every input is examined once; the state never changes.
Next == UNCHANGED chunk

Spec == Init /\ [][Next]_chunk

(* The reader gets back exactly the delta matrix the writer packed, and    *)
(* the packing is the one the specification fixes: a chunk of all-zero     *)
(* deltas is the single pair VarInt(0), VarInt(m * d - 1): one run spans  *)
(* the metric boundaries.                                                  *)
PackRoundTrip ==
    LET p == Pack(chunk)
    IN  /\ Unpack(p, chunk.m * chunk.d) = Ok(chunk.deltas)
        /\ (\A k \in DOMAIN chunk.deltas : chunk.deltas[k] = 0)
              => p = <<0, chunk.m * chunk.d - 1>>
=============================================================================
