----------------------------- MODULE MCEgressFlow -----------------------------
(* EgressFlow for TLC, and the property about the stream as a whole, which   *)
(* needs FlattenSeq.                                                         *)
EXTENDS EgressFlow, SequencesExt

WriterSymmetry == Permutations(Writers)

(* The bounds of the instance: two writers race in the first incarnation of *)
(* the sandbox, and a checkpoint is taken of short flows of one writer.     *)
Envelope ==
  saves > 0 =>
    /\ ep.used <= 1 /\ Len(ep.segs) <= 1
    /\ \E w \in Writers : \A v \in Writers \ {w} : wr[v] = "idle"

(* What the host is asked about is what the peer will get: the mirrored     *)
(* prefix is the start of the stream, cut at the sniff limit, and an        *)
(* allowed flow begins with the bytes the host last saw (Write appends to   *)
(* queue and prefix in one critical section).                               *)
HostSawTheStream ==
  ep.state \in Connected =>
    LET stream == FlattenSeq(ep.segs)
        Start(n) == SubSeq(stream, 1, IF n < Len(stream) THEN n ELSE Len(stream))
    IN  /\ ep.req => ep.prefix = Start(SniffLimit)
        /\ ep.allowed => ep.seen = Start(Len(ep.seen))
=============================================================================
