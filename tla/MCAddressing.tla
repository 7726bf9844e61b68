---------------------------- MODULE MCAddressing ----------------------------
(* The bounded inputs of the address computations.                         *)
EXTENDS Addressing

(* Waves with and without scratch memory, below and above the apertures.   *)
Waves == {[lanes |-> 2, base |-> 8, size |-> 12], [lanes |-> 3, base |-> 100, size |-> 12],
          [lanes |-> 2, base |-> 8, size |-> 0]}
ConvertCases ==
    {[tag |-> "convert", wave |-> w, lane |-> l, to |-> t, kind |-> k, address |-> a] :
        w \in Waves \cup {NoWave}, l \in -1..2, t \in Spaces, k \in Spaces,
        a \in 0..LastSegment}
    \cup
    {[tag |-> "convert", wave |-> w, lane |-> l, to |-> t, kind |-> k, address |-> a] :
        w \in Waves \cup {NoWave}, l \in -1..2, t \in Spaces, k \in {"global", "generic"},
        a \in (LastSegment + 1)..LastGlobal}

ScratchCases ==
    [tag : {"scratch"}, arch : {"gfx9", "gfx940", "gfx11"},
     tmpring : [waves : {0, 3, 4, 8}, wavesize : {0, 2}], engines : {4}, xccs : {1, 2},
     skew : {0, 1}]

(* The private null address is left out: a transfer from it does not end.  *)
TransfersSuspended ==
    {[tag |-> "transfer",
      x |-> [kind |-> k, address |-> a, size |-> n, wave |-> w, lane |-> l, stopped |-> g[1],
             frozen |-> g[2], write |-> g[3], suspended |-> TRUE, gone |-> FALSE,
             mapped |-> m, limit |-> 5, local_base |-> 4,
             moved |-> <<>>, status |-> "asked"]] :
        k \in Spaces, a \in {0, 1, 3, 4, 10, 11, 33, 35, 37, 64, 67}, n \in {0, 1, 5, 7},
        w \in {[lanes |-> 2, base |-> 8, size |-> 12], NoWave}, l \in -1..2,
        g \in {<<TRUE, FALSE, FALSE>>, <<FALSE, FALSE, FALSE>>, <<TRUE, TRUE, TRUE>>},
        m \in {10, 17, 64}}
TransferCases ==
    TransfersSuspended
    \cup {[c EXCEPT !.x.suspended = FALSE, !.x.gone = g] :
            c \in {d \in TransfersSuspended :
                    d.x.kind \in {"local", "generic"} /\ d.x.mapped = 10},
            g \in BOOLEAN}
TransfersAtNull ==
    {[c EXCEPT !.x.address = LastSegment] :
        c \in {d \in TransferCases : d.x.kind \in {"private_swizzled", "private_unswizzled"}}}

RingsOf(fill) ==
    {[tag |-> "ring", arch |-> a, ring |-> [size |-> s, read |-> r, write |-> r + n]] :
        a \in {"gfx9", "gfx940", "gfx12"}, s \in {2, 4, 6, 8}, r \in 0..12, n \in fill}
RingCases == {c \in RingsOf(0..7) : c.ring.write - c.ring.read < c.ring.size}
FullRingCases == {c \in RingsOf(0..8) : c.ring.write - c.ring.read <= c.ring.size}

AllCases == ConvertCases \cup ScratchCases \cup TransferCases \cup RingCases
=============================================================================
