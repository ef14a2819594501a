------------------------------ MODULE MCPacking ------------------------------
(* Files of up to five chunks over chunks of sizes 1, 2, 1 and 2, one of    *)
(* which a prior pack holds.                                                *)
EXTENDS Packing

CONSTANTS k1, k2, k3, k4

MCChunks == {k1, k2, k3, k4}
MCSize == [x \in MCChunks |-> IF x \in {k2, k4} THEN 2 ELSE 1]
MCInputs == UNION {[1..n -> MCChunks] : n \in 1..5}
MCIndex == [x \in {k3} |-> [pack |-> <<<<k1, 1>>, <<k3, 1>>>>, at |-> 1]]
=============================================================================
