----------------------------- MODULE MCArcCache -----------------------------
EXTENDS ArcCache, TLC
CONSTANTS p1, p2, p3, z1

MCBlock == {p1, p2, p3, z1}
MCPacked == {z1}
MCDataSize == [b \in MCBlock |-> IF b = p1 THEN 2 ELSE 1]
MCSymmetry == Permutations({p2, p3})
=============================================================================
