----------------------------- MODULE MCTraffic -----------------------------
(* Instances of Traffic for TLC. *)
EXTENDS Traffic

\* a covers both segments and is ahead, b shares one of them and is not
MCCovers == [l \in Loc |-> IF l = "a" THEN {"s1", "s2"} ELSE {"s2"}]
MCAhead == {"a"}

Says(id, loc, data, expires) ==
    [id |-> id, loc |-> loc, data |-> data, expires |-> expires, text |-> FALSE]

\* a report, which may be sent again to confirm it, another report in its
\* place that moves it, its cancellation, and a second message that shares a
\* segment with it and is the first to expire
MCFeed == {Says("m", "a", "slow", 1), Says("m", "b", "closed", 1),
           Says("m", "a", NoData, 1), Says("n", "b", "slow", 0)}
=============================================================================
