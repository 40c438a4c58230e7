---------------------------- MODULE MCRawStorage ----------------------------
(* Two repositories, two paths, two digests, and a few requests and workers. *)
EXTENDS RawStorage, TLC

CONSTANTS r1, r2, p1, p2, d1, d2, u1, u2, m1, c1, c2

MCRepositories == {r1, r2}
OneRepository == {r1}
MCPaths == {p1, p2}
OnePath == {p1}
Alone == [p \in OnePath |-> r1]
InOne == [p \in MCPaths |-> r1]
Apart == [p \in MCPaths |-> IF p = p1 THEN r1 ELSE r2]
OneDigest == {d1}
TwoDigests == {d1, d2}
OnePublisher == {u1}
TwoPublishers == {u1, u2}
OneCollector == {c1}
TwoCollectors == {c1, c2}
OnePromoter == {m1}
NoPromoter == {}

Budget(puts, deletes, restores, promotions, failures) ==
    [put |-> puts, delete |-> deletes, restore |-> restores, promote |-> promotions,
     fail |-> failures]
PublishBudget == {Budget(3, 1, 1, 1, 1)}
ReplaceBudgets == {Budget(3, 0, 0, 0, 1), Budget(3, 1, 0, 0, 0), Budget(2, 1, 0, 0, 1)}
DeleteBudget == {Budget(2, 1, 0, 0, 0)}
RestoreBudget == {Budget(1, 1, 1, 0, 0)}
PromoteBudget == {Budget(2, 0, 0, 1, 0)}

Symmetry == Permutations(TwoPublishers) \union Permutations(TwoCollectors)
=============================================================================
