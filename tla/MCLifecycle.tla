---------------------------- MODULE MCLifecycle ----------------------------
(* Notes a and b, each of which cites the other; in one vault a third, c,  *)
(* has the basename of b.                                                  *)
EXTENDS Lifecycle

CONSTANTS a, b, c

N(status, maturity, count, stability, graduated) ==
  [status |-> status, maturity |-> maturity, count |-> count, stability |-> stability,
   anchor |-> 0, updated |-> 0, conf |-> 10, graduated |-> graduated]

Seed      == N("active", "seed", 0, 0, FALSE)
Contested == N("disputed", "developing", 2, 5054, FALSE)
Stable    == N("active", "stable", 3, 38410, FALSE)
Canon     == N("active", "stable", 3, 38410, TRUE)
Legacy    == N("active", "stable", 3, 0, FALSE)
Shelved   == N("paused", "seed", 0, 1400, FALSE)

Vault(x, y, z) == [k \in Ids |-> CASE k = a -> x [] k = b -> y [] k = c -> z]

MCOrder  == <<a, b, c>>
MCBase   == [k \in Ids |-> IF k = a THEN "x" ELSE "y"]
MCCites  == {<<a, "y">>, <<b, "x">>}
MCStarts == {Vault(Seed, Contested, None), Vault(Stable, Shelved, None), Vault(Canon, Seed, None),
             Vault(Contested, Legacy, None), Vault(Stable, Seed, Seed)}

Ask(reinforce, falsify, dispute, graduate) ==
  [reinforce |-> reinforce, falsify |-> falsify, dispute |-> dispute, graduate |-> graduate,
   reasons |-> TRUE, dry |-> FALSE]

MCRequests ==
  {Ask({}, {}, {}, {}), Ask({a}, {}, {}, {}), Ask({a, b}, {}, {}, {a, b}), Ask({}, {b}, {a}, {}),
   Ask({}, {}, {}, {b}), [Ask({b}, {a}, {}, {}) EXCEPT !.reasons = FALSE],
   [Ask({a}, {}, {b}, {a}) EXCEPT !.dry = TRUE]}

Scenario(runs, edits, faults) == [runs |-> runs, edits |-> edits, faults |-> faults]

MCScenarios == {Scenario(2, 1, 0), Scenario(1, 1, 1), Scenario(2, 0, 1), Scenario(1, 2, 0)}
=============================================================================
