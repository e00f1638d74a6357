----------------------------- MODULE MCSettings -----------------------------
(* Small values for the cards of Settings: of the cards that can be          *)
(* inconsistent, one value that is and one that is not.                      *)
EXTENDS Settings

MCTier(temp, warning, shutdown) == [temp |-> temp, warning |-> warning, shutdown |-> shutdown]
MCOff == MCTier(0, 1, 1)

MCValues ==
    [ presence_filter |-> {[warning |-> 2, shutdown |-> 4], [warning |-> 4, shutdown |-> 2]},
      cooking_temp |-> {1, 6}, cookware |-> {"heavy"},
      tiers |-> {<<MCTier(5, 1, 2), MCOff>>, <<MCTier(5, 1, 2), MCTier(4, 1, 2)>>},
      attendance |-> {[pause |-> 50, all |-> TRUE]}, params |-> {[gap |-> 2, trend |-> FALSE]},
      radar_rules |-> {"enforce"} ]
MCTau(c) == IF c = "heavy" THEN 4 ELSE 2

MCNormal ==
    [ warning |-> 3, shutdown |-> 5, on |-> 3, off |-> 2, pause |-> 0, tiers |-> <<MCOff, MCOff>>,
      cookware |-> "mixed", tau |-> 2 ]
MCTest == [MCNormal EXCEPT !.warning = 1, !.shutdown = 2]
=============================================================================
