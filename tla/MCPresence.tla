----------------------------- MODULE MCPresence -----------------------------
EXTENDS Presence, TLC

Rules(all, mode, quiet, dwell, zone, window) ==
    [fusion_all |-> all, mode |-> mode, quiet |-> quiet, dwell |-> dwell, still |-> 1,
     window |-> window, span |-> 0, zone |-> zone]

\* Two radars: either fusion, with the rules in force or not.
FusionSettings ==
    { Rules(FALSE, "observe", 1, 1, 0, 0), Rules(FALSE, "enforce", 1, 1, 0, 0), Rules(TRUE, "enforce", 1, 1, 0, 0) }

Both == Permutations(Radars)
=============================================================================
