------------------------------ MODULE MCTuning ------------------------------
(* Two commands about one radar, one automatic request.                     *)
EXTENDS Tuning

MCMenuconfig == [min |-> 0, max |-> 1, custom |-> FALSE, thr |-> Unknown]

\* The first needs thresholds that the node has read before; each is in order
\* after a read, the two together are not.
MCChanges ==
    { [f \in {"min", "custom"} |-> IF f = "min" THEN 1 ELSE TRUE],
      [f \in {"max", "thr"} |-> IF f = "max" THEN 0 ELSE "dashboard"] }
=============================================================================
