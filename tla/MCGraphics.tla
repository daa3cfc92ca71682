----------------------------- MODULE MCGraphics -----------------------------
(* Five lines displayed and two blank ones, of eight ticks each.            *)
EXTENDS Graphics

MCCycleCounts == {1, 2}
MCStatusWrites ==
  {[mode |-> "MODE_0", coincidence_flag |-> FALSE,
    enables |-> [coincidence_interrupt |-> b, oam_interrupt |-> ~b,
                 v_blank_interrupt |-> b, h_blank_interrupt |-> ~b]] : b \in BOOLEAN}
MCCompareWrites == {0, 3}
=============================================================================
