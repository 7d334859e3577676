---------------------------- MODULE MCInterrupts ----------------------------
(* Interrupts under two loads: completions of every source, several of one, *)
(* with no DSP task; and a booted task that plays two audio buffers.        *)
EXTENDS Interrupts

Completing == [most |-> [s \in Sources |-> IF s = "aram" THEN 2 ELSE 1], sends |-> 0]
Playing    == [most |-> [s \in Sources |-> IF s = "aid" THEN 2 ELSE 0], sends |-> 2]
MCLoads    == {Completing, Playing}
=============================================================================
