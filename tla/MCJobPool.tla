----------------------------- MODULE MCJobPool -----------------------------
(* JobPool on small sets: two workers, the game's and the render thread.   *)
EXTENDS JobPool

CONSTANTS w1, w2, guest, render, j1, j2, j3

MCWorkers == {w1, w2}
MCClients == {guest, render}
MCJobs == {j1, j2, j3}
=============================================================================
