---------------------------- MODULE ReadContract ----------------------------
(***************************************************************************)
(* What the game may rely on when it asks the disc for data                *)
(* (runtime/dvd/dvd.h): a read is refused at once or accepted; an accepted *)
(* read shows BUSY until its bytes are in guest memory; its callback runs  *)
(* once, afterwards, on the game's thread.  DvdReads.tla implements it.    *)
(***************************************************************************)
CONSTANT Reads

VARIABLES state,   \* how far each read has come
          landed   \* reads whose bytes, or failure, the game can see

vars == <<state, landed>>

Init == state = [r \in Reads |-> "new"] /\ landed = {}

Move(r, from, to) == state[r] = from /\ state' = [state EXCEPT ![r] = to]

Accept(r) == Move(r, "new", "busy") /\ UNCHANGED landed
Refuse(r) == Move(r, "new", "refused") /\ UNCHANGED landed
Land(r) == Move(r, "busy", "finished") /\ landed' = landed \cup {r}
Report(r) == Move(r, "finished", "reported") /\ UNCHANGED landed

Next == \E r \in Reads : Accept(r) \/ Refuse(r) \/ Land(r) \/ Report(r)

Spec == Init /\ [][Next]_vars
=============================================================================
