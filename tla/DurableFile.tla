----------------------------- MODULE DurableFile -----------------------------
(***************************************************************************)
(* What a store promises whose caller awaits every save: the content on    *)
(* disk changes as a whole, only ever to something newer, and once a save  *)
(* was acknowledged nothing older is found again.  Contents are named by   *)
(* the number of the save that produced them; 0 is the empty store.        *)
(* The promise ends when the disk loses something.                         *)
(***************************************************************************)
EXTENDS Naturals

VARIABLES content,  \* what a reader finds
          promised, \* the save that was acknowledged last
          intact    \* the disk has lost nothing

Init == content = 0 /\ promised = 0 /\ intact = TRUE

Replace == intact /\ intact' /\ content' > content /\ UNCHANGED promised

Acknowledge == intact /\ intact' /\ promised' = content /\ UNCHANGED content

Loss == ~intact'

Spec == Init /\ [][Replace \/ Acknowledge \/ Loss]_<<content, promised, intact>>
=============================================================================
