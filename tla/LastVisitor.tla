------------------------------ MODULE LastVisitor ------------------------------
(***************************************************************************)
(* What the counters at saddles are for, in the growth of merge trees and  *)
(* in localized simplification, at one vertex: visitors come to it from    *)
(* some of its neighbours, each neighbour is accounted for once, and       *)
(* exactly one visitor, the one that accounts for the last of them, goes   *)
(* on from there and settles the vertex.                                   *)
(***************************************************************************)
CONSTANT Nobody

VARIABLES pending,  \* neighbours not accounted for
          claimant, \* the visitor that may go on
          settled   \* somebody went on

LVInit(neighbors) ==
    /\ pending = neighbors
    /\ claimant = Nobody
    /\ settled = FALSE

(* A visitor accounts for some neighbours; with the last one it claims the *)
(* vertex.                                                                 *)
Arrive ==
    /\ pending' \subseteq pending /\ pending' # pending
    /\ IF pending' = {} THEN claimant' # Nobody ELSE claimant' = claimant
    /\ settled' = settled

(* The claimant, nobody else, settles the vertex, once.                    *)
Settle ==
    /\ claimant # Nobody /\ claimant' = Nobody
    /\ ~settled /\ settled'
    /\ pending' = pending

LVNext == Arrive \/ Settle

Stay == UNCHANGED <<pending, claimant, settled>>
===============================================================================
