------------------------------ MODULE FrameLease ------------------------------
(***************************************************************************)
(* What memory management promises to processes: every frame is either     *)
(* free or lent, frames are lent only when they are free, and what is      *)
(* given back is free again.  No frame is lost and none has two borrowers. *)
(***************************************************************************)
CONSTANT Frame
VARIABLES free, lent

leaseVars == <<free, lent>>

LeaseInit == free = Frame /\ lent = {}

Borrow(f) ==
    /\ f \in free
    /\ free' = free \ {f} /\ lent' = lent \cup {f}

GiveBack ==
    /\ lent' \in SUBSET lent
    /\ free' = free \cup (lent \ lent')

LeaseNext == GiveBack \/ \E f \in Frame : Borrow(f)

LeaseSpec == LeaseInit /\ [][LeaseNext]_leaseVars
=============================================================================
