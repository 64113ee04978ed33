------------------------------ MODULE Mobility -------------------------------
(***************************************************************************)
(* What the eNBs and the EPC promise of a UE's mobility, whatever messages    *)
(* they exchange for it: handovers are make-before-break.                    *)
(*                                                                         *)
(* One cell at a time is the anchor, which takes itself for the serving one; *)
(* there is none between the command that sends the UE away and its arrival. *)
(* The path along which the core sends packets lags behind, and the cell it   *)
(* still leads to stays.                                                     *)
(***************************************************************************)
EXTENDS Naturals

CONSTANTS Cells, Home   \* the cells; the one the UE is attached at

VARIABLES
  anchor,    \* the cell that takes itself for the serving one, or 0
  prepared,  \* the cells that have made room for the UE
  leaving,   \* the cells that have sent the UE away and forward its packets
  path       \* the cell the core sends the UE's packets to

mobility == <<anchor, prepared, leaving, path>>

Init == anchor = Home /\ prepared = {} /\ leaving = {} /\ path = Home

\* Another cell makes room while the anchor goes on serving the UE.
Prepare(c) ==
  /\ anchor \notin {0, c} /\ c \notin leaving
  /\ prepared' = prepared \union {c}
  /\ UNCHANGED <<anchor, leaving, path>>

\* The anchor sends the UE to a cell that has made room, once it is itself the
\* end of the path.
Command ==
  /\ anchor # 0 /\ prepared # {} /\ path = anchor
  /\ anchor' = 0 /\ leaving' = leaving \union {anchor}
  /\ UNCHANGED <<prepared, path>>

\* The UE has arrived.
TakeOver(c) ==
  /\ anchor = 0 /\ c \in prepared
  /\ anchor' = c /\ prepared' = prepared \ {c}
  /\ UNCHANGED <<leaving, path>>

SwitchPath ==
  /\ anchor # 0 /\ path \in leaving /\ path' = anchor
  /\ UNCHANGED <<anchor, prepared, leaving>>

\* A cell forgets the UE when no packet is sent its way any more.
Release(c) ==
  /\ c \in leaving /\ path # c /\ leaving' = leaving \ {c}
  /\ UNCHANGED <<anchor, prepared, path>>

Next == \/ \E c \in Cells : Prepare(c) \/ TakeOver(c) \/ Release(c)
        \/ Command \/ SwitchPath

Spec == Init /\ [][Next]_mobility
=============================================================================
