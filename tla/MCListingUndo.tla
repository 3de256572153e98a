---------------------------- MODULE MCListingUndo ----------------------------
(* The listings of the tabs and the undo journal: the two share no         *)
(* variable, a behaviour is one of the part in play, the other rests in    *)
(* its first state.                                                        *)
EXTENDS MCListing, MCFileUndo

VARIABLE part  \* the part in play

\* The part not in play stays as it is.
InPlay(p) ==
  /\ part = p /\ part' = p
  /\ p # "listing" => UNCHANGED vars
  /\ p # "undo" => UNCHANGED undoVars

MCInit ==
  /\ part \in {"listing", "undo"}
  /\ Init /\ UndoInit
  /\ part # "undo" => fs = Start1

MCNext ==
  \/ InPlay("listing") /\ Next
  \/ InPlay("undo") /\ UndoNext

MCSpec == MCInit /\ [][MCNext]_<<part, vars, undoVars>>
==============================================================================
