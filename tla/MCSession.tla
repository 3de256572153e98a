------------------------------ MODULE MCSession ------------------------------
(* A folder that is watched and an archive in it.                          *)
EXTENDS Session

AllFolders == {"Root", "Zip"}
Parents == [f \in AllFolders |-> "Root"]
OnDisk == {"Root"}

\* Bound: a watcher that has failed or ended counts as an input.
FailuresCount ==
  inputs + Cardinality({w \in watchers : w.state # "running"}) <= MaxInputs

MCSpec == Init /\ [][Next /\ FailuresCount']_vars
==============================================================================
