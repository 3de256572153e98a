------------------------------ MODULE MCListing ------------------------------
(* A folder with up to two files, an empty one, a tab or two.              *)
EXTENDS Listing

OneTab == 1 .. 1
TwoTabs == 1 .. 2
First == {1}
Second == {2}
Both == {1, 2}
Folder == [n \in Both |-> "A"]
OneOnDisk == {{1}}
OnA == [t \in OneTab |-> "A"]
OnAandB == [t \in TwoTabs |-> IF t = 1 THEN "A" ELSE "B"]
==============================================================================
