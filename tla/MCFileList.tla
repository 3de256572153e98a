---------------------------- MODULE MCFileList ----------------------------
(* A small instance of FileList for TLC. *)
EXTENDS FileList

\* A folder and two files, two of them beginning alike; the disk lists them in
\* another order than they are sorted in.
Directory == <<"b">>
SortedNames == << <<"a">>, <<"a", "b">>, Directory>>
DiskNames == <<Directory, <<"a", "b">>, <<"a">> >>
TheFolders == {Directory}
Filtered == {<<"a", "b">>, Directory}
HerePath == <<"here">>
TherePath == <<"there">>
=============================================================================
