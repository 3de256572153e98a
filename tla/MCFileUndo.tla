----------------------------- MODULE MCFileUndo -----------------------------
(* Small instances of FileUndo for TLC: two folders, two files, and one     *)
(* alternative name.                                                        *)
EXTENDS FileUndo, TLC

F(d) == <<d, "f">>
G(d) == <<d, "g">>

Start1 == [p \in Paths |-> IF p = F("s") THEN "c1" ELSE IF p = G("s") THEN "c2"
                           ELSE Absent]
Start2 == [Start1 EXCEPT ![F("d")] = "c3"]

AltNames == [n \in FileNames |-> IF n = "f" THEN <<"f (2)">> ELSE <<>>]

PlainOps == {Op("copy", <<F("s"), F("d")>>, "d"), Op("move", <<F("s"), G("s")>>, "d"),
             Op("rename", <<F("d")>>, G("d")), Op("create", <<F("d")>>, Absent),
             Op("recycle", <<F("d")>>, Absent), Op("restore", <<>>, Absent)}
Starts == {Start1, Start2}
=============================================================================
