--------------------------- MODULE MCRequestKeys ---------------------------
(* Texts that come apart only by the separators: id x:a with SKU b against
   id x with SKU a:b; one line to region 1|dest:x against two lines to x.
   The third id is too long. *)
EXTENDS RequestKeys

MCAlnum == {"a", "b", "x", "d", "r", "e", "s", "l", "c", "m", "t",
            "0", "1", "2", "3", "4", "5", "6", "7", "8", "9"}
MCSkuText == {<<"b">>, <<"d", "e", "s", "t">>, <<"a", ":", "b">>}
MCIdText == {<<"x">>, <<"x", ":", "a">>, <<"x", "x", "x", "x", "x", "x">>}
MCRegionText == {<<"x">>, <<"1", "|", "d", "e", "s", "t", ":", "x">>}
MCSkuRank == (<<"b">> :> 2) @@ (<<"d", "e", "s", "t">> :> 3) @@ (<<"a", ":", "b">> :> 1)

\* A command id like any name, and one that is the key of a Commit: id x, SKU b.
MCCommandText == {<<"x">>, <<"c", "m", "t", ":", "x", ":", "b">>}
=============================================================================
