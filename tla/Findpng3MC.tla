----------------------------- MODULE Findpng3MC -----------------------------
(* Small webs for Findpng3.                                                *)
EXTENDS Findpng3

CONSTANTS a, b, c, d, e, f, g, h

EightUrls == {a, b, c, d, e, f, g, h}

(* A seed with a text, two images and two pages; both pages are in one     *)
(* round, link to the same two images, one of them twice, and to the seed. *)
WebLinks == [u \in EightUrls |-> CASE u = a -> <<h, b, c, d, e>>
                                   [] u \in {d, e} -> <<f, a, g, f>>
                                   [] OTHER -> <<>>]
WebKind == [u \in EightUrls |-> IF u \in {a, d, e} THEN "html"
                                 ELSE IF u = h THEN "other" ELSE "png"]

(* The address f is moved to that of another image.                        *)
Moved == [u \in EightUrls |-> IF u = f THEN c ELSE u]
=============================================================================
