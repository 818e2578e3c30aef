----------------------------- MODULE Findpng2MC -----------------------------
(* Small webs and instances of Findpng2 for TLC.                           *)
EXTENDS Findpng2, TLC

CONSTANTS t1, t2, a, b, c, d, e, f

OneThread == {t1}
TwoThreads == {t1, t2}

SixUrls == {a, b, c, d, e, f}

(* Two pages that link to the same image, one of them also by another      *)
(* address, and back to the seed.                                          *)
TwinLinks == [u \in Urls |-> IF u = a THEN <<b, c, d, f>>
                               ELSE IF u = b THEN <<d, e, a>> ELSE <<>>]
TwinKind == [u \in Urls |-> IF u \in {a, b} THEN "html" ELSE "png"]

FiveUrls == SixUrls \ {f}

(* A seed with four images.                                                *)
FanLinks == [u \in Urls |-> IF u = a THEN <<b, c, d, e>> ELSE <<>>]
FanKind == [u \in Urls |-> IF u = a THEN "html" ELSE "png"]

NoRedirect == [u \in Urls |-> u]

(* The last address is moved to that of an image.                          *)
Moved == [u \in Urls |-> IF u = e THEN d ELSE u]
=============================================================================
