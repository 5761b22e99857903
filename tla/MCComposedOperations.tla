------------------------ MODULE MCComposedOperations ------------------------
(* Up to three lines behind each other, so that a read brings the end of   *)
(* one and the beginning, or the whole, of the next; with every way in     *)
(* which \r and \n may occur before the delimiter;                         *)
(* and uploads of up to seven bytes for buffers of three, so that some are *)
(* and some are not a multiple; a kernel that holds less than a line.      *)
EXTENDS ComposedOperations

CONSTANTS x, cr, lf

MCBytes == {x, cr, lf}
MCDelim == <<cr, lf>>

Texts == UNION {[1 .. n -> MCBytes] : n \in 0 .. 3}
MCLine == {b \in {s \o MCDelim : s \in Texts} : IsLine(b)}
MCLines == {<<b>> : b \in MCLine} \cup {<<b, <<x, cr, cr, lf>>>> : b \in MCLine}
             \cup {<<<<cr, lf>>, <<x, cr, lf>>, b>> : b \in MCLine}
MCBlocks == {<<>>, <<<<x, cr>>>>, <<<<x, cr, lf>>>>, <<<<x, cr, lf, x>>, <<lf, cr>>>>,
             <<<<x, cr, lf, x>>, <<lf, lf, cr>>>>}

=============================================================================
