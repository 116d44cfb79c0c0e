------------------------- MODULE MCStreamTransform -------------------------
(* Instances of StreamTransform for TLC. *)
EXTENDS StreamTransform

Document == <<"txt", "bar", "</", ">", "txt", "</", ">", "</body>", "</html>">>
WithTail == <<"bar", "</", ">", "txt", "</body>", "</html>", "txt">>
Fragment == <<"bar", "</", ">", "txt", "</", ">">>
Unclosed == <<"bar", "</", ">", "txt", "txt">>

DocumentsAndFragments == {Document, WithTail, Fragment, Unclosed}
=============================================================================
