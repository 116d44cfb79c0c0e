-------------------------- MODULE MCFramedResponse --------------------------
(* Small instances of FramedResponse for TLC. *)
EXTENDS FramedResponse

MCChunks == << << <<1, 2>> >>, << <<3>> >> >>
MCLines == <<1, 2>>

Generous == [streams |-> 9, frames |-> 9, payload |-> 9, bytes |-> 99]
\* A piece is 3 bytes and the longest frame 4: with 3 left over a buffer of
\* 5 is exceeded.
MCLimits == {Generous, [Generous EXCEPT !.streams = 1, !.bytes = 5],
             [Generous EXCEPT !.payload = 1, !.frames = 3]}
=============================================================================
