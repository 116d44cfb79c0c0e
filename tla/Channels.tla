------------------------------- MODULE Channels -------------------------------
(***************************************************************************)
(* What a framed response promises of each stream in it, as if it had the  *)
(* connection to itself: what arrives is a beginning of what was sent, in  *)
(* order, and a stream closes normally only when all of it has arrived.    *)
(* A channel may fail at any time and the reader may cancel it.            *)
(***************************************************************************)
EXTENDS Naturals, Sequences, SequencesExt

CONSTANT Channel
VARIABLE channel
\* sent and got are sequences of chunks; over: the sender has no more.

Initial == [sent |-> <<>>, got |-> <<>>, over |-> FALSE, state |-> "open"]
Init == channel = [c \in Channel |-> Initial]

Send(c, d) == /\ ~c.over /\ IsStrictPrefix(c.sent, d.sent)
              /\ \E last \in BOOLEAN : d = [c EXCEPT !.sent = d.sent, !.over = last]
End(c, d) == ~c.over /\ d = [c EXCEPT !.over = TRUE]
Deliver(c, d) == /\ c.state = "open" /\ Len(c.got) < Len(c.sent)
                 /\ d = [c EXCEPT !.got = Append(@, c.sent[Len(c.got) + 1])]
Close(c, d) == /\ c.state = "open" /\ c.over /\ c.got = c.sent
               /\ d = [c EXCEPT !.state = "closed"]
Break(c, d) == /\ c.state = "open"
               /\ \E s \in {"error", "cancelled"} : d = [c EXCEPT !.state = s]

Step(c, d) == \/ Send(c, d) \/ End(c, d) \/ Deliver(c, d)
              \/ Close(c, d) \/ Break(c, d)

\* A failure of the connection breaks several channels at once.
Next == /\ DOMAIN channel' = Channel
        /\ \A c \in Channel : Step(channel[c], channel'[c]) \/ channel'[c] = channel[c]

Spec == Init /\ [][Next]_channel
=============================================================================
