---------------------------- MODULE FramedResponse ----------------------------
(***************************************************************************)
(* A framed response from its server to its client: FrameProtocol and      *)
(* FrameDecoder with the connection between them.  The streams it carries  *)
(* implement Channels.                                                     *)
(***************************************************************************)
EXTENDS FrameDecoder

vars == <<server, network, client>>

Init == ServerInit /\ ClientInit

Server == ServerStep /\ UNCHANGED client
Fault == (JSONFails \/ Disconnect) /\ UNCHANGED client
Next == Server \/ Fault \/ ClientStep \/ Cancel

\* The sources end and both event loops run.  What is left to do is finite,
\* so that fairness to each loop is fairness to each pump.
Fairness == WF_vars(Server) /\ WF_vars(ClientStep)

Spec == Init /\ [][Next]_vars /\ Fairness

-----------------------------------------------------------------------------
\* The byte count kept beside the list of pieces (totalLength of
\* frame-decoder.ts) is that of the list, however frames and pieces overlap.
BufferAddsUp == totalLength = Len(FlattenSeq(bufferList))

\* Each stream of the response behaves as if it had the connection to itself:
\* nothing is lost, reordered or given to another stream, and the reader sees
\* a normal end only after everything the source has made.
Sent(c) == IF c = 0 THEN SubSeq(Lines, 1, pumped[0]) ELSE SubSeq(Chunks[c], 1, pumped[c])
Over(c) == IF c = 0 THEN source[0] = "ended" /\ pumped[0] = serialized
                    ELSE source[c] # "open"
PerChannel == INSTANCE Channels WITH
  channel <- [c \in Channel |->
    [sent |-> Sent(c), got |-> got[c], over |-> Over(c),
     state |-> IF state[c] = "none" THEN "open" ELSE state[c]]]
ImplementsChannels == PerChannel!Spec

\* Whoever reads a stream gets to its end, whether the sources fail, the
\* connection breaks, a limit is hit or somebody cancels: a stream that
\* getOrCreateStream makes while createFrameDecoder still runs, or for a line
\* that is read after the normal end, ends.  Not so in the code, and left out
\* here: when the decoder fails, a read() that was outstanding may have a line
\* already, and the stream that is made for it then is ended by nobody.
Running == pc # "end" \/ state[0] = "closed"
StreamsEnd == \A c \in Channel : Running /\ state[c] = "open" ~> state[c] # "open"
=============================================================================
