----------------------------- MODULE FrameDecoder -----------------------------
(***************************************************************************)
(* The client's half of a framed response: createFrameDecoder of           *)
(* start-client-core.  Bytes arrive in pieces of any size, are kept in     *)
(* bufferList until a frame is complete, and the frames are handed to the  *)
(* stream they belong to.  Nothing runs between the frames of one piece.   *)
(***************************************************************************)
EXTENDS FrameProtocol, FiniteSetsExt

CONSTANTS Limits,  \* the hardening limits to try: streams, frames, payload, bytes
          Pieces   \* the sizes a piece may have, unless it is all there is

ASSUME DecoderAssumption == Pieces \subseteq Nat \ {0}

VARIABLES limit,
          bufferList, totalLength, frameCount,
          pc,                  \* "read", "parse" or "end"
          cancelled,           \* by the reader of jsonChunks
          streams, streamControllers, cancelledStreamIds,
          state,               \* of each ReadableStream; "none": not created
          got,                 \* what has been enqueued in it
          linesRead,           \* how many JSON lines have been processed
          reading              \* a read() of jsonChunks is outstanding

buffer == <<bufferList, totalLength, frameCount>>
maps == <<streams, streamControllers, cancelledStreamIds>>
out == <<state, got, linesRead, reading>>
client == <<limit, buffer, pc, cancelled, maps, out>>

ClientInit == /\ limit \in Limits
              /\ bufferList = <<>> /\ totalLength = 0 /\ frameCount = 0
              /\ pc = "read" /\ cancelled = FALSE
              /\ streams = {} /\ streamControllers = {} /\ cancelledStreamIds = {}
              /\ state = [c \in Channel |-> IF c = 0 THEN "open" ELSE "none"]
              /\ got = [c \in Channel |-> <<>>]
              /\ linesRead = 0 /\ reading = TRUE

-----------------------------------------------------------------------------
\* getOrCreateStream as a change of the maps: a stream that the reader has
\* cancelled is not created again.
Creates(id) == id \notin streams \cup cancelledStreamIds
TooMany(id) == Creates(id) /\ Cardinality(streams) >= limit.streams
CreatedIn(set, id) == IF Creates(id) THEN set \cup {id} ELSE set
CreatedState(id) == IF Creates(id) THEN [state EXCEPT ![id] = "open"] ELSE state

\* Every stream that has a controller still, and the JSON stream, end so.
Ending(ids, s) == [c \in Channel |-> IF c \in ids /\ state[c] = "open" THEN s ELSE state[c]]

LeftJSON == {0}
Left == streamControllers \cup {0}

\* The catch clause: the error goes to all streams.  The lines in the queue of
\* the JSON stream are gone, but not the one that an outstanding read() has.
Fail == /\ state' = Ending(Left, "error")
        /\ streamControllers' = {}
        /\ pc' = "end"
        /\ UNCHANGED <<limit, buffer, cancelled, streams, cancelledStreamIds, got, linesRead, reading>>

\* A piece arrives.
Read(size) ==
  LET n == Min({size, Len(wire)}) IN
  /\ pc = "read" /\ ~cancelled /\ n > 0
  /\ wire' = SubSeq(wire, n + 1, Len(wire))
  /\ IF totalLength + n > limit.bytes THEN Fail
     ELSE /\ bufferList' = Append(bufferList, SubSeq(wire, 1, n))
          /\ totalLength' = totalLength + n
          /\ pc' = "parse"
          /\ UNCHANGED <<limit, frameCount, cancelled, maps, out>>
  /\ UNCHANGED <<server, wireEnd>>

\* The input is over, or was cancelled: half a frame is an error, otherwise
\* everything is closed.
Finish ==
  IF totalLength # 0 THEN Fail
  ELSE /\ state' = Ending(Left, "closed")
       /\ streamControllers' = {}
       /\ pc' = "end"
       /\ UNCHANGED <<limit, buffer, cancelled, streams, cancelledStreamIds, got, linesRead, reading>>
ReadDone ==
  /\ pc = "read"
  /\ cancelled \/ (wire = <<>> /\ wireEnd = "closed")
  /\ Finish
  /\ UNCHANGED <<server, network>>
ReadFails ==
  /\ pc = "read" /\ ~cancelled /\ wireEnd = "failed"
  /\ Fail
  /\ UNCHANGED <<server, network>>

-----------------------------------------------------------------------------
\* extractFlattened on the list of pieces.
Take(n) == SubSeq(FlattenSeq(bufferList), 1, n)
\* How many pieces lie wholly within the first n bytes.
Fits(k, n) == Len(FlattenSeq(SubSeq(bufferList, 1, k))) <= n
Whole(n) ==
  CHOOSE k \in 0..Len(bufferList) : Fits(k, n) /\ (k = Len(bufferList) \/ ~Fits(k + 1, n))
\* Mutant: the piece in which the frame ends is dropped whole.
DropPiece(n) == SubSeq(bufferList, Whole(n) + 2, Len(bufferList))
Drop(n) ==
  LET k == Whole(n)
      cut == n - Len(FlattenSeq(SubSeq(bufferList, 1, k)))
  IN  IF k = Len(bufferList) THEN <<>>
      ELSE <<SubSeq(bufferList[k + 1], cut + 1, Len(bufferList[k + 1]))>>
           \o SubSeq(bufferList, k + 2, Len(bufferList))

\* readHeader: the first bytes, wherever the pieces end.
Header == LET b == Take(HeaderSize) IN [type |-> b[1].type, id |-> b[1].id, length |-> b[2]]
FrameSize == HeaderSize + Header.length
TooLarge == totalLength >= HeaderSize /\ Header.length > limit.payload
Incomplete == totalLength < HeaderSize \/ totalLength < FrameSize
Payload == SubSeq(Take(FrameSize), HeaderSize + 1, FrameSize)

\* The frame in front is for a stream that is open still.
Alive(id) == id \in CreatedIn(streamControllers, id)

OnJSON == /\ got' = IF state[0] = "open" THEN [got EXCEPT ![0] = Append(@, Payload[1])]
                                          ELSE got
          /\ UNCHANGED <<maps, state, linesRead, reading>>
OnChunk(id) == /\ got' = IF Alive(id) THEN [got EXCEPT ![id] = Append(@, Payload)] ELSE got
               /\ streams' = CreatedIn(streams, id)
               /\ streamControllers' = CreatedIn(streamControllers, id)
               /\ state' = CreatedState(id)
               /\ UNCHANGED <<cancelledStreamIds, linesRead, reading>>
OnEnd(id, s) == /\ streams' = CreatedIn(streams, id)
                /\ cancelledStreamIds' = cancelledStreamIds \cup {id}
                /\ streamControllers' = streamControllers \ {id}
                /\ state' = IF Alive(id) THEN [state EXCEPT ![id] = s] ELSE state
                /\ UNCHANGED <<got, linesRead, reading>>

\* One complete frame; without one the next piece is awaited.  The length
\* is judged by the header alone.
Parse ==
  /\ pc = "parse"
  /\ IF TooLarge THEN Fail
     ELSE IF Incomplete
     THEN pc' = "read" /\ UNCHANGED <<limit, buffer, cancelled, maps, out>>
     ELSE LET h == Header
          IN  IF \/ frameCount + 1 > limit.frames
                 \/ h.type # "JSON" /\ TooMany(h.id)
              THEN Fail
              ELSE /\ bufferList' = Drop(FrameSize)
                   /\ totalLength' = totalLength - FrameSize
                   /\ frameCount' = frameCount + 1
                   /\ CASE h.type = "JSON" -> OnJSON
                        [] h.type = "CHUNK" -> OnChunk(h.id)
                        [] h.type = "END" -> OnEnd(h.id, "closed")
                        [] h.type = "ERROR" -> OnEnd(h.id, "error")
                   /\ UNCHANGED <<limit, pc, cancelled>>
  /\ UNCHANGED <<server, network>>

-----------------------------------------------------------------------------
\* processFramedResponse asks for the next line.  A stream that has failed or
\* was cancelled has none to give.
Request ==
  /\ pc # "parse" /\ ~reading
  /\ state[0] = "open" \/ (state[0] = "closed" /\ linesRead < Len(got[0]))
  /\ reading' = TRUE
  /\ UNCHANGED <<limit, buffer, pc, cancelled, maps, state, got, linesRead, server, network>>

\* The line that a read() has got is processed, whatever has become of the
\* response since; a reference to a raw stream in it gets or creates the stream.
\* Before the first line is processed the drain asks for the second.  When the
\* response has been cancelled the call has thrown: nobody can hold a stream
\* that is made then, and it is not followed.
ReadLine ==
  /\ pc # "parse" /\ reading /\ linesRead < Len(got[0])
  /\ linesRead' = linesRead + 1
  /\ reading' = (linesRead = 0 /\ state[0] \in {"open", "closed"})
  /\ LET id == got[0][linesRead + 1]
     IN  IF id = 0 \/ TooMany(id) \/ cancelled
         THEN UNCHANGED <<streams, streamControllers, state>>
         ELSE /\ streams' = CreatedIn(streams, id)
              /\ streamControllers' = CreatedIn(streamControllers, id)
              /\ state' = CreatedState(id)
  /\ UNCHANGED <<limit, buffer, pc, cancelled, cancelledStreamIds, got, server, network>>

\* The reader of a raw stream cancels it.
CancelStream(id) ==
  /\ pc # "parse" /\ state[id] = "open"
  /\ id \in {got[0][i] : i \in 1..linesRead}
  /\ state' = [state EXCEPT ![id] = "cancelled"]
  /\ cancelledStreamIds' = cancelledStreamIds \cup {id}
  /\ streamControllers' = streamControllers \ {id}
  /\ streams' = streams \ {id}
  /\ UNCHANGED <<limit, buffer, pc, cancelled, got, linesRead, reading, server, network>>

\* The first value cannot be decoded: the whole response is cancelled.
CancelJSON ==
  /\ pc # "parse" /\ state[0] = "open" /\ linesRead > 0
  /\ cancelled' = TRUE
  /\ state' = [Ending(streamControllers, "error") EXCEPT ![0] = "cancelled"]
  /\ streams' = {} /\ streamControllers' = {} /\ cancelledStreamIds' = {}
  /\ Broken
  /\ UNCHANGED <<limit, buffer, pc, got, linesRead, reading, server>>

ClientStep == \/ \E n \in Pieces : Read(n)
              \/ ReadDone \/ ReadFails \/ Parse \/ Request \/ ReadLine
Cancel == CancelJSON \/ \E id \in StreamId : CancelStream(id)
=============================================================================
