---------------------------- MODULE FrameProtocol ----------------------------
(***************************************************************************)
(* The server's half of a framed response: createMultiplexedStream of      *)
(* start-server-core and the streams that the handler of server functions  *)
(* gives it.  The JSON lines (channel 0) and the raw streams are pumped    *)
(* side by side into one sequence of bytes.  Two header bytes stand for    *)
(* the nine: the type with the stream id, and the length.                  *)
(***************************************************************************)
EXTENDS Naturals, Sequences, SequencesExt, FiniteSets

CONSTANTS StreamId,       \* the raw streams
          Byte,           \* what chunks are made of
          Chunks,         \* what each of them yields, a sequence of chunks
          Lines,          \* the stream that each JSON line refers to, or 0
          BrokenSources,  \* the sources that may fail, 0 for the serializer
          MayDisconnect

Channel == StreamId \cup {0}
ASSUME ChannelAssumption == /\ StreamId \subseteq Nat \ {0}
                            /\ Chunks \in [StreamId -> Seq(Seq(Byte))]
                            /\ Lines \in Seq(Channel) /\ Lines # <<>>
                            /\ BrokenSources \subseteq Channel

VARIABLES serialized,  \* how many lines the serializer has made
          pumped,      \* how many chunks or lines of a channel are in the wire
          spawned,     \* the raw streams that have a pump
          source,      \* the state of each source
          serverCancelled,
          wire,        \* bytes under way
          wireEnd      \* what comes after them

server == <<serialized, pumped, spawned, source, serverCancelled>>
network == <<wire, wireEnd>>

HeaderSize == 2
encodeFrame(type, id, payload) == <<[type |-> type, id |-> id], Len(payload)>> \o payload

\* onRawStream has been called for these: at once for those of the first
\* line, through the late-stream writer for the others.
Registered(n) == {Lines[i] : i \in 1..n} \ {0}

ServerInit == /\ serialized = 1
              /\ pumped = [c \in Channel |-> 0]
              /\ spawned = Registered(1)
              /\ source = [c \in Channel |-> "open"]
              /\ serverCancelled = FALSE
              /\ wire = <<>> /\ wireEnd = "open"

Enqueue(frame) == /\ wire' = IF wireEnd = "failed" THEN wire ELSE wire \o frame
                  /\ UNCHANGED wireEnd

\* What is under way is lost: what arrives before the failure has arrived.
Broken == wireEnd' = "failed" /\ wire' = <<>>

\* The serializer makes another line, or is done.
Serialize ==
  /\ ~serverCancelled /\ source[0] = "open"
  /\ IF serialized < Len(Lines)
     THEN serialized' = serialized + 1 /\ UNCHANGED source
     ELSE source' = [source EXCEPT ![0] = "ended"] /\ UNCHANGED serialized
  /\ UNCHANGED <<pumped, spawned, serverCancelled, network>>

\* pumpJSON.
PumpJSON ==
  /\ ~serverCancelled /\ pumped[0] < serialized
  /\ pumped' = [pumped EXCEPT ![0] = @ + 1]
  /\ Enqueue(encodeFrame("JSON", 0, <<Lines[pumped[0] + 1]>>))
  /\ UNCHANGED <<serialized, spawned, source, serverCancelled>>

\* The serializer fails: errorOutput, fatal for the whole response.
JSONFails ==
  /\ 0 \in BrokenSources /\ ~serverCancelled /\ source[0] = "open"
  /\ source' = [source EXCEPT ![0] = "failed"]
  /\ serverCancelled' = TRUE
  /\ Broken
  /\ UNCHANGED <<serialized, pumped, spawned>>

\* pumpLateStreams starts a pump for a late registration.
PumpLate(id) ==
  /\ ~serverCancelled /\ id \in Registered(serialized) \ spawned
  /\ spawned' = spawned \cup {id}
  /\ UNCHANGED <<serialized, pumped, source, serverCancelled, network>>

\* pumpRawStream: a chunk, the end or an error of the source.
PumpChunk(id) ==
  /\ pumped[id] < Len(Chunks[id])
  /\ pumped' = [pumped EXCEPT ![id] = @ + 1]
  /\ Enqueue(encodeFrame("CHUNK", id, Chunks[id][pumped[id] + 1]))
  /\ UNCHANGED source
PumpEnd(id) ==
  /\ pumped[id] = Len(Chunks[id])
  /\ source' = [source EXCEPT ![id] = "ended"]
  /\ Enqueue(encodeFrame("END", id, <<>>))
  /\ UNCHANGED pumped
PumpError(id) ==
  /\ id \in BrokenSources
  /\ source' = [source EXCEPT ![id] = "failed"]
  /\ Enqueue(encodeFrame("ERROR", id, <<"message">>))
  /\ UNCHANGED pumped
PumpRaw(id) ==
  /\ ~serverCancelled /\ id \in spawned /\ source[id] = "open"
  /\ PumpChunk(id) \/ PumpEnd(id) \/ PumpError(id)
  /\ UNCHANGED <<serialized, spawned, serverCancelled>>

\* All pumps have ended, those of the late streams too.
PumpsDoneEarly == /\ source[0] = "ended" /\ pumped[0] = serialized
                  /\ \A id \in Registered(1) : source[id] # "open"
PumpsDone == /\ source[0] = "ended" /\ pumped[0] = serialized
             /\ \A id \in Registered(serialized) : id \in spawned /\ source[id] # "open"
CloseOutput ==
  /\ ~serverCancelled /\ wireEnd = "open" /\ PumpsDone
  /\ wireEnd' = "closed"
  /\ UNCHANGED <<server, wire>>

\* The connection breaks.
Disconnect ==
  /\ MayDisconnect /\ wireEnd # "failed"
  /\ Broken
  /\ UNCHANGED server

\* cancel() of the response, when nobody reads it any more.
CancelOutput ==
  /\ ~serverCancelled /\ wireEnd = "failed"
  /\ serverCancelled' = TRUE
  /\ UNCHANGED <<serialized, pumped, spawned, source, network>>

ServerStep == \/ Serialize \/ PumpJSON \/ CloseOutput \/ CancelOutput
              \/ \E id \in StreamId : PumpLate(id) \/ PumpRaw(id)
=============================================================================
