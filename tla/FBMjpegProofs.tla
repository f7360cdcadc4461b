---------------------------- MODULE FBMjpegProofs ----------------------------
(***************************************************************************)
(* What the screenshots broadcaster guarantees for any set of clients and  *)
(* any bound on frames and blocks.                                         *)
(***************************************************************************)
EXTENDS FBMjpegServer, FiniteSetTheorems, SequenceTheorems, TLAPS

-----------------------------------------------------------------------------
(* Queues *)

(* The first element of a queue leaves it. *)
LEMMA TailOf ==
  ASSUME NEW S, NEW q \in Seq(S), q # <<>>
  PROVE  /\ Tail(q) \in Seq(S)
         /\ Head(q) \in S /\ Head(q) = q[1] /\ 1 \in DOMAIN q
         /\ \A i \in DOMAIN Tail(q) : i \in Nat /\ i + 1 \in DOMAIN q /\ Tail(q)[i] = q[i + 1]
         /\ \A i \in DOMAIN q : i = 1 \/ (i - 1 \in DOMAIN Tail(q) /\ Tail(q)[i - 1] = q[i])
OBVIOUS

(* An element joins a queue. *)
LEMMA AppendTo ==
  ASSUME NEW S, NEW q \in Seq(S), NEW x \in S
  PROVE  /\ Append(q, x) \in Seq(S)
         /\ \A i \in DOMAIN q : i \in DOMAIN Append(q, x) /\ Append(q, x)[i] = q[i]
                                /\ i < Len(q) + 1
         /\ \A i \in DOMAIN Append(q, x) :
              \/ i \in DOMAIN q /\ Append(q, x)[i] = q[i] /\ i < Len(q) + 1
              \/ i = Len(q) + 1 /\ Append(q, x)[i] = x
         /\ Len(q) + 1 \in DOMAIN Append(q, x) /\ Append(q, x)[Len(q) + 1] = x
OBVIOUS

(* The callbacks stop queues form a sequence. *)
LEMMA StopCallbacks ==
  ASSUME NEW S \in SUBSET Client, NEW order \in SetToSeqs(S)
  PROVE  [i \in DOMAIN order |-> [kind |-> "disconnect", client |-> order[i]]] \in Seq(Callback)
<1>1. IsFiniteSet(S)
  BY MjpegAssumption, FS_Subset
<1>2. Cardinality(S) \in Nat
  BY <1>1, FS_CardinalityType
<1>3. order \in [1 .. Cardinality(S) -> S]
  BY DEF SetToSeqs
<1>4. \A i \in 1 .. Cardinality(S) : [kind |-> "disconnect", client |-> order[i]] \in Callback
  BY <1>3 DEF Callback
<1>5. QED
  BY <1>2, <1>3, <1>4

(* Every initial state has the right types. *)
LEMMA InitType == Init => TypeOK
<1> SUFFICES ASSUME Init PROVE TypeOK
  OBVIOUS
<1>1. callbacks \in Seq(Callback) /\ blocks \in Seq(Block)
  BY DEF Init
<1>2. stream \in [Client -> Stream]
  BY MjpegAssumption DEF Init, Stream
<1>3. joined \in [Client -> 0 .. MaxFrames] /\ captures \in 0 .. MaxFrames
  BY MjpegAssumption DEF Init
<1>4. QED
  BY <1>1, <1>2, <1>3 DEF Init, TypeOK

(* What a frame does to a client's stream. *)
LEMMA WithFrameType ==
  ASSUME NEW s \in Stream, NEW n \in 0 .. MaxFrames
  PROVE  /\ WithFrame(s, n) \in Stream
         /\ WithFrame(s, n).last = n
         /\ WithFrame(s, n).early = IF s.header THEN s.early ELSE n
         /\ WithFrame(s, n).header = s.header
BY DEF WithFrame, Stream

LEMMA BlockFields ==
  ASSUME NEW b \in Block
  PROVE  /\ b.kind = "header" => b.client \in Client /\ b = HeaderBlock(b.client)
         /\ b.kind = "chunk" => b.frame \in 0 .. MaxFrames
         /\ b.kind \in {"header", "chunk"}
         /\ \A c \in Client : b = HeaderBlock(c) => b.kind = "header" /\ b.client = c
BY MjpegAssumption DEF Block, HeaderBlock, ChunkBlock

(* Every step keeps the types. *)
LEMMA TypeStep == TypeOK /\ [Next]_vars => TypeOK'
<1> SUFFICES ASSUME TypeOK, [Next]_vars PROVE TypeOK'
  OBVIOUS
<1> USE DEF socketVars, writeVars, mainVars
<1>1. ASSUME NEW c \in Client, Connect(c) \/ Disconnect(c) PROVE TypeOK'
  <2>1. callbacks' \in Seq(Callback)
    <3>1. [kind |-> "connect", client |-> c] \in Callback
          /\ [kind |-> "disconnect", client |-> c] \in Callback
      BY DEF Callback
    <3>2. callbacks \in Seq(Callback)
      BY DEF TypeOK
    <3>3. QED
      BY <1>1, <3>1, <3>2, AppendTo DEF Connect, Disconnect
  <2>2. link' \in [Client -> {"away", "open", "closed"}]
    BY <1>1 DEF Connect, Disconnect, TypeOK
  <2>3. QED
    BY <1>1, <2>1, <2>2 DEF Connect, Disconnect, TypeOK
<1>2. ASSUME NEW c \in Client, DidAcceptNewSocket(c) PROVE TypeOK'
  <2>1. callbacks' \in Seq(Callback)
    BY <1>2, TailOf DEF DidAcceptNewSocket, NextCallback, TypeOK
  <2>2. blocks' \in Seq(Block)
    <3>1. HeaderBlock(c) \in Block
      BY DEF Block
    <3>2. QED
      BY <1>2, <3>1 DEF DidAcceptNewSocket, TypeOK
  <2>3. joined' \in [Client -> 0 .. MaxFrames] /\ refreshes' \in Nat
    BY <1>2 DEF DidAcceptNewSocket, TypeOK
  <2>4. QED
    BY <1>2, <2>1, <2>2, <2>3 DEF DidAcceptNewSocket, TypeOK
<1>3. ASSUME DidClientConnect PROVE TypeOK'
  BY <1>3 DEF DidClientConnect, TypeOK
<1>4. ASSUME NEW c \in Client, SocketDidDisconnect(c) PROVE TypeOK'
  <2>1. callbacks' \in Seq(Callback)
    BY <1>4, TailOf DEF SocketDidDisconnect, NextCallback, TypeOK
  <2>2. QED
    BY <1>4, <2>1 DEF SocketDidDisconnect, TypeOK
<1>5. ASSUME StreamScreenshot PROVE TypeOK'
  <2>1. captures' \in 0 .. MaxFrames
    BY <1>5, MjpegAssumption DEF StreamScreenshot, TypeOK
  <2>2. QED
    BY <1>5, <2>1 DEF StreamScreenshot, TypeOK
<1>6. ASSUME Wake PROVE TypeOK'
  BY <1>6 DEF Wake, TypeOK
<1>7. ASSUME DispatchChunk PROVE TypeOK'
  <2>1. blocks' \in Seq(Block)
    <3>1. ChunkBlock(captures) \in Block
      BY <1>7 DEF Block, TypeOK
    <3>2. blocks \in Seq(Block)
      BY DEF TypeOK
    <3>3. QED
      BY <1>7, <3>1, <3>2, AppendTo DEF DispatchChunk
  <2>2. QED
    BY <1>7, <2>1 DEF DispatchChunk, TypeOK
<1>8. ASSUME NEW measured \in BOOLEAN, RefreshScreenRect(measured) PROVE TypeOK'
  BY <1>8 DEF RefreshScreenRect, TypeOK
<1>9. ASSUME NEW answer \in {"data", "nil"}, Reply(answer) PROVE TypeOK'
  BY <1>9 DEF Reply, TypeOK
<1>10. ASSUME StopClients PROVE TypeOK'
  <2> DEFINE stopped == {c \in connectedClients : link[c] = "open"}
  <2>1. PICK order \in SetToSeqs(stopped) :
          callbacks' = callbacks \o [i \in DOMAIN order |->
                                       [kind |-> "disconnect", client |-> order[i]]]
    BY <1>10 DEF StopClients
  <2>2. stopped \in SUBSET Client
    BY DEF TypeOK
  <2>3. [i \in DOMAIN order |-> [kind |-> "disconnect", client |-> order[i]]] \in Seq(Callback)
    BY <2>2, StopCallbacks
  <2>4. callbacks' \in Seq(Callback)
    BY <2>1, <2>3 DEF TypeOK
  <2>5. link' \in [Client -> {"away", "open", "closed"}]
    BY <1>10 DEF StopClients, TypeOK
  <2>6. QED
    BY <1>10, <2>4, <2>5 DEF StopClients, TypeOK
<1>11. ASSUME StopListening PROVE TypeOK'
  BY <1>11 DEF StopListening, TypeOK
<1>12. ASSUME WriteHeader PROVE TypeOK'
  <2>1. blocks' \in Seq(Block) /\ Head(blocks) \in Block
    BY <1>12, TailOf DEF WriteHeader, TypeOK
  <2>2. stream' \in [Client -> Stream]
    <3>1. PICK c \in Client : stream' = [stream EXCEPT ![c].header = @ \/ Writable(c)]
      BY <1>12, <2>1, BlockFields DEF WriteHeader
    <3>2. (stream[c].header \/ Writable(c)) \in BOOLEAN
      BY DEF TypeOK, Stream, Writable
    <3>3. QED
      BY <3>1, <3>2 DEF TypeOK, Stream
  <2>3. QED
    BY <1>12, <2>1, <2>2 DEF WriteHeader, TypeOK
<1>13. ASSUME NEW encoded \in BOOLEAN, WriteChunk(encoded) PROVE TypeOK'
  <2>1. blocks' \in Seq(Block) /\ Head(blocks) \in Block
    BY <1>13, TailOf DEF WriteChunk, TypeOK
  <2>2. Head(blocks).frame \in 0 .. MaxFrames
    BY <1>13, <2>1, BlockFields DEF WriteChunk
  <2>3. \A c \in Client : WithFrame(stream[c], Head(blocks).frame) \in Stream
    BY <2>2, WithFrameType DEF TypeOK
  <2>4. stream' \in [Client -> Stream]
    BY <1>13, <2>3 DEF WriteChunk, TypeOK
  <2>5. QED
    BY <1>13, <2>1, <2>4 DEF WriteChunk, TypeOK
<1>14. CASE UNCHANGED vars
  BY <1>14 DEF vars, TypeOK
<1>15. QED
  BY <1>1, <1>2, <1>3, <1>4, <1>5, <1>6, <1>7, <1>8, <1>9, <1>10, <1>11, <1>12, <1>13, <1>14
  DEF Next, DelegateStep, BackgroundStep, MainStep

(* Type correctness of the broadcaster's lists, queues and streams. *)
THEOREM TypeCorrect == Spec => []TypeOK
BY InitType, TypeStep, PTL DEF Spec

-----------------------------------------------------------------------------
(* Headers and frames.  Most steps leave queue and streams alone.            *)

Quiet ==
  /\ UNCHANGED <<blocks, stream, joined>>
  /\ captures' \in 0 .. MaxFrames /\ captures <= captures'
  /\ connectedClients' \subseteq connectedClients
  /\ activeClients' \subseteq connectedClients'
  /\ \A c \in connectedClients' : Writable(c)' => Writable(c)

Dispatches ==
  /\ blocks' = Append(blocks, ChunkBlock(captures))
  /\ UNCHANGED <<link, connectedClients, activeClients, stream, joined, captures>>

LEMMA StepKinds ==
  TypeOK /\ ActiveAreConnected /\ [Next]_vars =>
    \/ Quiet \/ Dispatches \/ WriteHeader
    \/ \E c \in Client : DidAcceptNewSocket(c)
    \/ \E encoded \in BOOLEAN : WriteChunk(encoded)
<1> SUFFICES ASSUME TypeOK, ActiveAreConnected, [Next]_vars
             PROVE  \/ Quiet \/ Dispatches \/ WriteHeader
                    \/ \E c \in Client : DidAcceptNewSocket(c)
                    \/ \E encoded \in BOOLEAN : WriteChunk(encoded)
  OBVIOUS
<1> USE DEF socketVars, writeVars, mainVars
<1>0. captures \in 0 .. MaxFrames /\ captures <= captures
  BY MjpegAssumption DEF TypeOK
<1>1. ASSUME NEW c \in Client, Connect(c) \/ Disconnect(c) PROVE Quiet
  <2>1. \A d \in Client : link'[d] # "closed" => link[d] # "closed"
    BY <1>1 DEF Connect, Disconnect, TypeOK
  <2>2. connectedClients \subseteq Client
    BY DEF TypeOK
  <2>3. QED
    BY <1>0, <1>1, <2>1, <2>2 DEF Connect, Disconnect, Quiet, ActiveAreConnected, Writable
<1>2. ASSUME DidClientConnect PROVE Quiet
  BY <1>0, <1>2 DEF DidClientConnect, Quiet, Writable
<1>3. ASSUME NEW c \in Client, SocketDidDisconnect(c) PROVE Quiet
  BY <1>0, <1>3 DEF SocketDidDisconnect, Quiet, Writable
<1>4. ASSUME StreamScreenshot PROVE Quiet
  <2>1. captures' \in 0 .. MaxFrames /\ captures <= captures'
    BY <1>4, MjpegAssumption DEF StreamScreenshot, TypeOK
  <2>2. QED
    BY <1>4, <2>1 DEF StreamScreenshot, Quiet, ActiveAreConnected, Writable
<1>5. ASSUME Wake \/ StopListening PROVE Quiet
  BY <1>0, <1>5 DEF Wake, StopListening, Quiet, ActiveAreConnected, Writable
<1>6. ASSUME DispatchChunk PROVE Quiet \/ Dispatches
  BY <1>0, <1>6 DEF DispatchChunk, Quiet, Dispatches, ActiveAreConnected, Writable
<1>7. ASSUME NEW measured \in BOOLEAN, RefreshScreenRect(measured) PROVE Quiet
  BY <1>0, <1>7 DEF RefreshScreenRect, Quiet, ActiveAreConnected, Writable
<1>8. ASSUME NEW answer \in {"data", "nil"}, Reply(answer) PROVE Quiet
  BY <1>0, <1>8 DEF Reply, Quiet, ActiveAreConnected, Writable
<1>9. ASSUME StopClients PROVE Quiet
  <2>1. \A d \in Client : link'[d] # "closed" => link[d] # "closed"
    BY <1>9 DEF StopClients, TypeOK
  <2>2. connectedClients \subseteq Client
    BY DEF TypeOK
  <2>3. QED
    BY <1>0, <1>9, <2>1, <2>2 DEF StopClients, Quiet, ActiveAreConnected, Writable
<1>10. CASE UNCHANGED vars
  BY <1>0, <1>10 DEF vars, Quiet, ActiveAreConnected, Writable
<1>11. QED
  BY <1>1, <1>2, <1>3, <1>4, <1>5, <1>6, <1>7, <1>8, <1>9, <1>10
  DEF Next, DelegateStep, BackgroundStep, MainStep

LEMMA InitStream == Init => StreamInv
BY DEF Init, StreamInv, NothingFromTheFuture, FramesAheadOfHeader, HeaderIsComing,
       QueueInOrder, ActiveAreConnected, OnlyOlderFramesOvertakeHeader, Chunks

(* A new client's header goes behind frames that are all older than it. *)
LEMMA AcceptKeeps ==
  ASSUME TypeOK, StreamInv, NEW c \in Client, DidAcceptNewSocket(c)
  PROVE  StreamInv'
<1> USE DEF socketVars, writeVars, mainVars
<1>1. /\ blocks \in Seq(Block) /\ captures \in 0 .. MaxFrames /\ MaxFrames \in Nat
      /\ joined \in [Client -> 0 .. MaxFrames] /\ connectedClients \subseteq Client
      /\ HeaderBlock(c) \in Block
  BY MjpegAssumption DEF TypeOK, Block
<1>2. /\ blocks' = Append(blocks, HeaderBlock(c))
      /\ connectedClients' = connectedClients \cup {c}
      /\ UNCHANGED <<link, activeClients, stream, captures>>
      /\ \A d \in Client : joined'[d] = IF d = c THEN captures ELSE joined[d]
  BY <1>1 DEF DidAcceptNewSocket
<1>3. /\ \A i \in DOMAIN blocks' :
           \/ i \in DOMAIN blocks /\ blocks'[i] = blocks[i] /\ i < Len(blocks) + 1
           \/ i = Len(blocks) + 1 /\ blocks'[i] = HeaderBlock(c)
      /\ \A i \in DOMAIN blocks : i \in DOMAIN blocks' /\ blocks'[i] = blocks[i]
                                  /\ i < Len(blocks) + 1
      /\ Len(blocks) + 1 \in DOMAIN blocks' /\ blocks'[Len(blocks) + 1] = HeaderBlock(c)
  BY <1>1, <1>2, AppendTo
<1>4. \A i \in Chunks' : i \in Chunks /\ blocks'[i] = blocks[i] /\ i < Len(blocks) + 1
  BY <1>3 DEF Chunks, HeaderBlock
<1>5. NothingFromTheFuture'
  <2>1. \A i \in Chunks' : blocks'[i].frame <= captures'
    BY <1>2, <1>4 DEF StreamInv, NothingFromTheFuture
  <2>2. \A d \in Client : joined[d] <= captures /\ stream[d].last <= captures
    BY DEF StreamInv, NothingFromTheFuture
  <2>3. captures <= captures
    BY <1>1
  <2>4. \A d \in Client : joined'[d] <= captures' /\ stream'[d].last <= captures'
    BY <1>2, <2>2, <2>3
  <2>5. QED
    BY <2>1, <2>4 DEF NothingFromTheFuture
<1>6. \A d \in Client : joined[d] \in Nat /\ joined'[d] \in Nat /\ joined[d] <= joined'[d]
  <2>1. \A d \in Client : joined[d] \in 0 .. MaxFrames /\ joined[d] <= captures
    BY <1>1 DEF StreamInv, NothingFromTheFuture
  <2>2. QED
    BY <1>1, <1>2, <2>1
<1>7. FramesAheadOfHeader'
  <2> SUFFICES ASSUME NEW d \in Client, NEW i \in Chunks', NEW j \in DOMAIN blocks',
                      i < j, blocks'[j] = HeaderBlock(d)
               PROVE  blocks'[i].frame <= joined'[d]
    BY DEF FramesAheadOfHeader
  <2>1. i \in Chunks /\ blocks'[i] = blocks[i]
    BY <1>4
  <2>2. CASE j \in DOMAIN blocks /\ blocks'[j] = blocks[j]
    <3>1. blocks[i].frame <= joined[d]
      BY <2>1, <2>2 DEF StreamInv, FramesAheadOfHeader
    <3>2. blocks[i].frame \in Nat
      BY <1>1, <2>1, BlockFields DEF Chunks
    <3>3. QED
      BY <1>6, <2>1, <3>1, <3>2
  <2>3. CASE j = Len(blocks) + 1 /\ blocks'[j] = HeaderBlock(c)
    <3>1. d = c
      BY <2>3 DEF HeaderBlock
    <3>2. blocks[i].frame <= captures
      BY <2>1 DEF StreamInv, NothingFromTheFuture
    <3>3. QED
      BY <1>2, <2>1, <3>1, <3>2
  <2>4. QED
    BY <1>3, <2>2, <2>3
<1>8. HeaderIsComing'
  <2> SUFFICES ASSUME NEW d \in connectedClients', Writable(d)', ~stream'[d].header
               PROVE  \E j \in DOMAIN blocks' : blocks'[j] = HeaderBlock(d)
    BY DEF HeaderIsComing
  <2>1. CASE d = c
    BY <1>3, <2>1
  <2>2. CASE d \in connectedClients
    BY <1>2, <1>3, <2>2 DEF StreamInv, HeaderIsComing, Writable
  <2>3. QED
    BY <1>2, <2>1, <2>2
<1>9. QueueInOrder'
  BY <1>2, <1>4 DEF StreamInv, QueueInOrder
<1>10. ActiveAreConnected'
  BY <1>2 DEF StreamInv, ActiveAreConnected
<1>11. OnlyOlderFramesOvertakeHeader'
  <2>1. \A d \in Client : stream[d].early <= joined[d] /\ stream[d].early \in Nat
    BY DEF StreamInv, OnlyOlderFramesOvertakeHeader, TypeOK, Stream
  <2>2. QED
    BY <1>2, <1>6, <2>1 DEF OnlyOlderFramesOvertakeHeader
<1>12. QED
  BY <1>5, <1>7, <1>8, <1>9, <1>10, <1>11 DEF StreamInv

(* A frame is dispatched with the highest number so far. *)
LEMMA DispatchKeeps == TypeOK /\ StreamInv /\ Dispatches => StreamInv'
<1> SUFFICES ASSUME TypeOK, StreamInv, Dispatches PROVE StreamInv'
  OBVIOUS
<1>1. /\ blocks \in Seq(Block) /\ captures \in Nat /\ connectedClients \subseteq Client
      /\ ChunkBlock(captures) \in Block
  BY MjpegAssumption DEF TypeOK, Block
<1>2. /\ \A i \in DOMAIN blocks' :
           \/ i \in DOMAIN blocks /\ blocks'[i] = blocks[i] /\ i < Len(blocks) + 1
           \/ i = Len(blocks) + 1 /\ blocks'[i] = ChunkBlock(captures)
      /\ \A i \in DOMAIN blocks : i \in DOMAIN blocks' /\ blocks'[i] = blocks[i]
                                  /\ i < Len(blocks) + 1
  BY <1>1, AppendTo DEF Dispatches
<1>3. \A i \in Chunks' :
        \/ i \in Chunks /\ blocks'[i] = blocks[i] /\ i < Len(blocks) + 1
        \/ i = Len(blocks) + 1 /\ blocks'[i].frame = captures
  BY <1>2 DEF Chunks, ChunkBlock
<1>4. NothingFromTheFuture'
  <2>1. captures <= captures
    BY <1>1
  <2>2. \A i \in Chunks' : blocks'[i].frame <= captures
    BY <1>3, <2>1 DEF StreamInv, NothingFromTheFuture
  <2>3. QED
    BY <2>2 DEF StreamInv, NothingFromTheFuture, Dispatches
<1>5. FramesAheadOfHeader'
  <2> SUFFICES ASSUME NEW d \in Client, NEW i \in Chunks', NEW j \in DOMAIN blocks',
                      i < j, blocks'[j] = HeaderBlock(d)
               PROVE  blocks'[i].frame <= joined'[d]
    BY DEF FramesAheadOfHeader
  <2>1. j \in DOMAIN blocks /\ blocks'[j] = blocks[j] /\ j < Len(blocks) + 1
    BY <1>2 DEF HeaderBlock, ChunkBlock
  <2>2. j \in Nat /\ i \in Nat /\ Len(blocks) \in Nat
    BY <1>1, <1>3, <2>1 DEF Chunks
  <2>3. i \in Chunks /\ blocks'[i] = blocks[i]
    BY <1>3, <2>1, <2>2
  <2>4. QED
    BY <2>1, <2>3 DEF StreamInv, FramesAheadOfHeader, Dispatches
<1>6. HeaderIsComing'
  <2> SUFFICES ASSUME NEW d \in connectedClients', Writable(d)', ~stream'[d].header
               PROVE  \E j \in DOMAIN blocks' : blocks'[j] = HeaderBlock(d)
    BY DEF HeaderIsComing
  <2>1. d \in connectedClients /\ Writable(d) /\ ~stream[d].header
    BY DEF Dispatches, Writable
  <2>2. PICK j \in DOMAIN blocks : blocks[j] = HeaderBlock(d)
    BY <2>1 DEF StreamInv, HeaderIsComing
  <2>3. QED
    BY <1>2, <2>2
<1>7. QueueInOrder'
  <2>1. ASSUME NEW i \in Chunks', NEW j \in Chunks', i < j
        PROVE  blocks'[i].frame <= blocks'[j].frame
    <3>1. Len(blocks) \in Nat /\ i \in Nat /\ j \in Nat
      BY <1>1, <1>3 DEF Chunks
    <3>2. i \in Chunks /\ blocks'[i] = blocks[i]
      BY <1>3, <2>1, <3>1
    <3>3. CASE j \in Chunks /\ blocks'[j] = blocks[j]
      BY <2>1, <3>2, <3>3 DEF StreamInv, QueueInOrder
    <3>4. CASE blocks'[j].frame = captures
      BY <3>2, <3>4 DEF StreamInv, NothingFromTheFuture
    <3>5. QED
      BY <1>3, <3>3, <3>4
  <2>2. ASSUME NEW c \in Client, NEW i \in Chunks' PROVE stream'[c].last <= blocks'[i].frame
    BY <1>3 DEF StreamInv, QueueInOrder, NothingFromTheFuture, Dispatches
  <2>3. QED
    BY <2>1, <2>2 DEF QueueInOrder
<1>8. ActiveAreConnected' /\ OnlyOlderFramesOvertakeHeader'
  BY DEF StreamInv, ActiveAreConnected, OnlyOlderFramesOvertakeHeader, Dispatches
<1>9. QED
  BY <1>4, <1>5, <1>6, <1>7, <1>8 DEF StreamInv

(* What stays of the queue when its head is served. *)
LEMMA ServedHead ==
  ASSUME TypeOK, blocks # <<>>, blocks' = Tail(blocks)
  PROVE  /\ Head(blocks) \in Block /\ Head(blocks) = blocks[1] /\ 1 \in DOMAIN blocks
         /\ \A i \in DOMAIN blocks' : i \in Nat /\ i + 1 \in DOMAIN blocks
                                      /\ blocks'[i] = blocks[i + 1]
         /\ \A i \in DOMAIN blocks :
              i = 1 \/ (i - 1 \in DOMAIN blocks' /\ blocks'[i - 1] = blocks[i])
         /\ \A i \in Chunks' : i \in Nat /\ i + 1 \in Chunks /\ blocks'[i] = blocks[i + 1]
<1>1. blocks \in Seq(Block)
  BY DEF TypeOK
<1>2. /\ Head(blocks) \in Block /\ Head(blocks) = blocks[1] /\ 1 \in DOMAIN blocks
      /\ \A i \in DOMAIN blocks' : i \in Nat /\ i + 1 \in DOMAIN blocks
                                   /\ blocks'[i] = blocks[i + 1]
      /\ \A i \in DOMAIN blocks :
           i = 1 \/ (i - 1 \in DOMAIN blocks' /\ blocks'[i - 1] = blocks[i])
  BY <1>1, TailOf
<1>3. QED
  BY <1>2 DEF Chunks

(* Serving the head keeps the order of what is left. *)
LEMMA ServedQueue ==
  ASSUME TypeOK, StreamInv, blocks # <<>>, blocks' = Tail(blocks), joined' = joined
  PROVE  /\ FramesAheadOfHeader'
         /\ \A i, j \in Chunks' : i < j => blocks'[i].frame <= blocks'[j].frame
<1>1. ASSUME NEW d \in Client, NEW i \in Chunks', NEW j \in DOMAIN blocks',
             i < j, blocks'[j] = HeaderBlock(d)
      PROVE  blocks'[i].frame <= joined'[d]
  <2>1. /\ i + 1 \in Chunks /\ blocks'[i] = blocks[i + 1]
        /\ j + 1 \in DOMAIN blocks /\ blocks'[j] = blocks[j + 1]
        /\ i \in Nat /\ j \in Nat
    BY <1>1, ServedHead
  <2>2. i + 1 < j + 1
    BY <1>1, <2>1
  <2>3. blocks[i + 1].frame <= joined[d]
    BY <1>1, <2>1, <2>2 DEF StreamInv, FramesAheadOfHeader
  <2>4. QED
    BY <2>1, <2>3
<1>2. ASSUME NEW i \in Chunks', NEW j \in Chunks', i < j
      PROVE  blocks'[i].frame <= blocks'[j].frame
  <2>1. /\ i + 1 \in Chunks /\ blocks'[i] = blocks[i + 1]
        /\ j + 1 \in Chunks /\ blocks'[j] = blocks[j + 1]
        /\ i \in Nat /\ j \in Nat
    BY <1>2, ServedHead
  <2>2. i + 1 < j + 1
    BY <1>2, <2>1
  <2>3. QED
    BY <2>1, <2>2 DEF StreamInv, QueueInOrder
<1>3. QED
  BY <1>1, <1>2 DEF FramesAheadOfHeader

(* Writing a header takes the promise of one away from its client alone. *)
LEMMA WriteHeaderKeeps == TypeOK /\ StreamInv /\ WriteHeader => StreamInv'
<1> SUFFICES ASSUME TypeOK, StreamInv, WriteHeader PROVE StreamInv'
  OBVIOUS
<1> USE DEF socketVars, writeVars, mainVars
<1> DEFINE h == Head(blocks)
<1>1. /\ blocks # <<>> /\ blocks' = Tail(blocks) /\ h.kind = "header"
      /\ UNCHANGED <<link, connectedClients, activeClients, joined, captures>>
      /\ stream' = [stream EXCEPT ![h.client].header = @ \/ Writable(h.client)]
  BY DEF WriteHeader
<1>2. h \in Block /\ h = blocks[1] /\ h.client \in Client /\ h = HeaderBlock(h.client)
  BY <1>1, ServedHead, BlockFields
<1>3. \A c \in Client : /\ stream'[c].last = stream[c].last
                        /\ stream'[c].early = stream[c].early
                        /\ stream'[c].header =
                             IF c = h.client THEN stream[c].header \/ Writable(c)
                             ELSE stream[c].header
  BY <1>1, <1>2 DEF TypeOK, Stream
<1>4. \A i \in Chunks' : i + 1 \in Chunks /\ blocks'[i] = blocks[i + 1]
  BY <1>1, ServedHead
<1>5. NothingFromTheFuture'
  BY <1>1, <1>3, <1>4 DEF StreamInv, NothingFromTheFuture
<1>6. HeaderIsComing'
  <2> SUFFICES ASSUME NEW d \in connectedClients', Writable(d)', ~stream'[d].header
               PROVE  \E j \in DOMAIN blocks' : blocks'[j] = HeaderBlock(d)
    BY DEF HeaderIsComing
  <2>1. d \in connectedClients /\ Writable(d) /\ d \in Client
    BY <1>1 DEF Writable, TypeOK
  <2>2. d # h.client /\ ~stream[d].header
    BY <1>3, <2>1
  <2>3. PICK j \in DOMAIN blocks : blocks[j] = HeaderBlock(d)
    BY <2>1, <2>2 DEF StreamInv, HeaderIsComing
  <2>4. j # 1
    BY <1>2, <2>1, <2>2, <2>3, BlockFields
  <2>5. j - 1 \in DOMAIN blocks' /\ blocks'[j - 1] = blocks[j]
    BY <1>1, <2>4, ServedHead
  <2>6. QED
    BY <2>3, <2>5
<1>7. QueueInOrder'
  BY <1>1, <1>3, <1>4, ServedQueue DEF StreamInv, QueueInOrder
<1>8. ActiveAreConnected' /\ OnlyOlderFramesOvertakeHeader'
  BY <1>1, <1>3 DEF StreamInv, ActiveAreConnected, OnlyOlderFramesOvertakeHeader
<1>9. FramesAheadOfHeader'
  BY <1>1, ServedQueue
<1>10. QED
  BY <1>5, <1>6, <1>7, <1>8, <1>9 DEF StreamInv

(* A frame that reaches a client without a header is older than the client,  *)
(* because the client's header is still behind it in the queue.              *)
LEMMA WriteChunkKeeps ==
  ASSUME TypeOK, StreamInv, NEW encoded \in BOOLEAN, WriteChunk(encoded)
  PROVE  StreamInv' /\ \A c \in Client : stream'[c].last >= stream[c].last
<1> USE DEF socketVars, writeVars, mainVars
<1> DEFINE h == Head(blocks)
<1>1. /\ blocks # <<>> /\ blocks' = Tail(blocks) /\ h.kind = "chunk"
      /\ UNCHANGED <<link, connectedClients, activeClients, joined, captures>>
      /\ \A c \in Client : stream'[c] = IF encoded /\ c \in activeClients /\ Writable(c)
                                        THEN WithFrame(stream[c], h.frame) ELSE stream[c]
  BY DEF WriteChunk
<1>2. /\ h \in Block /\ h = blocks[1] /\ h.frame \in 0 .. MaxFrames /\ 1 \in Chunks
      /\ 1 \in DOMAIN blocks
  BY <1>1, ServedHead, BlockFields DEF Chunks
<1>3. \A c \in Client :
        \/ stream'[c] = stream[c]
        \/ /\ c \in activeClients /\ Writable(c)
           /\ stream'[c].last = h.frame
           /\ stream'[c].header = stream[c].header
           /\ stream'[c].early = IF stream[c].header THEN stream[c].early ELSE h.frame
  <2> SUFFICES ASSUME NEW c \in Client, encoded /\ c \in activeClients /\ Writable(c)
               PROVE  /\ stream'[c].last = h.frame
                      /\ stream'[c].header = stream[c].header
                      /\ stream'[c].early = IF stream[c].header THEN stream[c].early ELSE h.frame
    BY <1>1
  <2>1. stream[c] \in Stream
    BY DEF TypeOK
  <2>2. stream'[c] = WithFrame(stream[c], h.frame)
    BY <1>1
  <2>3. QED
    BY <1>2, <2>1, <2>2, WithFrameType
<1>4. \A i \in Chunks' : i + 1 \in Chunks /\ i + 1 > 1 /\ blocks'[i] = blocks[i + 1]
  <2>1. \A i \in Chunks' : i \in DOMAIN blocks' /\ i \in 1 .. Len(blocks')
    BY <1>1, ServedHead DEF Chunks, TypeOK
  <2>2. QED
    BY <1>1, <2>1, ServedHead
<1>5. \A c \in Client : stream[c].last <= h.frame /\ stream[c].last \in Nat
  BY <1>2 DEF StreamInv, QueueInOrder, TypeOK, Stream
<1>6. h.frame <= captures /\ \A i \in Chunks' : h.frame <= blocks'[i].frame
  BY <1>2, <1>4 DEF StreamInv, QueueInOrder, NothingFromTheFuture
<1>7. NothingFromTheFuture'
  BY <1>1, <1>3, <1>4, <1>6 DEF StreamInv, NothingFromTheFuture
<1>8. HeaderIsComing'
  <2> SUFFICES ASSUME NEW d \in connectedClients', Writable(d)', ~stream'[d].header
               PROVE  \E j \in DOMAIN blocks' : blocks'[j] = HeaderBlock(d)
    BY DEF HeaderIsComing
  <2>1. d \in connectedClients /\ Writable(d) /\ d \in Client /\ ~stream[d].header
    BY <1>1, <1>3 DEF Writable, TypeOK
  <2>2. PICK j \in DOMAIN blocks : blocks[j] = HeaderBlock(d)
    BY <2>1 DEF StreamInv, HeaderIsComing
  <2>3. j # 1
    BY <1>1, <1>2, <2>2 DEF HeaderBlock
  <2>4. j - 1 \in DOMAIN blocks' /\ blocks'[j - 1] = blocks[j]
    BY <1>1, <2>3, ServedHead
  <2>5. QED
    BY <2>2, <2>4
<1>9. QueueInOrder'
  <2>1. ASSUME NEW c \in Client, NEW i \in Chunks' PROVE stream'[c].last <= blocks'[i].frame
    BY <1>3, <1>4, <1>6 DEF StreamInv, QueueInOrder
  <2>2. QED
    BY <1>1, <2>1, ServedQueue DEF QueueInOrder
<1>10. OnlyOlderFramesOvertakeHeader'
  <2> SUFFICES ASSUME NEW c \in Client PROVE stream'[c].early <= joined[c]
    BY <1>1 DEF OnlyOlderFramesOvertakeHeader
  <2>1. CASE stream'[c].early = stream[c].early
    BY <2>1 DEF StreamInv, OnlyOlderFramesOvertakeHeader
  <2>2. CASE /\ c \in activeClients /\ Writable(c) /\ ~stream[c].header
             /\ stream'[c].early = h.frame
    <3>1. PICK j \in DOMAIN blocks : blocks[j] = HeaderBlock(c)
      BY <2>2 DEF StreamInv, HeaderIsComing, ActiveAreConnected
    <3>2. j \in Nat /\ j # 1 /\ j >= 1
      BY <1>1, <1>2, <3>1 DEF HeaderBlock, TypeOK
    <3>3. 1 < j
      BY <3>2
    <3>4. QED
      BY <1>2, <2>2, <3>1, <3>3 DEF StreamInv, FramesAheadOfHeader
  <2>3. QED
    BY <1>3, <2>1, <2>2
<1>11. FramesAheadOfHeader' /\ ActiveAreConnected'
  BY <1>1, ServedQueue DEF StreamInv, ActiveAreConnected
<1>12. \A c \in Client : stream'[c].last >= stream[c].last
  BY <1>2, <1>3, <1>5
<1>13. QED
  BY <1>7, <1>8, <1>9, <1>10, <1>11, <1>12 DEF StreamInv

(* A step that leaves queue and streams alone. *)
LEMMA QuietKeeps == TypeOK /\ StreamInv /\ Quiet => StreamInv'
<1> SUFFICES ASSUME TypeOK, StreamInv, Quiet PROVE StreamInv'
  OBVIOUS
<1>1. Chunks' = Chunks
  BY DEF Quiet, Chunks
<1>2. NothingFromTheFuture'
  <2>1. \A i \in Chunks : blocks[i].frame \in Nat
    BY BlockFields DEF Chunks, TypeOK
  <2>2. \A c \in Client : joined[c] \in Nat /\ stream[c].last \in Nat
    BY DEF TypeOK, Stream
  <2>3. captures \in Nat /\ captures' \in Nat
    BY DEF TypeOK, Quiet
  <2>4. QED
    BY <1>1, <2>1, <2>2, <2>3 DEF StreamInv, NothingFromTheFuture, Quiet
<1>3. FramesAheadOfHeader' /\ QueueInOrder' /\ OnlyOlderFramesOvertakeHeader'
  BY <1>1 DEF StreamInv, FramesAheadOfHeader, QueueInOrder, OnlyOlderFramesOvertakeHeader, Quiet
<1>4. HeaderIsComing' /\ ActiveAreConnected'
  BY DEF StreamInv, HeaderIsComing, ActiveAreConnected, Quiet
<1>5. QED
  BY <1>2, <1>3, <1>4 DEF StreamInv

LEMMA StreamStep == TypeOK /\ StreamInv /\ [Next]_vars => StreamInv'
BY StepKinds, QuietKeeps, DispatchKeeps, AcceptKeeps, WriteHeaderKeeps, WriteChunkKeeps
DEF StreamInv

LEMMA StreamInvariant == Spec => [](TypeOK /\ StreamInv)
BY InitType, TypeStep, InitStream, StreamStep, PTL DEF Spec

(* The only frames a client may see ahead of its header are those of         *)
(* screenshots asked for before the client was listed.                       *)
THEOREM HeadersAreOvertakenByOlderFramesOnly == Spec => []OnlyOlderFramesOvertakeHeader
<1>1. StreamInv => OnlyOlderFramesOvertakeHeader
  BY DEF StreamInv
<1>2. QED
  BY <1>1, StreamInvariant, PTL

(* No client ever sees the screen go back in time. *)
THEOREM FramesNeverGoBack == Spec => FramesInOrder
<1>1. TypeOK /\ StreamInv /\ [Next]_vars => [\A c \in Client : stream'[c].last >= stream[c].last]_vars
  <2> SUFFICES ASSUME TypeOK, StreamInv, [Next]_vars
               PROVE  \A c \in Client : stream'[c].last >= stream[c].last
    OBVIOUS
  <2>1. \A c \in Client : stream[c].last \in Nat
    BY DEF TypeOK, Stream
  <2>2. CASE Quiet \/ Dispatches
    BY <2>1, <2>2 DEF Quiet, Dispatches
  <2>3. CASE \E c \in Client : DidAcceptNewSocket(c)
    BY <2>1, <2>3 DEF DidAcceptNewSocket
  <2>4. CASE WriteHeader
    <3>1. \A c \in Client : stream'[c].last = stream[c].last
      BY <2>4 DEF WriteHeader, TypeOK, Stream
    <3>2. QED
      BY <2>1, <3>1
  <2>5. CASE \E encoded \in BOOLEAN : WriteChunk(encoded)
    BY <2>5, WriteChunkKeeps
  <2>6. QED
    BY <2>2, <2>3, <2>4, <2>5, StepKinds DEF StreamInv
<1>2. QED
  BY <1>1, StreamInvariant, PTL DEF Spec, FramesInOrder

-----------------------------------------------------------------------------
(* Lists and connections *)

Said(kind, c) == [kind |-> kind, client |-> c]

(* A callback says one thing of one client. *)
LEMMA SaidOnce ==
  /\ \A k, l, c, d : Said(k, c) = Said(l, d) <=> k = l /\ c = d
  /\ \A c, d : Said("connect", c) # Said("disconnect", d)
BY DEF Said

(* The orders in which stop may meet the clients: each of them once. *)
LEMMA EachOnce ==
  ASSUME NEW S \in SUBSET Client, NEW order \in SetToSeqs(S)
  PROVE  /\ Cardinality(S) \in Nat
         /\ order \in [1 .. Cardinality(S) -> S]
         /\ \A i, j \in 1 .. Cardinality(S) : order[i] = order[j] => i = j
         /\ \A c \in S : \E i \in 1 .. Cardinality(S) : order[i] = c
<1> DEFINE n == Cardinality(S)
<1>1. IsFiniteSet(S) /\ n \in Nat
  BY MjpegAssumption, FS_Subset, FS_CardinalityType
<1>2. order \in [1 .. n -> S] /\ \A i, j \in 1 .. n : order[i] = order[j] => i = j
  BY DEF SetToSeqs
<1>3. IsFiniteSet(1 .. n) /\ Cardinality(1 .. n) = n
  <2> HIDE DEF n
  <2>1. QED
    BY <1>1, FS_Interval
<1>4. order \in Injection(1 .. n, S)
  BY <1>2 DEF Injection, IsInjective
<1>5. order \in Surjection(1 .. n, S)
  BY <1>1, <1>3, <1>4, FS_Injection
<1>6. QED
  BY <1>1, <1>2, <1>5 DEF Surjection

LEMMA InitLists == Init => ListsInv
BY DEF Init, ListsInv, CallbacksInOrder, ListedInBetween, ActiveFollow, Queued

(* The head of the queue is served: what was said of others is still to be   *)
(* said, what it said is not, and the rest keeps its order.                  *)
LEMMA ServedCallback ==
  ASSUME TypeOK, CallbacksInOrder, NEW k \in {"connect", "disconnect"}, NEW c \in Client,
         NextCallback(k, c)
  PROVE  /\ CallbacksInOrder'
         /\ Queued(k, c) /\ ~Queued(k, c)'
         /\ \A l, d : Said(l, d) # Said(k, c) => (Queued(l, d)' <=> Queued(l, d))
         /\ k = "disconnect" => ~Queued("connect", c)
<1>1. /\ callbacks \in Seq(Callback) /\ callbacks # <<>> /\ callbacks' = Tail(callbacks)
      /\ Head(callbacks) = Said(k, c)
  BY DEF TypeOK, NextCallback, Said
<1>2. /\ callbacks[1] = Said(k, c) /\ 1 \in DOMAIN callbacks
      /\ \A i \in DOMAIN callbacks' : i \in Nat /\ i + 1 \in DOMAIN callbacks
                                      /\ callbacks'[i] = callbacks[i + 1]
      /\ \A i \in DOMAIN callbacks :
           i = 1 \/ (i - 1 \in DOMAIN callbacks' /\ callbacks'[i - 1] = callbacks[i])
  BY <1>1, TailOf
<1>3. CallbacksInOrder'
  <2>1. ASSUME NEW i \in DOMAIN callbacks', NEW j \in DOMAIN callbacks',
               callbacks'[i] = callbacks'[j]
        PROVE  i = j
    <3>1. i + 1 = j + 1
      BY <1>2, <2>1 DEF CallbacksInOrder
    <3>2. i \in Nat /\ j \in Nat
      BY <1>2
    <3>3. QED
      BY <3>1, <3>2
  <2>2. ASSUME NEW d \in Client, NEW i \in DOMAIN callbacks', NEW j \in DOMAIN callbacks',
               callbacks'[i] = Said("connect", d), callbacks'[j] = Said("disconnect", d)
        PROVE  i < j
    <3>1. i + 1 < j + 1
      BY <1>2, <2>2 DEF CallbacksInOrder, Said
    <3>2. i \in Nat /\ j \in Nat
      BY <1>2
    <3>3. QED
      BY <3>1, <3>2
  <2>3. QED
    BY <2>1, <2>2 DEF CallbacksInOrder, Said
<1>4. Queued(k, c) /\ ~Queued(k, c)'
  <2>1. ASSUME NEW i \in DOMAIN callbacks', callbacks'[i] = Said(k, c) PROVE FALSE
    <3>1. i + 1 = 1
      BY <1>2, <2>1 DEF CallbacksInOrder
    <3>2. callbacks' \in Seq(Callback)
      BY <1>1, TailOf
    <3>3. i \in Nat \ {0}
      BY <3>2
    <3>4. QED
      BY <3>1, <3>3
  <2>2. QED
    BY <1>2, <2>1 DEF Queued, Said
<1>5. ASSUME NEW l, NEW d, Said(l, d) # Said(k, c)
      PROVE  Queued(l, d)' <=> Queued(l, d)
  <2>1. ASSUME NEW i \in DOMAIN callbacks', callbacks'[i] = Said(l, d) PROVE Queued(l, d)
    BY <1>2, <2>1 DEF Queued, Said
  <2>2. ASSUME NEW i \in DOMAIN callbacks, callbacks[i] = Said(l, d) PROVE Queued(l, d)'
    BY <1>2, <1>5, <2>2 DEF Queued, Said
  <2>3. QED
    BY <2>1, <2>2 DEF Queued, Said
<1>6. ASSUME k = "disconnect", NEW i \in DOMAIN callbacks, callbacks[i] = Said("connect", c)
      PROVE  FALSE
  <2>1. i < 1
    BY <1>2, <1>6 DEF CallbacksInOrder, Said
  <2>2. i \in Nat \ {0}
    BY <1>1
  <2>3. QED
    BY <2>1, <2>2
<1>7. QED
  BY <1>3, <1>4, <1>5, <1>6 DEF Queued, Said

(* A callback joins the queue.  It is a new one, and unless it is a          *)
(* disconnect, its client's disconnect is not queued yet.                    *)
LEMMA QueuedCallback ==
  ASSUME TypeOK, CallbacksInOrder, NEW k \in {"connect", "disconnect"}, NEW c \in Client,
         ~Queued(k, c), k = "connect" => ~Queued("disconnect", c),
         callbacks' = Append(callbacks, Said(k, c))
  PROVE  /\ CallbacksInOrder'
         /\ \A l, d : Queued(l, d)' <=> Queued(l, d) \/ Said(l, d) = Said(k, c)
<1>1. callbacks \in Seq(Callback) /\ Said(k, c) \in Callback
  BY DEF TypeOK, Callback, Said
<1> DEFINE n == Len(callbacks) + 1
<1>2. /\ \A i \in DOMAIN callbacks : i \in DOMAIN callbacks' /\ callbacks'[i] = callbacks[i]
                                     /\ i < n
      /\ \A i \in DOMAIN callbacks' :
           \/ i \in DOMAIN callbacks /\ callbacks'[i] = callbacks[i] /\ i < n
           \/ i = n /\ callbacks'[i] = Said(k, c)
      /\ n \in DOMAIN callbacks' /\ callbacks'[n] = Said(k, c)
  BY <1>1, AppendTo
<1>3. \A i \in DOMAIN callbacks : callbacks[i] # Said(k, c)
  BY DEF Queued, Said
<1>4. \A i, j \in DOMAIN callbacks' : callbacks'[i] = callbacks'[j] => i = j
  BY <1>2, <1>3 DEF CallbacksInOrder
<1>5. ASSUME NEW d \in Client, NEW i \in DOMAIN callbacks', NEW j \in DOMAIN callbacks',
             callbacks'[i] = Said("connect", d), callbacks'[j] = Said("disconnect", d)
      PROVE  i < j
  <2>1. CASE i \in DOMAIN callbacks /\ j \in DOMAIN callbacks
    BY <1>2, <1>5, <2>1 DEF CallbacksInOrder, Said
  <2>2. CASE i = n /\ j # n
    <3>1. Said(k, c) = Said("connect", d) /\ j \in DOMAIN callbacks
          /\ callbacks[j] = Said("disconnect", d)
      BY <1>2, <1>5, <2>2
    <3>2. QED
      BY <3>1, SaidOnce DEF Queued, Said
  <2>3. CASE i # n /\ j = n
    BY <1>2, <2>3
  <2>4. CASE i = n /\ j = n
    BY <1>5, <2>4, SaidOnce
  <2>5. QED
    BY <1>2, <2>1, <2>2, <2>3, <2>4
<1>6. CallbacksInOrder'
  BY <1>4, <1>5 DEF CallbacksInOrder, Said
<1>7. \A l, d : Queued(l, d)' <=> Queued(l, d) \/ Said(l, d) = Said(k, c)
  BY <1>2 DEF Queued, Said
<1>8. QED
  BY <1>6, <1>7

(* stop queues the end of each connection it closes, behind everything. *)
LEMMA StoppedCallbacks ==
  ASSUME TypeOK, CallbacksInOrder, NEW S \in SUBSET Client, NEW order \in SetToSeqs(S),
         \A c \in S : ~Queued("disconnect", c),
         callbacks' = callbacks \o [i \in DOMAIN order |-> Said("disconnect", order[i])]
  PROVE  /\ CallbacksInOrder'
         /\ \A l, d : Queued(l, d)' <=> Queued(l, d) \/ (l = "disconnect" /\ d \in S)
<1> DEFINE n == Cardinality(S)
           m == Len(callbacks)
           ends == [i \in DOMAIN order |-> Said("disconnect", order[i])]
<1>1. n \in Nat
  BY EachOnce
<1>2. /\ order \in [1 .. n -> S]
      /\ \A i, j \in 1 .. n : order[i] = order[j] => i = j
      /\ \A c \in S : \E i \in 1 .. n : order[i] = c
  BY EachOnce
<1>3. callbacks \in Seq(Callback) /\ m \in Nat /\ DOMAIN callbacks = 1 .. m
  BY DEF TypeOK
<1>4. ends \in Seq(Callback) /\ Len(ends) = n /\ DOMAIN ends = 1 .. n
      /\ \A i \in 1 .. n : ends[i] = Said("disconnect", order[i])
  <2>1. \A i \in 1 .. n : Said("disconnect", order[i]) \in Callback
    BY <1>2 DEF Said, Callback
  <2>2. QED
    BY <1>1, <1>2, <2>1
<1> HIDE DEF ends
<1>5. /\ DOMAIN callbacks' = 1 .. m + n
      /\ \A i \in 1 .. m : callbacks'[i] = callbacks[i]
      /\ \A i \in 1 .. n : callbacks'[m + i] = Said("disconnect", order[i])
  <2>1. callbacks' = callbacks \o ends
    BY DEF ends
  <2>2. QED
    BY <1>1, <1>3, <1>4, <2>1
<1> HIDE DEF n, m
<1>6. \A i \in 1 .. m + n : i \in 1 .. m \/ (i - m \in 1 .. n /\ i = m + (i - m) /\ i > m)
  BY <1>1, <1>3
<1>7. \A i \in 1 .. m + n :
        \/ i \in 1 .. m /\ callbacks'[i] = callbacks[i]
        \/ \E x \in 1 .. n : /\ i = m + x /\ i > m /\ order[x] \in S
                            /\ callbacks'[i] = Said("disconnect", order[x])
  <2> SUFFICES ASSUME NEW i \in 1 .. m + n, i \notin 1 .. m
               PROVE  \E x \in 1 .. n : /\ i = m + x /\ i > m /\ order[x] \in S
                                       /\ callbacks'[i] = Said("disconnect", order[x])
    BY <1>5
  <2>1. i - m \in 1 .. n /\ i = m + (i - m) /\ i > m
    BY <1>6
  <2>2. PICK x \in 1 .. n : i = m + x
    BY <2>1
  <2>3. order[x] \in S
    BY <1>2
  <2>4. QED
    BY <1>5, <2>1, <2>2, <2>3
<1>8. \A c \in S, i \in 1 .. m : callbacks[i] # Said("disconnect", c)
  BY <1>3 DEF Queued, Said
<1>9. ASSUME NEW i \in 1 .. m + n, NEW j \in 1 .. m + n, callbacks'[i] = callbacks'[j]
      PROVE  i = j
  <2>1. CASE i \in 1 .. m /\ j \in 1 .. m
    BY <1>3, <1>5, <1>9, <2>1 DEF CallbacksInOrder
  <2>2. CASE i > m /\ j > m
    <3>1. i \notin 1 .. m /\ j \notin 1 .. m
      BY <1>3, <2>2
    <3>2. PICK x \in 1 .. n : i = m + x /\ callbacks'[i] = Said("disconnect", order[x])
      BY <1>7, <3>1
    <3>3. PICK y \in 1 .. n : j = m + y /\ callbacks'[j] = Said("disconnect", order[y])
      BY <1>7, <3>1
    <3>4. order[x] = order[y]
      <4>1. \A c : Said("disconnect", c).client = c
        BY DEF Said
      <4>2. Said("disconnect", order[x]) = Said("disconnect", order[y])
        BY <1>9, <3>2, <3>3
      <4>3. QED
        BY <4>1, <4>2
    <3>5. QED
      BY <1>2, <3>2, <3>3, <3>4
  <2>3. CASE i \in 1 .. m /\ j > m
    <3>1. j \notin 1 .. m
      BY <1>3, <2>3
    <3>2. PICK y \in 1 .. n : order[y] \in S /\ callbacks'[j] = Said("disconnect", order[y])
      BY <1>7, <3>1
    <3>3. callbacks[i] = Said("disconnect", order[y])
      BY <1>5, <1>9, <2>3, <3>2
    <3>4. QED
      BY <1>8, <2>3, <3>2, <3>3
  <2>4. CASE i > m /\ j \in 1 .. m
    <3>1. i \notin 1 .. m
      BY <1>3, <2>4
    <3>2. PICK x \in 1 .. n : order[x] \in S /\ callbacks'[i] = Said("disconnect", order[x])
      BY <1>7, <3>1
    <3>3. callbacks[j] = Said("disconnect", order[x])
      BY <1>5, <1>9, <2>4, <3>2
    <3>4. QED
      BY <1>8, <2>4, <3>2, <3>3
  <2>5. QED
    BY <1>6, <2>1, <2>2, <2>3, <2>4
<1>10. ASSUME NEW d \in Client, NEW i \in 1 .. m + n, NEW j \in 1 .. m + n,
              callbacks'[i] = Said("connect", d), callbacks'[j] = Said("disconnect", d)
       PROVE  i < j
  <2>1. i \in 1 .. m /\ callbacks[i] = Said("connect", d)
    <3>1. \A x : callbacks'[i] # Said("disconnect", x)
      BY <1>10, SaidOnce
    <3>2. QED
      BY <1>7, <1>10, <3>1
  <2>2. CASE j > m
    BY <1>3, <2>1, <2>2
  <2>3. CASE j \in 1 .. m
    BY <1>3, <1>5, <1>10, <2>1, <2>3 DEF CallbacksInOrder, Said
  <2>4. QED
    BY <1>6, <2>2, <2>3
<1>11. CallbacksInOrder'
  BY <1>5, <1>9, <1>10 DEF CallbacksInOrder, Said
<1>12. ASSUME NEW l, NEW d
       PROVE  Queued(l, d)' <=> Queued(l, d) \/ (l = "disconnect" /\ d \in S)
  <2>1. ASSUME NEW i \in 1 .. m + n, callbacks'[i] = Said(l, d)
        PROVE  Queued(l, d) \/ (l = "disconnect" /\ d \in S)
    <3>1. CASE i \in 1 .. m /\ callbacks'[i] = callbacks[i]
      BY <1>3, <2>1, <3>1 DEF Queued, Said
    <3>2. CASE \E x \in 1 .. n : order[x] \in S /\ callbacks'[i] = Said("disconnect", order[x])
      <4>1. PICK x \in 1 .. n : order[x] \in S /\ callbacks'[i] = Said("disconnect", order[x])
        BY <3>2
      <4>2. l = "disconnect" /\ d = order[x]
        <5>1. Said(l, d).kind = l /\ Said(l, d).client = d
          BY DEF Said
        <5>2. /\ Said("disconnect", order[x]).kind = "disconnect"
              /\ Said("disconnect", order[x]).client = order[x]
          BY DEF Said
        <5>3. QED
          BY <2>1, <4>1, <5>1, <5>2
      <4>3. QED
        BY <4>1, <4>2
    <3>3. QED
      BY <1>7, <3>1, <3>2
  <2>2. ASSUME NEW i \in 1 .. m, callbacks[i] = Said(l, d) PROVE Queued(l, d)'
    <3>1. i \in 1 .. m + n /\ callbacks'[i] = Said(l, d)
      BY <1>1, <1>3, <1>5, <2>2
    <3>2. QED
      BY <1>5, <3>1 DEF Queued, Said
  <2>3. ASSUME l = "disconnect", d \in S PROVE Queued(l, d)'
    <3>1. PICK i \in 1 .. n : order[i] = d
      BY <1>2, <2>3
    <3>2. m + i \in 1 .. m + n /\ callbacks'[m + i] = Said(l, d)
      BY <1>1, <1>3, <1>5, <2>3, <3>1
    <3>3. QED
      BY <1>5, <3>2 DEF Queued, Said
  <2>4. QED
    BY <1>3, <1>5, <2>1, <2>2, <2>3 DEF Queued, Said
<1>13. QED
  BY <1>11, <1>12

(* Most steps leave connections, lists and callbacks alone. *)
LEMMA ListsStep == TypeOK /\ ListsInv /\ [Next]_vars => ListsInv'
<1> SUFFICES ASSUME TypeOK, ListsInv, [Next]_vars PROVE ListsInv'
  OBVIOUS
<1> USE DEF socketVars, writeVars, mainVars
<1>0. connectedClients \subseteq Client /\ link \in [Client -> {"away", "open", "closed"}]
      /\ NoClient \notin Client
  BY MjpegAssumption DEF TypeOK
<1>1. ASSUME UNCHANGED <<link, callbacks, connectedClients, joining, activeClients>>
      PROVE  ListsInv'
  BY <1>1 DEF ListsInv, CallbacksInOrder, ListedInBetween, ActiveFollow, Queued
<1>2. ASSUME NEW c \in Client, Connect(c) PROVE ListsInv'
  <2>1. ~Queued("connect", c) /\ ~Queued("disconnect", c) /\ c \notin connectedClients
    BY <1>2 DEF Connect, ListsInv, ListedInBetween
  <2>2. callbacks' = Append(callbacks, Said("connect", c))
    BY <1>2 DEF Connect, Said
  <2>3. CallbacksInOrder' /\ \A l, d : Queued(l, d)' <=>
                                         Queued(l, d) \/ Said(l, d) = Said("connect", c)
    BY <2>1, <2>2, QueuedCallback DEF ListsInv
  <2>4. \A d \in Client : link'[d] = IF d = c THEN "open" ELSE link[d]
    BY <1>0, <1>2 DEF Connect
  <2>5. ListedInBetween'
    BY <1>2, <2>1, <2>3, <2>4, SaidOnce DEF Connect, ListsInv, ListedInBetween
  <2>6. ActiveFollow'
    BY <1>2 DEF Connect, ListsInv, ActiveFollow
  <2>7. QED
    BY <2>3, <2>5, <2>6 DEF ListsInv
<1>3. ASSUME NEW c \in Client, Disconnect(c) PROVE ListsInv'
  <2>1. ~Queued("disconnect", c)
    BY <1>3 DEF Disconnect, ListsInv, ListedInBetween
  <2>2. callbacks' = Append(callbacks, Said("disconnect", c))
    BY <1>3 DEF Disconnect, Said
  <2>3. CallbacksInOrder' /\ \A l, d : Queued(l, d)' <=>
                                         Queued(l, d) \/ Said(l, d) = Said("disconnect", c)
    BY <2>1, <2>2, QueuedCallback DEF ListsInv
  <2>4. \A d \in Client : link'[d] = IF d = c THEN "closed" ELSE link[d]
    BY <1>0, <1>3 DEF Disconnect
  <2>5. ListedInBetween'
    BY <1>3, <2>1, <2>3, <2>4, SaidOnce DEF Disconnect, ListsInv, ListedInBetween
  <2>6. ActiveFollow'
    BY <1>3 DEF Disconnect, ListsInv, ActiveFollow
  <2>7. QED
    BY <2>3, <2>5, <2>6 DEF ListsInv
<1>4. ASSUME NEW c \in Client, DidAcceptNewSocket(c) PROVE ListsInv'
  <2>1. /\ NextCallback("connect", c) /\ link' = link /\ joining' = c
        /\ connectedClients' = connectedClients \cup {c}
    BY <1>4 DEF DidAcceptNewSocket
  <2>2. /\ CallbacksInOrder' /\ Queued("connect", c) /\ ~Queued("connect", c)'
        /\ \A l, d : Said(l, d) # Said("connect", c) => (Queued(l, d)' <=> Queued(l, d))
    BY <2>1, ServedCallback DEF ListsInv
  <2>3. ListedInBetween'
    BY <2>1, <2>2, SaidOnce DEF ListsInv, ListedInBetween
  <2>4. QED
    BY <1>0, <2>1, <2>2, <2>3 DEF ListsInv, ActiveFollow
<1>5. ASSUME NEW c \in Client, SocketDidDisconnect(c) PROVE ListsInv'
  <2>1. /\ NextCallback("disconnect", c) /\ link' = link /\ joining' = joining
        /\ connectedClients' = connectedClients \ {c} /\ activeClients' = connectedClients'
    BY <1>5 DEF SocketDidDisconnect
  <2>2. /\ CallbacksInOrder' /\ Queued("disconnect", c) /\ ~Queued("disconnect", c)'
        /\ \A l, d : Said(l, d) # Said("disconnect", c) => (Queued(l, d)' <=> Queued(l, d))
        /\ ~Queued("connect", c)
    BY <2>1, ServedCallback DEF ListsInv
  <2>3. ListedInBetween'
    BY <2>1, <2>2, SaidOnce DEF ListsInv, ListedInBetween
  <2>4. QED
    BY <2>1, <2>2, <2>3 DEF ListsInv, ActiveFollow
<1>6. ASSUME DidClientConnect PROVE ListsInv'
  <2>1. CallbacksInOrder' /\ ListedInBetween'
    BY <1>6 DEF DidClientConnect, ListsInv, CallbacksInOrder, ListedInBetween, Queued
  <2>2. QED
    BY <1>6, <2>1 DEF DidClientConnect, ListsInv, ActiveFollow
<1>7. ASSUME StopClients PROVE ListsInv'
  <2> DEFINE stopped == {c \in connectedClients : link[c] = "open"}
  <2>1. PICK order \in SetToSeqs(stopped) :
          callbacks' = callbacks \o [i \in DOMAIN order |-> Said("disconnect", order[i])]
    BY <1>7 DEF StopClients, Said
  <2>2. stopped \in SUBSET Client /\ \A c \in stopped : ~Queued("disconnect", c)
    BY <1>0 DEF ListsInv, ListedInBetween
  <2>3. CallbacksInOrder' /\ \A l, d : Queued(l, d)' <=>
                                         Queued(l, d) \/ (l = "disconnect" /\ d \in stopped)
    BY <2>1, <2>2, StoppedCallbacks DEF ListsInv
  <2>4. \A c \in Client : link'[c] = IF c \in stopped THEN "closed" ELSE link[c]
    BY <1>7 DEF StopClients
  <2>5. UNCHANGED <<connectedClients, joining, activeClients>>
    BY <1>7 DEF StopClients
  <2>6. ListedInBetween'
    BY <1>0, <2>3, <2>4, <2>5 DEF ListsInv, ListedInBetween
  <2>7. QED
    BY <2>3, <2>5, <2>6 DEF ListsInv, ActiveFollow
<1>8. CASE StreamScreenshot \/ Wake \/ DispatchChunk \/ StopListening \/ WriteHeader
  BY <1>1, <1>8 DEF StreamScreenshot, Wake, DispatchChunk, StopListening, WriteHeader
<1>9. ASSUME NEW measured \in BOOLEAN, RefreshScreenRect(measured) PROVE ListsInv'
  BY <1>1, <1>9 DEF RefreshScreenRect
<1>10. ASSUME NEW answer \in {"data", "nil"}, Reply(answer) PROVE ListsInv'
  BY <1>1, <1>10 DEF Reply
<1>11. ASSUME NEW encoded \in BOOLEAN, WriteChunk(encoded) PROVE ListsInv'
  BY <1>1, <1>11 DEF WriteChunk
<1>12. CASE UNCHANGED vars
  BY <1>1, <1>12 DEF vars
<1>13. QED
  BY <1>2, <1>3, <1>4, <1>5, <1>6, <1>7, <1>8, <1>9, <1>10, <1>11, <1>12
  DEF Next, DelegateStep, BackgroundStep, MainStep

(* Once the callbacks have run, both lists hold the open connections. *)
THEOREM ListsAreTheConnections == Spec => []ListsFollowConnections
<1>1. TypeOK /\ ListsInv => ListsFollowConnections
  <2> SUFFICES ASSUME TypeOK, ListsInv, callbacks = <<>>, joining = NoClient
               PROVE  /\ connectedClients = {c \in Client : link[c] = "open"}
                      /\ activeClients = connectedClients
    BY DEF ListsFollowConnections
  <2>1. \A k, c : ~Queued(k, c)
    BY DEF Queued
  <2>2. \A c \in Client : c \in connectedClients <=> link[c] = "open"
    BY <2>1 DEF ListsInv, ListedInBetween, TypeOK
  <2>3. QED
    BY <2>2 DEF ListsInv, ActiveFollow, TypeOK
<1>2. QED
  BY <1>1, InitType, TypeStep, InitLists, ListsStep, PTL DEF Spec

-----------------------------------------------------------------------------
(* One stream *)

(* A client becomes one of the admitted when its connect callback runs, and  *)
(* stays one.                                                                *)
LEMMA AdmittedStep ==
  TypeOK /\ ListsInv /\ [Next]_vars =>
    \/ Admitted' = Admitted
    \/ \E c \in Client : /\ DidAcceptNewSocket(c)
                         /\ c \notin Admitted /\ link[c] # "away"
                         /\ Admitted' = Admitted \cup {c}
<1> SUFFICES ASSUME TypeOK, ListsInv, [Next]_vars
             PROVE  \/ Admitted' = Admitted
                    \/ \E c \in Client : /\ DidAcceptNewSocket(c)
                                         /\ c \notin Admitted /\ link[c] # "away"
                                         /\ Admitted' = Admitted \cup {c}
  OBVIOUS
<1> USE DEF socketVars, writeVars, mainVars
<1>0. link \in [Client -> {"away", "open", "closed"}]
  BY DEF TypeOK
<1>1. ASSUME UNCHANGED <<link, callbacks>> PROVE Admitted' = Admitted
  BY <1>1 DEF Admitted, Queued
<1>2. ASSUME NEW c \in Client, Connect(c) PROVE Admitted' = Admitted
  <2>1. ~Queued("connect", c) /\ ~Queued("disconnect", c)
    BY <1>2 DEF Connect, ListsInv, ListedInBetween
  <2>2. callbacks' = Append(callbacks, Said("connect", c))
    BY <1>2 DEF Connect, Said
  <2>3. \A l, d : Queued(l, d)' <=> Queued(l, d) \/ Said(l, d) = Said("connect", c)
    BY <2>1, <2>2, QueuedCallback DEF ListsInv
  <2>4. \A d \in Client : link'[d] = IF d = c THEN "open" ELSE link[d]
    BY <1>0, <1>2 DEF Connect
  <2>5. link[c] = "away"
    BY <1>2 DEF Connect
  <2>6. \A d \in Client : d \in Admitted' <=> d \in Admitted
    BY <2>1, <2>3, <2>4, <2>5, SaidOnce DEF Admitted
  <2>7. QED
    BY <2>6 DEF Admitted
<1>3. ASSUME NEW c \in Client, Disconnect(c) PROVE Admitted' = Admitted
  <2>1. ~Queued("disconnect", c)
    BY <1>3 DEF Disconnect, ListsInv, ListedInBetween
  <2>2. callbacks' = Append(callbacks, Said("disconnect", c))
    BY <1>3 DEF Disconnect, Said
  <2>3. \A l, d : Queued(l, d)' <=> Queued(l, d) \/ Said(l, d) = Said("disconnect", c)
    BY <2>1, <2>2, QueuedCallback DEF ListsInv
  <2>4. \A d \in Client : link'[d] = IF d = c THEN "closed" ELSE link[d]
    BY <1>0, <1>3 DEF Disconnect
  <2>5. link[c] = "open"
    BY <1>3 DEF Disconnect
  <2>6. \A d \in Client : d \in Admitted' <=> d \in Admitted
    BY <2>3, <2>4, <2>5, SaidOnce DEF Admitted
  <2>7. QED
    BY <2>6 DEF Admitted
<1>4. ASSUME NEW c \in Client, DidAcceptNewSocket(c)
      PROVE  c \notin Admitted /\ link[c] # "away" /\ Admitted' = Admitted \cup {c}
  <2>1. NextCallback("connect", c) /\ link' = link
    BY <1>4 DEF DidAcceptNewSocket
  <2>2. /\ Queued("connect", c) /\ ~Queued("connect", c)'
        /\ \A l, d : Said(l, d) # Said("connect", c) => (Queued(l, d)' <=> Queued(l, d))
    BY <2>1, ServedCallback DEF ListsInv
  <2>3. link[c] # "away"
    BY <2>2 DEF ListsInv, ListedInBetween
  <2>4. c \notin Admitted
    BY <2>2 DEF Admitted
  <2>5. \A d \in Client : d \in Admitted' <=> d \in Admitted \/ d = c
    BY <2>1, <2>2, <2>3, SaidOnce DEF Admitted
  <2>6. QED
    BY <2>3, <2>4, <2>5 DEF Admitted
<1>5. ASSUME NEW c \in Client, SocketDidDisconnect(c) PROVE Admitted' = Admitted
  <2>1. NextCallback("disconnect", c) /\ link' = link
    BY <1>5 DEF SocketDidDisconnect
  <2>2. \A l, d : Said(l, d) # Said("disconnect", c) => (Queued(l, d)' <=> Queued(l, d))
    BY <2>1, ServedCallback DEF ListsInv
  <2>3. \A d \in Client : d \in Admitted' <=> d \in Admitted
    BY <2>1, <2>2, SaidOnce DEF Admitted
  <2>4. QED
    BY <2>3 DEF Admitted
<1>6. ASSUME StopClients PROVE Admitted' = Admitted
  <2> DEFINE stopped == {c \in connectedClients : link[c] = "open"}
  <2>1. PICK order \in SetToSeqs(stopped) :
          callbacks' = callbacks \o [i \in DOMAIN order |-> Said("disconnect", order[i])]
    BY <1>6 DEF StopClients, Said
  <2>2. stopped \in SUBSET Client /\ \A c \in stopped : ~Queued("disconnect", c)
    BY DEF ListsInv, ListedInBetween, TypeOK
  <2>3. \A l, d : Queued(l, d)' <=> Queued(l, d) \/ (l = "disconnect" /\ d \in stopped)
    BY <2>1, <2>2, StoppedCallbacks DEF ListsInv
  <2>4. \A c \in Client : link'[c] = IF c \in stopped THEN "closed" ELSE link[c]
    BY <1>6 DEF StopClients
  <2>5. \A c \in Client : c \in Admitted' <=> c \in Admitted
    BY <2>3, <2>4 DEF Admitted
  <2>6. QED
    BY <2>5 DEF Admitted
<1>7. CASE DidClientConnect \/ StreamScreenshot \/ Wake \/ DispatchChunk \/ StopListening
           \/ WriteHeader
  BY <1>1, <1>7 DEF DidClientConnect, StreamScreenshot, Wake, DispatchChunk, StopListening,
                    WriteHeader
<1>8. ASSUME NEW measured \in BOOLEAN, RefreshScreenRect(measured) PROVE Admitted' = Admitted
  BY <1>1, <1>8 DEF RefreshScreenRect
<1>9. ASSUME NEW answer \in {"data", "nil"}, Reply(answer) PROVE Admitted' = Admitted
  BY <1>1, <1>9 DEF Reply
<1>10. ASSUME NEW encoded \in BOOLEAN, WriteChunk(encoded) PROVE Admitted' = Admitted
  BY <1>1, <1>10 DEF WriteChunk
<1>11. CASE UNCHANGED vars
  BY <1>1, <1>11 DEF vars
<1>12. QED
  BY <1>2, <1>3, <1>4, <1>5, <1>6, <1>7, <1>8, <1>9, <1>10, <1>11
  DEF Next, DelegateStep, BackgroundStep, MainStep

PromiseInv == TypeOK /\ StreamInv /\ ListsInv /\ HeadersOfAdmitted /\ FramesAreNumbered

LEMMA InitPromise == Init => PromiseInv
<1> SUFFICES ASSUME Init PROVE PromiseInv
  OBVIOUS
<1>1. blocks = <<>> /\ mainPc = "idle"
  BY DEF Init
<1>2. HeadersOfAdmitted /\ FramesAreNumbered
  BY <1>1 DEF HeadersOfAdmitted, FramesAreNumbered, Chunks
<1>3. QED
  BY <1>2, InitType, InitStream, InitLists DEF PromiseInv

(* A header waits only for a client that was admitted. *)
LEMMA HeadersStep == PromiseInv /\ [Next]_vars => HeadersOfAdmitted'
<1> SUFFICES ASSUME PromiseInv, [Next]_vars,
                    NEW j \in DOMAIN blocks', NEW d \in Client, blocks'[j] = HeaderBlock(d)
             PROVE  d \in Admitted'
  BY DEF HeadersOfAdmitted
<1>1. blocks \in Seq(Block) /\ \A e \in Client : e \in Admitted => e \in Admitted'
  BY AdmittedStep DEF PromiseInv, TypeOK
<1>2. ASSUME \E i \in DOMAIN blocks : blocks[i] = HeaderBlock(d) PROVE d \in Admitted'
  BY <1>1, <1>2 DEF PromiseInv, HeadersOfAdmitted
<1>3. CASE Quiet
  BY <1>2, <1>3 DEF Quiet
<1>4. CASE Dispatches
  <2>1. ChunkBlock(captures) \in Block
    BY MjpegAssumption DEF PromiseInv, TypeOK, Block
  <2>2. ChunkBlock(captures) # HeaderBlock(d)
    BY DEF ChunkBlock, HeaderBlock
  <2>3. QED
    BY <1>1, <1>2, <1>4, <2>1, <2>2, AppendTo DEF Dispatches
<1>5. CASE WriteHeader \/ \E encoded \in BOOLEAN : WriteChunk(encoded)
  <2>1. blocks # <<>> /\ blocks' = Tail(blocks)
    BY <1>5 DEF WriteHeader, WriteChunk
  <2>2. j + 1 \in DOMAIN blocks /\ blocks[j + 1] = HeaderBlock(d)
    BY <2>1, ServedHead DEF PromiseInv
  <2>3. QED
    BY <1>2, <2>2
<1>6. ASSUME NEW c \in Client, DidAcceptNewSocket(c) PROVE d \in Admitted'
  <2>1. blocks' = Append(blocks, HeaderBlock(c)) /\ HeaderBlock(c) \in Block
    BY <1>6 DEF DidAcceptNewSocket, Block
  <2>2. HeaderBlock(c) = HeaderBlock(d) => c = d
    BY DEF HeaderBlock
  <2>3. c \in Admitted'
    <3>1. /\ Queued("connect", c) /\ ~Queued("connect", c)' /\ link' = link
      BY <1>6, ServedCallback DEF DidAcceptNewSocket, PromiseInv, ListsInv
    <3>2. link[c] # "away"
      BY <3>1 DEF PromiseInv, ListsInv, ListedInBetween
    <3>3. QED
      BY <3>1, <3>2 DEF Admitted
  <2>4. QED
    BY <1>1, <1>2, <2>1, <2>2, <2>3, AppendTo
<1>7. QED
  BY <1>3, <1>4, <1>5, <1>6, StepKinds DEF PromiseInv, StreamInv

(* A frame has the number of a screenshot that was asked for. *)
LEMMA NumbersStep == PromiseInv /\ [Next]_vars => FramesAreNumbered'
<1> SUFFICES ASSUME PromiseInv, [Next]_vars PROVE FramesAreNumbered'
  OBVIOUS
<1> USE DEF socketVars, writeVars, mainVars
<1>0. /\ blocks \in Seq(Block) /\ captures \in Nat /\ FramesAreNumbered
      /\ ActiveAreConnected /\ TypeOK
  BY MjpegAssumption DEF PromiseInv, TypeOK, StreamInv
<1>1. mainPc' \in {"waiting", "woken"} => captures' > 0
  <2>1. CASE StreamScreenshot
    BY <1>0, <2>1, MjpegAssumption DEF StreamScreenshot, TypeOK
  <2>2. CASE ~StreamScreenshot
    <3>1. captures' = captures /\ (mainPc' \in {"waiting", "woken"} => mainPc \in {"waiting", "woken"})
      BY <2>2 DEF Next, DelegateStep, BackgroundStep, MainStep, vars, Connect, Disconnect,
         DidAcceptNewSocket, DidClientConnect, SocketDidDisconnect, StreamScreenshot, Reply, Wake,
         DispatchChunk, RefreshScreenRect, StopClients, StopListening, WriteHeader, WriteChunk
    <3>2. QED
      BY <1>0, <3>1 DEF FramesAreNumbered
  <2>3. QED
    BY <2>1, <2>2
<1>2. ASSUME NEW i \in Chunks' PROVE blocks'[i].frame > 0
  <2>1. CASE Quiet
    BY <1>0, <2>1 DEF Quiet, Chunks, FramesAreNumbered
  <2>2. CASE DispatchChunk
    <3>1. captures > 0
      BY <1>0, <2>2 DEF DispatchChunk, FramesAreNumbered
    <3>2. CASE blocks' = blocks
      BY <1>0, <3>2 DEF Chunks, FramesAreNumbered
    <3>3. CASE blocks' = Append(blocks, ChunkBlock(captures))
      <4>1. ChunkBlock(captures) \in Block /\ ChunkBlock(captures).frame = captures
        BY <1>0 DEF Block, TypeOK, ChunkBlock
      <4>2. QED
        BY <1>0, <3>1, <3>3, <4>1, AppendTo DEF Chunks, FramesAreNumbered
    <3>4. QED
      BY <2>2, <3>2, <3>3 DEF DispatchChunk
  <2>3. CASE WriteHeader \/ \E encoded \in BOOLEAN : WriteChunk(encoded)
    <3>1. blocks # <<>> /\ blocks' = Tail(blocks)
      BY <2>3 DEF WriteHeader, WriteChunk
    <3>2. i + 1 \in Chunks /\ blocks'[i] = blocks[i + 1]
      BY <1>0, <3>1, ServedHead
    <3>3. QED
      BY <1>0, <3>2 DEF FramesAreNumbered
  <2>4. ASSUME NEW c \in Client, DidAcceptNewSocket(c) PROVE blocks'[i].frame > 0
    <3>1. blocks' = Append(blocks, HeaderBlock(c)) /\ HeaderBlock(c) \in Block
      BY <2>4 DEF DidAcceptNewSocket, Block
    <3>2. HeaderBlock(c).kind # "chunk"
      BY DEF HeaderBlock
    <3>3. QED
      BY <1>0, <3>1, <3>2, AppendTo DEF Chunks, FramesAreNumbered
  <2>5. CASE UNCHANGED blocks
    BY <1>0, <2>5 DEF Chunks, FramesAreNumbered
  <2>6. QED
    BY <2>1, <2>2, <2>3, <2>4, <2>5
    DEF Next, DelegateStep, BackgroundStep, MainStep, vars, Connect, Disconnect,
        DidClientConnect, SocketDidDisconnect, StreamScreenshot, Reply, Wake,
        RefreshScreenRect, StopClients, StopListening
<1>3. QED
  BY <1>1, <1>2 DEF FramesAreNumbered

LEMMA PromiseStep == PromiseInv /\ [Next]_vars => PromiseInv'
BY TypeStep, StreamStep, ListsStep, HeadersStep, NumbersStep DEF PromiseInv

LEMMA PromiseInit == Init => Promised!Init
<1> SUFFICES ASSUME Init PROVE Promised!Init
  OBVIOUS
<1>1. Admitted = {}
  BY DEF Init, Admitted
<1>2. QED
  BY <1>1 DEF Init, Promised!Init

(* A frame that is written is shown: to clients that are there, in order,    *)
(* and to one without a header only if it is older than the client.          *)
LEMMA FrameIsShown ==
  ASSUME PromiseInv, NEW encoded \in BOOLEAN, WriteChunk(encoded), Admitted' = Admitted
  PROVE  \E n \in 1 .. captures, to \in SUBSET Promised!Audience : Promised!Show(n, to)
<1> DEFINE n  == Head(blocks).frame
           to == {c \in Client : encoded /\ c \in activeClients /\ Writable(c)}
<1> USE DEF socketVars, writeVars, mainVars
<1>0. TypeOK /\ StreamInv /\ ListsInv
  BY DEF PromiseInv
<1>1. /\ Head(blocks) \in Block /\ Head(blocks) = blocks[1] /\ 1 \in DOMAIN blocks
      /\ Head(blocks).kind = "chunk"
      /\ \A i \in DOMAIN blocks : i = 1 \/ i > 1
  <2>1. blocks # <<>> /\ blocks' = Tail(blocks) /\ Head(blocks).kind = "chunk"
    BY DEF WriteChunk
  <2>2. Head(blocks) \in Block /\ Head(blocks) = blocks[1] /\ 1 \in DOMAIN blocks
    BY <1>0, <2>1, ServedHead
  <2>3. \A i \in DOMAIN blocks : i = 1 \/ i > 1
    BY <1>0 DEF TypeOK
  <2>4. QED
    BY <2>1, <2>2, <2>3
<1>2. 1 \in Chunks
  BY <1>1 DEF Chunks
<1>3. n \in Nat /\ n <= captures /\ n > 0 /\ captures \in Nat
  BY <1>0, <1>1, <1>2, BlockFields, MjpegAssumption
  DEF StreamInv, NothingFromTheFuture, PromiseInv, FramesAreNumbered, TypeOK
<1>4. \A c \in Client : stream[c].last <= n
  BY <1>0, <1>1, <1>2 DEF StreamInv, QueueInOrder
<1>5. ASSUME NEW c \in to PROVE c \in Promised!Audience /\ (stream[c].header \/ n <= joined[c])
  <2>1. c \in connectedClients /\ Writable(c)
    BY <1>0, <1>5 DEF StreamInv, ActiveAreConnected
  <2>2. ~Queued("connect", c) /\ link[c] # "away" /\ link[c] # "closed"
    BY <1>0, <2>1 DEF ListsInv, ListedInBetween, Writable
  <2>3. link[c] = "open"
    BY <1>0, <2>2 DEF TypeOK
  <2>4. c \in Promised!Audience
    BY <2>2, <2>3 DEF Promised!Audience, Admitted
  <2>5. ASSUME ~stream[c].header PROVE n <= joined[c]
    <3>1. PICK j \in DOMAIN blocks : blocks[j] = HeaderBlock(c)
      BY <1>0, <2>1, <2>5 DEF StreamInv, HeaderIsComing
    <3>2. j # 1
      BY <1>1, <3>1, BlockFields
    <3>3. QED
      BY <1>0, <1>1, <1>2, <3>1, <3>2 DEF StreamInv, FramesAheadOfHeader
  <2>6. QED
    BY <2>4, <2>5
<1>6. stream' = [c \in Client |->
                   IF c \in to
                   THEN [stream[c] EXCEPT !.last = n, !.early = IF stream[c].header THEN @ ELSE n]
                   ELSE stream[c]]
  BY DEF WriteChunk, WithFrame
<1>7. UNCHANGED <<link, captures, joined>>
  BY DEF WriteChunk
<1>8. Promised!Show(n, to)
  <2> HIDE DEF n
  <2> QED
    BY <1>4, <1>5, <1>6, <1>7 DEF Promised!Show
<1>9. to \in SUBSET Promised!Audience
  BY <1>5
<1>10. n \in 1 .. captures
  BY <1>3
<1>11. QED
  BY <1>8, <1>9, <1>10

(* Every step of a thread is a step of the one stream, or none of it. *)
LEMMA PromiseIsKept == PromiseInv /\ [Next]_vars => [Promised!Next]_(Promised!streamVars)
<1> SUFFICES ASSUME PromiseInv, [Next]_vars PROVE [Promised!Next]_(Promised!streamVars)
  OBVIOUS
<1> USE DEF socketVars, writeVars, mainVars
<1>0. TypeOK /\ ListsInv /\ link \in [Client -> {"away", "open", "closed"}]
  BY DEF PromiseInv, TypeOK
<1>1. ASSUME UNCHANGED <<link, captures, joined, stream>>, Admitted' = Admitted
      PROVE  UNCHANGED Promised!streamVars
  BY <1>1 DEF Promised!streamVars
<1>2. ASSUME refreshes' # refreshes + 1 PROVE Admitted' = Admitted
  BY <1>0, <1>2, AdmittedStep DEF DidAcceptNewSocket
<1>3. ASSUME NEW c \in Client, DidAcceptNewSocket(c) PROVE Promised!Next
  <2>1. c \notin Admitted /\ link[c] # "away" /\ Admitted' = Admitted \cup {c}
    <3>1. Queued("connect", c) /\ ~Queued("connect", c)' /\ link' = link
      BY <1>0, <1>3, ServedCallback DEF DidAcceptNewSocket, ListsInv
    <3>2. link[c] # "away" /\ c \notin Admitted /\ c \in Admitted'
      BY <1>0, <3>1 DEF ListsInv, ListedInBetween, Admitted
    <3>3. \A d : DidAcceptNewSocket(d) => d = c
      BY <1>3 DEF DidAcceptNewSocket, NextCallback
    <3>4. QED
      BY <1>0, <3>2, <3>3, AdmittedStep
  <2>2. UNCHANGED <<link, captures, stream>> /\ joined' = [joined EXCEPT ![c] = captures]
    BY <1>3 DEF DidAcceptNewSocket
  <2>3. Promised!Admit(c)
    BY <2>1, <2>2 DEF Promised!Admit
  <2>4. QED
    BY <2>3 DEF Promised!Next
<1>4. ASSUME NEW c \in Client, Connect(c) PROVE Promised!Next
  <2>1. Admitted' = Admitted
    BY <1>0, <1>2, <1>4 DEF Connect, TypeOK
  <2>2. Promised!Arrive(c)
    BY <1>4, <2>1 DEF Connect, Promised!Arrive
  <2>3. QED
    BY <2>2 DEF Promised!Next
<1>5. ASSUME NEW c \in Client, Disconnect(c) PROVE Promised!Next
  <2>1. Admitted' = Admitted
    BY <1>0, <1>2, <1>5 DEF Disconnect, TypeOK
  <2>2. link' = [d \in Client |-> IF d \in {c} THEN "closed" ELSE link[d]]
    BY <1>0, <1>5 DEF Disconnect
  <2>3. Promised!Part({c})
    BY <1>5, <2>1, <2>2 DEF Disconnect, Promised!Part
  <2>4. QED
    BY <2>3 DEF Promised!Next
<1>6. ASSUME StopClients PROVE Promised!Next
  <2> DEFINE stopped == {c \in connectedClients : link[c] = "open"}
  <2>1. Admitted' = Admitted
    BY <1>0, <1>2, <1>6 DEF StopClients, TypeOK
  <2>2. link' = [c \in Client |-> IF c \in stopped THEN "closed" ELSE link[c]]
    BY <1>6 DEF StopClients
  <2>3. UNCHANGED <<captures, joined, stream>>
    BY <1>6 DEF StopClients
  <2>4. stopped \in SUBSET Client /\ \A c \in stopped : link[c] = "open"
    BY <1>0 DEF TypeOK
  <2>5. Promised!Part(stopped)
    BY <2>1, <2>2, <2>3, <2>4 DEF Promised!Part
  <2>6. QED
    BY <2>4, <2>5 DEF Promised!Next
<1>7. ASSUME StreamScreenshot PROVE [Promised!Next]_(Promised!streamVars)
  <2>1. Admitted' = Admitted /\ UNCHANGED <<link, joined, stream>>
    BY <1>0, <1>2, <1>7 DEF StreamScreenshot, TypeOK
  <2>2. captures' = captures + 1 \/ captures' = captures
    BY <1>7 DEF StreamScreenshot
  <2>3. QED
    BY <1>1, <2>1, <2>2 DEF Promised!AskForScreenshot, Promised!Next
<1>8. ASSUME WriteHeader PROVE [Promised!Next]_(Promised!streamVars)
  <2> DEFINE c == Head(blocks).client
  <2>1. blocks # <<>> /\ blocks' = Tail(blocks) /\ Head(blocks).kind = "header"
        /\ stream' = [stream EXCEPT ![c].header = @ \/ Writable(c)]
        /\ UNCHANGED <<link, captures, joined>>
    BY <1>8 DEF WriteHeader
  <2>2. Admitted' = Admitted
    BY <1>0, <1>2, <1>8 DEF WriteHeader, TypeOK
  <2>3. c \in Client /\ c \in Admitted
    <3>1. Head(blocks) \in Block /\ Head(blocks) = blocks[1] /\ 1 \in DOMAIN blocks
      BY <1>0, <2>1, ServedHead
    <3>2. c \in Client /\ blocks[1] = HeaderBlock(c)
      BY <2>1, <3>1, BlockFields
    <3>3. QED
      BY <3>1, <3>2 DEF PromiseInv, HeadersOfAdmitted
  <2>4. CASE link[c] = "open"
    <3>1. Writable(c)
      BY <2>4 DEF Writable
    <3>2. stream' = [stream EXCEPT ![c].header = TRUE]
      BY <2>1, <3>1
    <3>3. c \in Promised!Audience
      BY <2>3, <2>4 DEF Promised!Audience
    <3>4. Promised!Introduce(c)
      BY <2>1, <2>2, <3>2, <3>3 DEF Promised!Introduce
    <3>5. QED
      BY <2>3, <3>4 DEF Promised!Next
  <2>5. CASE link[c] # "open"
    <3>1. ~Writable(c)
      BY <1>0, <2>3, <2>5 DEF Writable, Admitted
    <3>2. stream' = stream
      <4>1. stream \in [Client -> Stream] /\ stream[c].header \in BOOLEAN
        BY <1>0, <2>3 DEF TypeOK, Stream
      <4>2. stream[c] = [stream[c] EXCEPT !.header = @]
        BY <2>3, <4>1 DEF Stream
      <4>3. (stream[c].header \/ Writable(c)) = stream[c].header
        BY <3>1, <4>1
      <4>4. QED
        BY <2>1, <2>3, <4>1, <4>2, <4>3
    <3>3. QED
      BY <1>1, <2>1, <2>2, <3>2
  <2>6. QED
    BY <2>4, <2>5
<1>9. ASSUME NEW encoded \in BOOLEAN, WriteChunk(encoded) PROVE Promised!Next
  <2>1. Admitted' = Admitted
    BY <1>0, <1>2, <1>9 DEF WriteChunk, TypeOK
  <2>2. QED
    BY <1>9, <2>1, FrameIsShown DEF Promised!Next
<1>10. ASSUME /\ refreshes' # refreshes + 1
              /\ UNCHANGED <<link, captures, joined, stream>>
       PROVE  [Promised!Next]_(Promised!streamVars)
  BY <1>1, <1>2, <1>10
<1>11. CASE DidClientConnect \/ Wake \/ DispatchChunk \/ StopListening
  BY <1>0, <1>10, <1>11 DEF DidClientConnect, Wake, DispatchChunk, StopListening, TypeOK
<1>12. ASSUME NEW c \in Client, SocketDidDisconnect(c)
       PROVE  [Promised!Next]_(Promised!streamVars)
  BY <1>0, <1>10, <1>12 DEF SocketDidDisconnect, TypeOK
<1>13. ASSUME NEW measured \in BOOLEAN, RefreshScreenRect(measured)
       PROVE  [Promised!Next]_(Promised!streamVars)
  BY <1>0, <1>10, <1>13 DEF RefreshScreenRect, TypeOK
<1>14. ASSUME NEW answer \in {"data", "nil"}, Reply(answer)
       PROVE  [Promised!Next]_(Promised!streamVars)
  BY <1>0, <1>10, <1>14 DEF Reply, TypeOK
<1>15. CASE UNCHANGED vars
  BY <1>0, <1>10, <1>15 DEF vars, TypeOK
<1>16. QED
  BY <1>3, <1>4, <1>5, <1>6, <1>7, <1>8, <1>9, <1>11, <1>12, <1>13, <1>14, <1>15
  DEF Next, DelegateStep, BackgroundStep, MainStep

(* The broadcaster's threads together show each client one stream: nothing   *)
(* to a client that is not there, frames in one order for all, and ahead of  *)
(* a header only frames that are older than the client.                      *)
THEOREM BroadcasterImplementsStream == Spec => ImplementsFrameStream
BY InitPromise, PromiseStep, PromiseInit, PromiseIsKept, PTL
DEF Spec, ImplementsFrameStream, Promised!Spec

-----------------------------------------------------------------------------
(* One header *)

(* No client has two of: its connect callback to come, a header block, its  *)
(* header.                                                                  *)
OneHeader ==
  \A c \in Client :
    /\ \A i, j \in HeaderBlocks(c) : i = j
    /\ HeaderBlocks(c) # {} => c \in Admitted /\ ~stream[c].header
    /\ stream[c].header => c \in Admitted

(* An open connection has one of them. *)
LEMMA SomeHeader ==
  ASSUME PromiseInv, NEW c \in Client, link[c] = "open", c \in Admitted
  PROVE  HeaderBlocks(c) # {} \/ stream[c].header
<1>1. c \in connectedClients /\ Writable(c)
  BY DEF PromiseInv, ListsInv, ListedInBetween, Admitted, Writable
<1> QED
  BY <1>1 DEF PromiseInv, StreamInv, HeaderIsComing, HeaderBlocks

(* A block taken from the queue leaves the others one place ahead. *)
LEMMA HeaderBlocksServed ==
  ASSUME TypeOK, blocks # <<>>, blocks' = Tail(blocks), NEW c \in Client
  PROVE  /\ \A i \in HeaderBlocks(c)' : i \in Nat /\ i + 1 \in HeaderBlocks(c)
         /\ blocks[1] = HeaderBlock(c) => 1 \in HeaderBlocks(c)
BY ServedHead DEF HeaderBlocks

LEMMA OneHeaderStep == PromiseInv /\ OneHeader /\ [Next]_vars => OneHeader'
<1> SUFFICES ASSUME PromiseInv, OneHeader, [Next]_vars, NEW c \in Client
             PROVE  /\ \A i, j \in HeaderBlocks(c)' : i = j
                    /\ HeaderBlocks(c)' # {} => c \in Admitted' /\ ~stream'[c].header
                    /\ stream'[c].header => c \in Admitted'
  BY DEF OneHeader
<1>1. /\ TypeOK /\ blocks \in Seq(Block)
      /\ c \in Admitted => c \in Admitted'
  BY AdmittedStep DEF PromiseInv, TypeOK
<1>2. /\ \A i, j \in HeaderBlocks(c) : i = j
      /\ HeaderBlocks(c) # {} => c \in Admitted /\ ~stream[c].header
      /\ stream[c].header => c \in Admitted
  BY DEF OneHeader
<1>3. CASE HeaderBlocks(c)' = HeaderBlocks(c) /\ stream'[c].header = stream[c].header
  BY <1>1, <1>2, <1>3
<1>4. CASE Quiet
  BY <1>3, <1>4 DEF Quiet, HeaderBlocks
<1>5. CASE Dispatches
  <2>1. ChunkBlock(captures) \in Block /\ ChunkBlock(captures) # HeaderBlock(c)
    BY <1>1 DEF TypeOK, Block, ChunkBlock, HeaderBlock
  <2>2. HeaderBlocks(c)' = HeaderBlocks(c)
    BY <1>1, <1>5, <2>1, AppendTo DEF Dispatches, HeaderBlocks
  <2> QED
    BY <1>3, <1>5, <2>2 DEF Dispatches
<1>6. ASSUME NEW d \in Client, DidAcceptNewSocket(d) PROVE c = d \/ HeaderBlocks(c)' = HeaderBlocks(c)
  <2>1. blocks' = Append(blocks, HeaderBlock(d)) /\ HeaderBlock(d) \in Block
    BY <1>6 DEF DidAcceptNewSocket, Block
  <2>2. HeaderBlock(c) = HeaderBlock(d) => c = d
    BY DEF HeaderBlock
  <2> QED
    BY <1>1, <2>1, <2>2, AppendTo DEF HeaderBlocks
<1>7. CASE DidAcceptNewSocket(c)
  <2>1. c \notin Admitted /\ c \in Admitted'
    <3>1. /\ Queued("connect", c) /\ ~Queued("connect", c)' /\ link' = link
      BY <1>7, ServedCallback DEF DidAcceptNewSocket, PromiseInv, ListsInv
    <3>2. link[c] # "away"
      BY <3>1 DEF PromiseInv, ListsInv, ListedInBetween
    <3> QED
      BY <3>1, <3>2 DEF Admitted
  <2>2. HeaderBlocks(c) = {} /\ ~stream[c].header /\ stream' = stream
    BY <1>2, <1>7, <2>1 DEF DidAcceptNewSocket
  <2>3. blocks' = Append(blocks, HeaderBlock(c)) /\ HeaderBlock(c) \in Block
    BY <1>7 DEF DidAcceptNewSocket, Block
  <2>4. \A i \in HeaderBlocks(c)' : i = Len(blocks) + 1
    BY <1>1, <2>2, <2>3, AppendTo DEF HeaderBlocks
  <2> QED
    BY <2>1, <2>2, <2>4
<1>8. CASE \E encoded \in BOOLEAN : WriteChunk(encoded)
  <2>1. blocks # <<>> /\ blocks' = Tail(blocks)
    BY <1>8 DEF WriteChunk
  <2>2. stream'[c].header = stream[c].header
    BY <1>1, <1>8 DEF WriteChunk, WithFrame, TypeOK, Stream
  <2>3. \A i \in HeaderBlocks(c)' : i \in Nat /\ i + 1 \in HeaderBlocks(c)
    BY <1>1, <2>1, HeaderBlocksServed
  <2> QED
    BY <1>1, <1>2, <2>2, <2>3
<1>9. CASE WriteHeader
  <2> DEFINE h == Head(blocks)
  <2>1. /\ blocks # <<>> /\ blocks' = Tail(blocks) /\ h.kind = "header"
        /\ stream' = [stream EXCEPT ![h.client].header = @ \/ Writable(h.client)]
    BY <1>9 DEF WriteHeader
  <2>2. h \in Block /\ h = blocks[1] /\ h.client \in Client /\ h = HeaderBlock(h.client)
    BY <1>1, <2>1, ServedHead, BlockFields
  <2>3. \A i \in HeaderBlocks(c)' : i \in Nat /\ i + 1 \in HeaderBlocks(c)
    BY <1>1, <2>1, HeaderBlocksServed
  <2>4. c # h.client => stream'[c].header = stream[c].header
    BY <1>1, <2>1, <2>2 DEF TypeOK, Stream
  <2>5. CASE c = h.client
    <3>1. 1 \in HeaderBlocks(c)
      BY <1>1, <2>1, <2>2, <2>5, HeaderBlocksServed
    <3>2. HeaderBlocks(c)' = {}
      <4>1. ASSUME NEW i \in HeaderBlocks(c)' PROVE FALSE
        <5>1. i + 1 = 1 /\ i \in Nat
          BY <1>2, <2>3, <3>1
        <5>2. i = 0 /\ i \in DOMAIN blocks'
          BY <5>1 DEF HeaderBlocks
        <5> QED
          BY <1>1, <2>1, <5>2, TailOf
      <4> QED
        BY <4>1
    <3> QED
      BY <1>1, <1>2, <3>1, <3>2
  <2> QED
    BY <1>1, <1>2, <2>3, <2>4, <2>5
<1> QED
  BY <1>3, <1>4, <1>5, <1>6, <1>7, <1>8, <1>9, StepKinds
  DEF PromiseInv, StreamInv, DidAcceptNewSocket

(* Whatever the delegate queue, the background queue and stop do to each    *)
(* other, an open connection has one header, written, waiting or to come.   *)
THEOREM HeadersAreSentOnce == Spec => []HeaderIsSentOnce
<1>1. Init => OneHeader
  <2> SUFFICES ASSUME Init PROVE OneHeader
    OBVIOUS
  <2>1. blocks = <<>> /\ \A c \in Client : ~stream[c].header
    BY DEF Init
  <2> QED
    BY <2>1 DEF OneHeader, HeaderBlocks
<1>2. PromiseInv /\ OneHeader => HeaderIsSentOnce
  BY SomeHeader DEF OneHeader, HeaderIsSentOnce
<1> QED
  BY <1>1, <1>2, InitPromise, PromiseStep, OneHeaderStep, PTL DEF Spec

=============================================================================
