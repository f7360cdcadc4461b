---------------------------- MODULE FBMjpegServer ----------------------------
(***************************************************************************)
(* The screenshots broadcaster: FBTCPSocket, which keeps the connected     *)
(* clients, and its delegate FBMjpegServer, which streams screenshots to   *)
(* them.  Three threads share its state:                                   *)
(*   - the socket's delegate queue runs the connect and disconnect         *)
(*     callbacks one at a time;                                            *)
(*   - the main thread runs the timer that takes a screenshot, the blocks  *)
(*     that read the screen size, and stop;                                *)
(*   - the serial background queue writes headers and frames.              *)
(* Each has its own program counter or queue below, and their steps        *)
(* interleave at the locks, the queues and the wait for a screenshot.      *)
(***************************************************************************)
EXTENDS Naturals, Sequences, FiniteSets, SequencesExt

CONSTANTS
  Client,        \* TCP connections; a client that reconnects is a new one
  NoClient,      \* "no callback is half way"
  MaxFrames,     \* bound: screenshots are numbered up to here, then alike
  MaxBlocks      \* bound: no screenshot is taken when so many blocks wait

ASSUME MjpegAssumption ==
  /\ IsFiniteSet(Client)
  /\ NoClient \notin Client
  /\ MaxFrames \in Nat \ {0}
  /\ MaxBlocks \in Nat \ {0}

VARIABLES
  link,              \* where each connection stands
  listening,         \* the listening socket accepts connections
  callbacks,         \* delegate callbacks waiting on the socket's queue
  connectedClients,  \* FBTCPSocket's list
  joining,           \* the client whose connect callback is half way
  activeClients,     \* FBMjpegServer's own list
  blocks,            \* the blocks of the background queue
  stream,            \* what was written to each client
  joined,            \* captures when the client's header was dispatched
  captures,          \* number of the last screenshot asked for
  shot,              \* what came back for it so far
  mainPc,            \* where the main thread is
  refreshes,         \* refreshScreenRect blocks waiting on the main queue
  screenRect         \* the screen size is known

socketVars == <<link, listening, callbacks, connectedClients>>
writeVars  == <<blocks, stream>>
mainVars   == <<captures, shot, mainPc, refreshes, screenRect>>
vars == <<socketVars, joining, activeClients, writeVars, joined, mainVars>>

Callback == [kind : {"connect", "disconnect"}, client : Client]
HeaderBlock(c) == [kind |-> "header", client |-> c, frame |-> 0]
ChunkBlock(n) == [kind |-> "chunk", client |-> NoClient, frame |-> n]
Block == {HeaderBlock(c) : c \in Client} \cup {ChunkBlock(n) : n \in 0 .. MaxFrames}

(* A client's stream: whether its header was written, the last frame, and   *)
(* the last frame that was written before the header.                       *)
Stream == [header : BOOLEAN, last : 0 .. MaxFrames, early : 0 .. MaxFrames]

TypeOK ==
  /\ link \in [Client -> {"away", "open", "closed"}]
  /\ listening \in BOOLEAN
  /\ callbacks \in Seq(Callback)
  /\ connectedClients \in SUBSET Client
  /\ joining \in Client \cup {NoClient}
  /\ activeClients \in SUBSET Client
  /\ blocks \in Seq(Block)
  /\ stream \in [Client -> Stream]
  /\ joined \in [Client -> 0 .. MaxFrames]
  /\ captures \in 0 .. MaxFrames
  /\ shot \in {"none", "data", "nil"}
  /\ mainPc \in {"idle", "waiting", "woken", "stopping", "stopped"}
  /\ refreshes \in Nat
  /\ screenRect \in BOOLEAN

Init ==
  /\ link = [c \in Client |-> "away"]
  /\ listening = TRUE
  /\ callbacks = <<>>
  /\ connectedClients = {}
  /\ joining = NoClient
  /\ activeClients = {}
  /\ blocks = <<>>
  /\ stream = [c \in Client |-> [header |-> FALSE, last |-> 0, early |-> 0]]
  /\ joined = [c \in Client |-> 0]
  /\ captures = 0
  /\ shot = "none"
  /\ mainPc = "idle"
  /\ refreshes = 0
  /\ screenRect = FALSE

-----------------------------------------------------------------------------
(* The TCP library *)

(* The listening socket accepts a connection and queues didAcceptNewSocket. *)
Connect(c) ==
  /\ listening
  /\ link[c] = "away"
  /\ link' = [link EXCEPT ![c] = "open"]
  /\ callbacks' = Append(callbacks, [kind |-> "connect", client |-> c])
  /\ UNCHANGED <<listening, connectedClients, joining, activeClients, writeVars, joined,
                 mainVars>>

(* The peer closes the connection; socketDidDisconnect is queued. *)
Disconnect(c) ==
  /\ link[c] = "open"
  /\ link' = [link EXCEPT ![c] = "closed"]
  /\ callbacks' = Append(callbacks, [kind |-> "disconnect", client |-> c])
  /\ UNCHANGED <<listening, connectedClients, joining, activeClients, writeVars, joined,
                 mainVars>>

-----------------------------------------------------------------------------
(* The delegate queue.  A callback holds the lock on connectedClients, and   *)
(* `joining` says that one is half way.                                      *)

NextCallback(kind, c) ==
  /\ joining = NoClient
  /\ callbacks # <<>>
  /\ Head(callbacks) = [kind |-> kind, client |-> c]
  /\ callbacks' = Tail(callbacks)

(* Fault: a client that joins a running stream is sent no header. *)
DidAcceptNewSocket_FirstOnly(c) ==
  /\ NextCallback("connect", c)
  /\ connectedClients' = connectedClients \cup {c}
  /\ refreshes' = refreshes + 1
  /\ blocks' = IF activeClients = {} THEN Append(blocks, HeaderBlock(c)) ELSE blocks
  /\ joined' = [joined EXCEPT ![c] = captures]
  /\ joining' = c
  /\ UNCHANGED <<link, listening, activeClients, stream, captures, shot, mainPc, screenRect>>

(* didAcceptNewSocket and the first half of didClientConnect: the client is *)
(* listed, and its header is dispatched.                                    *)
DidAcceptNewSocket(c) ==
  /\ NextCallback("connect", c)
  /\ connectedClients' = connectedClients \cup {c}
  /\ refreshes' = refreshes + 1
  /\ blocks' = Append(blocks, HeaderBlock(c))
  /\ joined' = [joined EXCEPT ![c] = captures]
  /\ joining' = c
  /\ UNCHANGED <<link, listening, activeClients, stream, captures, shot, mainPc, screenRect>>

(* Fault: a client that joins while others watch is not let in. *)
DidClientConnect_FirstOnly ==
  /\ joining # NoClient
  /\ activeClients' = IF activeClients = {} THEN connectedClients ELSE activeClients
  /\ joining' = NoClient
  /\ UNCHANGED <<socketVars, writeVars, joined, mainVars>>

(* The second half of didClientConnect copies the list it was given. *)
DidClientConnect ==
  /\ joining # NoClient
  /\ activeClients' = connectedClients
  /\ joining' = NoClient
  /\ UNCHANGED <<socketVars, writeVars, joined, mainVars>>

(* Fault: the disconnected client stays on the server's own list. *)
SocketDidDisconnect_KeepsActive(c) ==
  /\ NextCallback("disconnect", c)
  /\ connectedClients' = connectedClients \ {c}
  /\ UNCHANGED <<link, listening, joining, activeClients, writeVars, joined, mainVars>>

(* socketDidDisconnect and didClientDisconnect *)
SocketDidDisconnect(c) ==
  /\ NextCallback("disconnect", c)
  /\ connectedClients' = connectedClients \ {c}
  /\ activeClients' = connectedClients'
  /\ UNCHANGED <<link, listening, joining, writeVars, joined, mainVars>>

-----------------------------------------------------------------------------
(* The main thread *)

(* The timer fires and streamScreenshot asks XCTest for a screenshot.  It    *)
(* returns at once when nobody listens or the screen size is unknown.        *)
StreamScreenshot ==
  /\ mainPc = "idle"
  /\ activeClients # {}
  /\ screenRect
  /\ Len(blocks) < MaxBlocks
  /\ captures' = IF captures < MaxFrames THEN captures + 1 ELSE captures
  /\ shot' = "none"
  /\ mainPc' = "waiting"
  /\ UNCHANGED <<socketVars, joining, activeClients, writeVars, joined, refreshes, screenRect>>

(* XCTest answers with an image, or with an error and no image.  An answer   *)
(* that comes when the main thread has left this capture is lost: it is kept *)
(* in a variable nothing reads any more.                                     *)
Reply(answer) ==
  /\ mainPc \in {"waiting", "woken"}
  /\ shot = "none"
  /\ shot' = answer
  /\ UNCHANGED <<socketVars, joining, activeClients, writeVars, joined, captures, mainPc,
                 refreshes, screenRect>>

(* dispatch_semaphore_wait returns: the answer is there, or 0.5 s are over. *)
Wake ==
  /\ mainPc = "waiting"
  /\ mainPc' = "woken"
  /\ UNCHANGED <<socketVars, joining, activeClients, writeVars, joined, captures, shot,
                 refreshes, screenRect>>

(* The image, if there is one, is dispatched to the background queue. *)
DispatchChunk ==
  /\ mainPc = "woken"
  /\ IF shot = "data"
     THEN blocks' = Append(blocks, ChunkBlock(captures))
     ELSE UNCHANGED blocks
  /\ shot' = "none"
  /\ mainPc' = "idle"
  /\ UNCHANGED <<socketVars, joining, activeClients, stream, joined, captures, refreshes,
                 screenRect>>

(* Fault: the screen size is read although nobody asked for it. *)
RefreshScreenRect_Unasked(measured) ==
  /\ mainPc = "idle"
  /\ refreshes' = refreshes - 1
  /\ screenRect' = (screenRect \/ measured)
  /\ UNCHANGED <<socketVars, joining, activeClients, writeVars, joined, captures, shot, mainPc>>

(* A block of refreshScreenRect; the system application may report an empty  *)
(* frame, and then the size stays what it was.                               *)
RefreshScreenRect(measured) ==
  /\ mainPc = "idle"
  /\ refreshes > 0
  /\ refreshes' = refreshes - 1
  /\ screenRect' = (screenRect \/ measured)
  /\ UNCHANGED <<socketVars, joining, activeClients, writeVars, joined, captures, shot, mainPc>>

(* stop, first half: under the lock, every connected client is disconnected; *)
(* the callbacks that unlist them are queued.                                *)
StopClients ==
  /\ mainPc = "idle"
  /\ joining = NoClient
  /\ LET stopped == {c \in connectedClients : link[c] = "open"} IN
       /\ link' = [c \in Client |-> IF c \in stopped THEN "closed" ELSE link[c]]
       /\ \E order \in SetToSeqs(stopped) :
            callbacks' = callbacks \o [i \in DOMAIN order |->
                                         [kind |-> "disconnect", client |-> order[i]]]
  /\ mainPc' = "stopping"
  /\ UNCHANGED <<listening, connectedClients, joining, activeClients, writeVars, joined,
                 captures, shot, refreshes, screenRect>>

(* stop, second half: the listening socket is disconnected.  The main loop   *)
(* ends, so no timer fires and no block runs on the main queue any more.     *)
StopListening ==
  /\ mainPc = "stopping"
  /\ listening' = FALSE
  /\ mainPc' = "stopped"
  /\ UNCHANGED <<link, callbacks, connectedClients, joining, activeClients, writeVars, joined,
                 captures, shot, refreshes, screenRect>>

-----------------------------------------------------------------------------
(* The background queue.  A block stays at the head of the queue until it    *)
(* has written; writing to a closed connection does nothing.                 *)

(* GCDAsyncSocket writes to a connection until it is disconnected. *)
Writable(c) == link[c] # "closed"

(* Fault: the header is only written to a client that already gets frames. *)
WriteHeader_ActiveOnly ==
  /\ blocks # <<>>
  /\ Head(blocks).kind = "header"
  /\ LET c == Head(blocks).client IN
       stream' = [stream EXCEPT ![c].header = @ \/ (Writable(c) /\ c \in activeClients)]
  /\ blocks' = Tail(blocks)
  /\ UNCHANGED <<socketVars, joining, activeClients, joined, mainVars>>

WriteHeader ==
  /\ blocks # <<>>
  /\ Head(blocks).kind = "header"
  /\ LET c == Head(blocks).client IN
       stream' = [stream EXCEPT ![c].header = @ \/ Writable(c)]
  /\ blocks' = Tail(blocks)
  /\ UNCHANGED <<socketVars, joining, activeClients, joined, mainVars>>

WithFrame(s, n) ==
  [s EXCEPT !.last = n, !.early = IF s.header THEN @ ELSE n]

(* Fault: a later block overtakes the first one, as on a concurrent queue. *)
WriteChunk_AnyOrder(encoded) ==
  /\ blocks # <<>>
  /\ \E i \in DOMAIN blocks :
       /\ blocks[i].kind = "chunk"
       /\ stream' = [c \in Client |->
                       IF encoded /\ c \in activeClients /\ Writable(c)
                       THEN WithFrame(stream[c], blocks[i].frame) ELSE stream[c]]
       /\ blocks' = RemoveAt(blocks, i)
  /\ UNCHANGED <<socketVars, joining, activeClients, joined, mainVars>>

(* A frame is written to the clients listed when it is ready, not to those   *)
(* listed when it was taken; a PNG that cannot be converted is dropped.      *)
WriteChunk(encoded) ==
  /\ blocks # <<>>
  /\ Head(blocks).kind = "chunk"
  /\ stream' = [c \in Client |->
                  IF encoded /\ c \in activeClients /\ Writable(c)
                  THEN WithFrame(stream[c], Head(blocks).frame) ELSE stream[c]]
  /\ blocks' = Tail(blocks)
  /\ UNCHANGED <<socketVars, joining, activeClients, joined, mainVars>>

-----------------------------------------------------------------------------
DelegateStep ==
  \/ DidClientConnect
  \/ \E c \in Client : DidAcceptNewSocket(c) \/ SocketDidDisconnect(c)

BackgroundStep == WriteHeader \/ \E encoded \in BOOLEAN : WriteChunk(encoded)

MainStep ==
  \/ StreamScreenshot \/ Wake \/ DispatchChunk
  \/ \E measured \in BOOLEAN : RefreshScreenRect(measured)

Next ==
  \/ \E c \in Client : Connect(c) \/ Disconnect(c)
  \/ DelegateStep \/ BackgroundStep \/ MainStep
  \/ \E answer \in {"data", "nil"} : Reply(answer)
  \/ StopClients \/ StopListening

(* The queues and the timer go on, and screenshots asked for again and again *)
(* come back in time and can be converted once in a while.                   *)
Fairness ==
  /\ WF_vars(DelegateStep)
  /\ WF_vars(BackgroundStep)
  /\ SF_vars(\E measured \in BOOLEAN : RefreshScreenRect(measured))
  /\ SF_vars(StreamScreenshot)
  /\ WF_vars(Wake)
  /\ WF_vars(DispatchChunk)
  /\ SF_vars(Reply("data"))
  /\ SF_vars(WriteChunk(TRUE))

Spec == Init /\ [][Next]_vars
FairSpec == Spec /\ Fairness

-----------------------------------------------------------------------------
(* Properties *)

(* Once the callbacks have run, both lists hold exactly the connections that *)
(* are open, whether clients left by themselves or stop disconnected them:   *)
(* nobody is streamed to after leaving, nobody waits unseen.                 *)
ListsFollowConnections ==
  callbacks = <<>> /\ joining = NoClient =>
    /\ connectedClients = {c \in Client : link[c] = "open"}
    /\ activeClients = connectedClients

(* A frame may overtake the header of a client that has just connected, but  *)
(* only one whose screenshot was asked for before the client was listed:     *)
(* every screenshot taken after that comes behind the header.                *)
OnlyOlderFramesOvertakeHeader == \A c \in Client : stream[c].early <= joined[c]

(* A client never sees the screen go back in time: a frame is not followed   *)
(* by one of an earlier screenshot, whichever of them came back late.        *)
FramesInOrder == [][\A c \in Client : stream'[c].last >= stream[c].last]_vars

(* Every client gets its header, unless it leaves or is disconnected. *)
HeaderReachesClient ==
  \A c \in Client : link[c] = "open" ~> (stream[c].header \/ link[c] = "closed")

Stopping == mainPc \in {"stopping", "stopped"}

(* Once the screen size is known, every client gets frames, unless it leaves *)
(* or the server stops, although screenshots fail or come too late.          *)
FramesReachClient ==
  \A c \in Client :
    (screenRect /\ link[c] = "open") ~> (stream[c].last > 0 \/ link[c] = "closed" \/ Stopping)

(* What FBMjpegServer.h says of the service: it sends screenshots "to all    *)
(* connected clients".  A screen size that could not be read when the        *)
(* clients connected is not read again, so nothing is ever sent to them.     *)
AllConnectedClientsAreStreamed ==
  \A c \in Client :
    link[c] = "open" ~> (stream[c].last > 0 \/ link[c] = "closed" \/ Stopping)

(* What keeps frames and headers apart. *)

Chunks == {i \in DOMAIN blocks : blocks[i].kind = "chunk"}

(* No frame is newer than the last screenshot, nor was any client listed     *)
(* after it.                                                                 *)
NothingFromTheFuture ==
  /\ \A i \in Chunks : blocks[i].frame <= captures
  /\ \A c \in Client : joined[c] <= captures /\ stream[c].last <= captures

(* The frames ahead of a client's header are older than the client. *)
FramesAheadOfHeader ==
  \A c \in Client : \A i \in Chunks, j \in DOMAIN blocks :
    i < j /\ blocks[j] = HeaderBlock(c) => blocks[i].frame <= joined[c]

(* A listed client that can be written to has its header or will get it. *)
HeaderIsComing ==
  \A c \in connectedClients :
    Writable(c) /\ ~stream[c].header => \E j \in DOMAIN blocks : blocks[j] = HeaderBlock(c)

(* The queue keeps the order of the screenshots. *)
QueueInOrder ==
  /\ \A i, j \in Chunks : i < j => blocks[i].frame <= blocks[j].frame
  /\ \A c \in Client : \A i \in Chunks : stream[c].last <= blocks[i].frame

ActiveAreConnected == activeClients \subseteq connectedClients

StreamInv ==
  /\ NothingFromTheFuture
  /\ FramesAheadOfHeader
  /\ HeaderIsComing
  /\ QueueInOrder
  /\ ActiveAreConnected
  /\ OnlyOlderFramesOvertakeHeader

(* What keeps the lists and the connections together. *)

Queued(kind, c) == \E i \in DOMAIN callbacks : callbacks[i] = [kind |-> kind, client |-> c]

(* A connection is reported once, and then its end once. *)
CallbacksInOrder ==
  /\ \A i, j \in DOMAIN callbacks : callbacks[i] = callbacks[j] => i = j
  /\ \A c \in Client, i, j \in DOMAIN callbacks :
       callbacks[i] = [kind |-> "connect", client |-> c]
       /\ callbacks[j] = [kind |-> "disconnect", client |-> c] => i < j

(* A client is listed from its connect callback to its disconnect callback. *)
ListedInBetween ==
  \A c \in Client :
    /\ Queued("connect", c) => link[c] # "away" /\ c \notin connectedClients
    /\ Queued("disconnect", c) => link[c] = "closed"
    /\ link[c] = "away" => c \notin connectedClients
    /\ link[c] = "open" => c \in connectedClients \/ Queued("connect", c)
    /\ link[c] = "closed" /\ (c \in connectedClients \/ Queued("connect", c))
         => Queued("disconnect", c)

(* The server's list is behind the socket's only while a client joins. *)
ActiveFollow == joining = NoClient => activeClients = connectedClients

ListsInv == CallbacksInOrder /\ ListedInBetween /\ ActiveFollow

(* What keeps the stream apart from the lists. *)

(* The clients whose connect callback has run. *)
Admitted == {c \in Client : link[c] # "away" /\ ~Queued("connect", c)}

HeadersOfAdmitted == \A j \in DOMAIN blocks : \A c \in Client :
  blocks[j] = HeaderBlock(c) => c \in Admitted

HeaderBlocks(c) == {j \in DOMAIN blocks : blocks[j] = HeaderBlock(c)}

(* A header in the middle of a stream would end it for the peer, and a      *)
(* stream without one never begins.  At every moment a client waits for its *)
(* connect callback, or for its one header block, or has its header, and    *)
(* never two of these; only after its connection is closed may it be none   *)
(* (FBMjpegServer.m:170-177).                                               *)
HeaderIsSentOnce ==
  \A c \in Client :
    /\ \A i, j \in HeaderBlocks(c) : i = j
    /\ HeaderBlocks(c) # {} => c \in Admitted /\ ~stream[c].header
    /\ stream[c].header => c \in Admitted
    /\ link[c] = "open" /\ c \in Admitted => HeaderBlocks(c) # {} \/ stream[c].header

FramesAreNumbered ==
  /\ mainPc \in {"waiting", "woken"} => captures > 0
  /\ \A i \in Chunks : blocks[i].frame > 0

(* The threads, queues and lists together show each client one stream: to    *)
(* nobody who is not yet or no longer there, in one order for all, and with  *)
(* nothing new ahead of a header.                                            *)
Promised == INSTANCE FrameStream
  WITH admitted <- Admitted, now <- captures, admittedAt <- joined
ImplementsFrameStream == Promised!Spec
=============================================================================
