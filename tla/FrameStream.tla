------------------------------ MODULE FrameStream ------------------------------
(***************************************************************************)
(* What the screenshots broadcaster promises its clients, without its      *)
(* threads, queues, lists and locks.  A client is admitted once, some time *)
(* after it has connected.  From then on it is introduced to the stream    *)
(* (its header) and shown frames until its connection closes, which ends   *)
(* everything.  Frames are shown in one order, the same for all, and never *)
(* before their screenshot was asked for; a client that has no header yet  *)
(* sees none that is newer than its admission.  FBMjpegServer.tla          *)
(* implements this.                                                        *)
(***************************************************************************)
EXTENDS Naturals

CONSTANT Client

VARIABLES
  link,        \* where each connection stands
  admitted,    \* the clients that were ever admitted
  now,         \* number of the last screenshot asked for
  admittedAt,  \* what it was when the client was admitted
  stream       \* of each client: whether it has its header, its last frame,
               \* and the last frame it got before the header

streamVars == <<link, admitted, now, admittedAt, stream>>

Init ==
  /\ link = [c \in Client |-> "away"]
  /\ admitted = {}
  /\ now = 0
  /\ admittedAt = [c \in Client |-> 0]
  /\ stream = [c \in Client |-> [header |-> FALSE, last |-> 0, early |-> 0]]

Arrive(c) ==
  /\ link[c] = "away"
  /\ link' = [link EXCEPT ![c] = "open"]
  /\ UNCHANGED <<admitted, now, admittedAt, stream>>

(* Clients leave, or are made to leave, some of them at once. *)
Part(leaving) ==
  /\ \A c \in leaving : link[c] = "open"
  /\ link' = [c \in Client |-> IF c \in leaving THEN "closed" ELSE link[c]]
  /\ UNCHANGED <<admitted, now, admittedAt, stream>>

(* It may have left again by then. *)
Admit(c) ==
  /\ c \notin admitted
  /\ link[c] # "away"
  /\ admitted' = admitted \cup {c}
  /\ admittedAt' = [admittedAt EXCEPT ![c] = now]
  /\ UNCHANGED <<link, now, stream>>

AskForScreenshot ==
  /\ now' = now + 1
  /\ UNCHANGED <<link, admitted, admittedAt, stream>>

Audience == {c \in admitted : link[c] = "open"}

Introduce(c) ==
  /\ c \in Audience
  /\ stream' = [stream EXCEPT ![c].header = TRUE]
  /\ UNCHANGED <<link, admitted, now, admittedAt>>

(* Frame n is shown to some: to none that has no header and came later. *)
Show(n, to) ==
  /\ \A c \in Client : stream[c].last <= n
  /\ \A c \in to : stream[c].header \/ n <= admittedAt[c]
  /\ stream' = [c \in Client |->
                  IF c \in to
                  THEN [stream[c] EXCEPT !.last = n, !.early = IF stream[c].header THEN @ ELSE n]
                  ELSE stream[c]]
  /\ UNCHANGED <<link, admitted, now, admittedAt>>

Next ==
  \/ \E c \in Client : Arrive(c) \/ Admit(c) \/ Introduce(c)
  \/ \E leaving \in SUBSET Client : Part(leaving)
  \/ AskForScreenshot
  \/ \E n \in 1 .. now, to \in SUBSET Audience : Show(n, to)

Spec == Init /\ [][Next]_streamVars
=============================================================================
