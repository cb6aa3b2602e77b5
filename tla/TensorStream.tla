---------------------------- MODULE TensorStream ----------------------------
(***************************************************************************)
(* The raw tensor transport between two neighbours (executors/worker.py):  *)
(* the sender's _TensorPeerClient or _IpcPeerClient, the receiver's accept *)
(* thread and its thread per connection.                                   *)
(*                                                                         *)
(* The sender's compute thread sends one frame after the other: a kind     *)
(* byte, the rest of the header and the payload's cells, or, over CUDA     *)
(* IPC, a handle the receiver acknowledges once it has cloned the tensor.  *)
(* The receiver hands each tensor to its compute pool.  Meanwhile another  *)
(* thread of the sender may close the client (shutdown, init), the         *)
(* receiver may stop or freeze, and connections may be slow or break.      *)
(* Batch ids are the frames' numbers.                                      *)
(***************************************************************************)
EXTENDS Integers, Sequences, FiniteSets

CONSTANTS
  Settings,  \* the settings to explore, records of the fields of `set'
  MaxFrames, \* bound: frames of a setting
  Buffer     \* bound: parts of frames a connection holds in flight

(* The frames, none of them empty, and how often what may happen does. *)
Setting ==
  [ipc : BOOLEAN, frames : Seq([kind : {"F", "B"}, size : Nat \ {0}, cuda : BOOLEAN]),
   slow : Nat, closes : Nat, breaks : Nat, stops : Nat, freezes : Nat]

ASSUME StreamAssumption ==
  /\ MaxFrames \in Nat \ {0} /\ Buffer \in Nat \ {0}
  /\ \A s \in Settings : s \in Setting /\ Len(s.frames) \in 1 .. MaxFrames

VARIABLES
  set,      \* the frames and the client; slow, closes, breaks, stops, freezes left
  sender,   \* the compute thread: where it is, its connection, the next part
  outcome,  \* what became of each send, and the connection it used
  memory,   \* each frame's tensor on the sender: its number, 0 once reused
  pinned,   \* the pinned buffer's cells
  dma,      \* the frame being copied into it, or 0
  sock,     \* _sock of the "tcp" and of the "ipc" client: a connection or 0
  closer,   \* the thread in close(): where, and the clients left to close
  conns,    \* the connections: both ends, the parts in flight, the reader
  receiver, \* _tensor_stop, what the accept thread does, frozen
  works,    \* tensors submitted to the receiver's pool
  computed  \* what it has computed on (history)

source == <<sender, outcome, memory, pinned, dma, sock, closer>>
vars == <<set, source, conns, receiver, works, computed>>

Frame == 1 .. Len(set.frames)
Conn == DOMAIN conns
Garbage == <<0, 0>>
Fault(kind) == set[kind] > 0 /\ set' = [set EXCEPT ![kind] = @ - 1]

Init ==
  /\ set \in Settings
  /\ sender = [at |-> "idle", conn |-> 0, next |-> 1] /\ outcome = <<>>
  /\ memory = [f \in Frame |-> f] /\ pinned = <<>> /\ dma = 0
  /\ sock = [tcp |-> 0, ipc |-> 0] /\ closer = [at |-> "idle", left |-> <<>>]
  /\ conns = <<>> /\ receiver = [stop |-> FALSE, accepting |-> "yes", frozen |-> FALSE]
  /\ works = <<>> /\ computed = {}

(* _RecvBuf.get and _get_pinned: a buffer grows with headroom, never       *)
(* shrinks, and is used up to the length asked for. *)
\* Mutant: the buffer never grows.
GetOnce(buf, n) == IF buf = <<>> THEN [i \in 1 .. n |-> Garbage] ELSE buf
Get(buf, n) ==
  LET headroom == (5 * n) \div 4
  IN IF Len(buf) < n THEN [i \in 1 .. IF headroom > n THEN headroom ELSE n |-> Garbage] ELSE buf

-----------------------------------------------------------------------------
(* The sender. *)

f == Len(outcome) + 1 \* the frame being sent

SameMachine == set.ipc \* with CUDA IPC as the transport
Ipc(n) == SameMachine /\ set.frames[n].cuda
Client == IF Ipc(f) THEN "ipc" ELSE "tcp"

Part(is, cell) ==
  [is |-> is, ipc |-> Ipc(f), kind |-> set.frames[f].kind, batch |-> f,
   size |-> set.frames[f].size, cell |-> cell]

(* The parts of the frame, in order, as they are when they are written. *)
Parts == IF Ipc(f) THEN 3 ELSE set.frames[f].size + 2
Written(i) ==
  CASE i = 1 -> Part("kind", Garbage)
    [] i = 2 -> Part("rest", Garbage)
    [] i > 2 /\ Ipc(f) -> Part("handle", Garbage)
    [] OTHER -> Part("cell", IF set.frames[f].cuda THEN pinned[i - 2] ELSE <<memory[f], i - 2>>)

(* send_tensor: a CUDA tensor goes by IPC or through the pinned buffer. *)
send_tensor ==
  /\ sender.at = "idle" /\ f \in Frame
  /\ LET copy == set.frames[f].cuda /\ ~Ipc(f)
     IN /\ sender' = [at |-> IF copy THEN "copy" ELSE "connect", conn |-> 0, next |-> 1]
        /\ pinned' = IF copy THEN Get(pinned, set.frames[f].size) ELSE pinned
        /\ dma' = IF copy THEN f ELSE dma
  /\ UNCHANGED <<set, outcome, memory, sock, closer, conns, receiver, works, computed>>

(* The device copies in its own time. *)
DmaCopy ==
  /\ dma # 0
  /\ pinned' = [i \in DOMAIN pinned |->
       IF i <= set.frames[dma].size THEN <<memory[dma], i>> ELSE pinned[i]]
  /\ dma' = 0
  /\ UNCHANGED <<set, sender, outcome, memory, sock, closer, conns, receiver, works, computed>>

(* _d2h_event.synchronize(). *)
\* Mutant: the event is recorded and never awaited.
RecordedOnly == TRUE
Copied == dma = 0

Synchronize ==
  /\ sender.at = "copy" /\ Copied
  /\ sender' = [sender EXCEPT !.at = "connect"]
  /\ UNCHANGED <<set, outcome, memory, pinned, dma, sock, closer, conns, receiver, works, computed>>

(* The send is over, whatever became of it; the tensor's memory may go to  *)
(* the next one. *)
Ends(result) ==
  /\ outcome' = Append(outcome, [is |-> result, conn |-> sender.conn])
  /\ memory' = [memory EXCEPT ![f] = 0]
  /\ sender' = [sender EXCEPT !.at = "idle"]

Listening == receiver.accepting # "no"

(* _ensure_connected.  What it raises is no _TensorStreamError: the worker *)
(* reports it as fatal. *)
_ensure_connected ==
  /\ sender.at = "connect"
  /\ \/ /\ sock[Client] # 0
        /\ sender' = [sender EXCEPT !.at = "send", !.conn = sock[Client]]
        /\ UNCHANGED <<set, outcome, memory, sock, conns>>
     \/ /\ sock[Client] = 0 /\ Listening
        /\ conns' = Append(conns,
             [open |-> TRUE, broken |-> FALSE, parts |-> <<>>, ack |-> FALSE, at |-> "backlog",
              frame |-> Part("none", Garbage), buf |-> <<>>, got |-> 0,
              tensor |-> [own |-> TRUE, cells |-> <<>>]])
        /\ sock' = [sock EXCEPT ![Client] = Len(conns')]
        /\ sender' = [sender EXCEPT !.at = "send", !.conn = Len(conns')]
        /\ UNCHANGED <<set, outcome, memory>>
     \/ /\ sock[Client] = 0
        /\ IF Listening THEN Fault("slow") ELSE UNCHANGED set
        /\ Ends("fatal") /\ UNCHANGED <<sock, conns>>
  /\ UNCHANGED <<pinned, dma, closer, receiver, works, computed>>

Done(c) == conns[c].at \in {"done", "desync"}
Gone(c) == ~conns[c].open \/ conns[c].broken

(* A call on the socket takes self._sock when it begins: sendall of the    *)
(* header, sendall of the payload, the wait for the ACK. *)
CallBegins == sender.next \in {1, IF Ipc(f) THEN 4 ELSE 3}
Writable == ~Gone(sender.conn) /\ (CallBegins => sock[Client] # 0)

SendPart ==
  LET c == sender.conn
      last == sender.next = Parts
  IN /\ sender.at = "send" /\ Writable
     /\ IF Done(c) THEN UNCHANGED conns
        ELSE /\ Len(conns[c].parts) < Buffer
             /\ conns' = [conns EXCEPT ![c].parts = Append(@, Written(sender.next))]
     /\ IF last /\ ~Ipc(f) THEN Ends("sent")
        ELSE /\ sender' = [sender EXCEPT !.next = @ + 1, !.at = IF last THEN "ack" ELSE @]
             /\ UNCHANGED <<outcome, memory>>
     /\ UNCHANGED <<set, pinned, dma, sock, closer, receiver, works, computed>>

(* The one byte of _IpcPeerClient.send_tensor. *)
ReceiveAck ==
  /\ sender.at = "ack" /\ ~Gone(sender.conn) /\ conns[sender.conn].ack
  /\ conns' = [conns EXCEPT ![sender.conn].ack = FALSE]
  /\ Ends("sent")
  /\ UNCHANGED <<set, pinned, dma, sock, closer, receiver, works, computed>>

(* The socket's ten seconds are over. *)
\* Mutant: the socket waits without a timeout.
Forever == FALSE
TenSeconds == receiver.frozen \/ set.slow > 0

TimesOut ==
  /\ TenSeconds
  /\ IF sender.at = "ack" THEN ~conns[sender.conn].ack
     ELSE ~Done(sender.conn) /\ Len(conns[sender.conn].parts) = Buffer
  /\ set' = [set EXCEPT !.slow = IF @ > 0 THEN @ - 1 ELSE @]

(* sendall or the wait for the ACK raises; close() reads _sock twice. *)
SendFails ==
  /\ sender.at \in {"send", "ack"}
  /\ \/ ~Writable /\ UNCHANGED set
     \/ Done(sender.conn) /\ (sender.at = "ack" => ~conns[sender.conn].ack) /\ UNCHANGED set
     \/ Writable /\ TimesOut
  /\ IF sock[Client] = 0 THEN Ends("failed")
     ELSE sender' = [sender EXCEPT !.at = "close"] /\ UNCHANGED <<outcome, memory>>
  /\ UNCHANGED <<pinned, dma, sock, closer, conns, receiver, works, computed>>

(* The sockets of the clients `names' are closed. *)
Closed(names) ==
  [c \in Conn |-> IF \E w \in names : sock[w] = c THEN [conns[c] EXCEPT !.open = FALSE] ELSE conns[c]]

(* A TCP client without a socket raises AttributeError here, which is      *)
(* fatal; an IPC client closes its fallback too and swallows it. *)
Clients == IF Ipc(f) THEN {"ipc", "tcp"} ELSE {"tcp"}
SendCloses ==
  /\ sender.at = "close"
  /\ conns' = Closed(Clients)
  /\ sock' = [w \in DOMAIN sock |-> IF w \in Clients THEN 0 ELSE sock[w]]
  /\ Ends(IF sock[Client] = 0 /\ ~Ipc(f) THEN "fatal" ELSE "failed")
  /\ UNCHANGED <<set, pinned, dma, closer, receiver, works, computed>>

(* A socket nobody refers to any more is closed. *)
Collect(c) ==
  /\ conns[c].open /\ \A w \in DOMAIN sock : sock[w] # c
  /\ sender.conn = c => sender.at # "ack" /\ (sender.at = "send" => CallBegins)
  /\ conns' = [conns EXCEPT ![c].open = FALSE]
  /\ UNCHANGED <<set, source, receiver, works, computed>>

-----------------------------------------------------------------------------
(* close() from another thread (shutdown, stop_tensor_server): it takes no *)
(* lock, and reads _sock once to look, once to close, then forgets it. *)

CloserKeeps == <<sender, outcome, memory, pinned, dma>>
Which == Head(closer.left)
NextClient == IF Len(closer.left) = 1 THEN [at |-> "idle", left |-> <<>>]
              ELSE [at |-> "look", left |-> Tail(closer.left)]

BeginClose ==
  /\ closer.at = "idle" /\ Fault("closes")
  /\ closer' = [at |-> "look", left |-> IF set.ipc THEN <<"ipc", "tcp">> ELSE <<"tcp">>]
  /\ UNCHANGED <<CloserKeeps, sock, conns, receiver, works, computed>>

LookAtSocket ==
  /\ closer.at = "look"
  /\ closer' = IF sock[Which] = 0 THEN NextClient ELSE [closer EXCEPT !.at = "close"]
  /\ UNCHANGED <<set, CloserKeeps, sock, conns, receiver, works, computed>>

CloseSocket ==
  /\ closer.at = "close"
  /\ closer' = [closer EXCEPT !.at = IF sock[Which] = 0 /\ ~set.ipc THEN "raised" ELSE "forget"]
  /\ conns' = Closed({Which})
  /\ UNCHANGED <<set, CloserKeeps, sock, receiver, works, computed>>

ForgetSocket ==
  /\ closer.at = "forget"
  /\ closer' = NextClient /\ sock' = [sock EXCEPT ![Which] = 0]
  /\ UNCHANGED <<set, CloserKeeps, conns, receiver, works, computed>>

-----------------------------------------------------------------------------
(* The receiver: the accept thread. *)

Accepted(c) == conns[c].at # "backlog"

(* The listening socket is gone, and what it had not accepted with it. *)
Refused(some) ==
  [c \in DOMAIN some |-> IF some[c].at = "backlog" THEN [some[c] EXCEPT !.broken = TRUE, !.parts = <<>>]
                         ELSE some[c]]

(* _accept_tensor_loop: a thread per connection, until it sees the flag. *)
Accept(c) ==
  /\ ~receiver.frozen /\ Listening /\ ~Accepted(c) /\ ~conns[c].broken
  /\ \A d \in 1 .. c - 1 : Accepted(d) \/ conns[d].broken
  /\ LET accepted == [conns EXCEPT ![c].at = IF receiver.stop THEN "done" ELSE "kind"]
     IN IF receiver.stop
        THEN receiver' = [receiver EXCEPT !.accepting = "no"] /\ conns' = Refused(accepted)
        ELSE conns' = accepted /\ UNCHANGED receiver
  /\ UNCHANGED <<set, source, works, computed>>

(* The listener's descriptor is closed under a thread that blocks in       *)
(* accept(): the call may return an error or one more connection. *)
stop_tensor_server ==
  /\ ~receiver.stop /\ ~receiver.frozen /\ Fault("stops")
  /\ \E left \in {"last", "no"} :
       /\ receiver' = [receiver EXCEPT !.stop = TRUE, !.accepting = left]
       /\ conns' = IF left = "no" THEN Refused(conns) ELSE conns
  /\ UNCHANGED <<source, works, computed>>

-----------------------------------------------------------------------------
(* The receiver: the thread of a connection (_handle_tensor_conn). *)

Reads(c) == ~receiver.frozen /\ conns[c].at \in {"kind", "rest", "cells", "handle"}
Moves(c, state) == conns' = [conns EXCEPT ![c] = state]
ReaderKeeps == <<set, source, receiver>>

(* The loop's condition. *)
NextFrame == IF receiver.stop THEN "done" ELSE "kind"

(* How many cells of the buffer the payload takes. *)
\* Mutant: the whole buffer is filled.
WholeBuffer(c) == Len(conns[c].buf)
View(c) == conns[c].frame.size

(* _read_tensor_frame_rest: the tensor leaves the buffer that is reused. *)
\* Mutant: the tensor shares the buffer.
Shared(c, buf) == [own |-> FALSE, cells |-> SubSeq(buf, 1, View(c))]
Cloned(c, buf) == [own |-> TRUE, cells |-> SubSeq(buf, 1, View(c))]

(* _read_ipc_frame_rest: what follows what. *)
\* Mutant: the sender is acknowledged before its tensor is cloned.
AckFirst == [handle |-> "ack", ack |-> "clone", clone |-> "submit"]
IpcNext == [handle |-> "clone", clone |-> "ack", ack |-> "submit"]

(* A part that is not the one expected: its bytes are taken for what they  *)
(* are not. *)
PartRead(c) ==
  LET r == conns[c]
      part == Head(r.parts)
      s == [r EXCEPT !.parts = Tail(@)]
      buf == [r.buf EXCEPT ![r.got + 1] = IF part.is = "cell" THEN part.cell ELSE Garbage]
  IN IF r.at # "cells" /\ part.is # r.at THEN [s EXCEPT !.at = "desync"]
     ELSE CASE r.at = "kind" -> [s EXCEPT !.at = "rest", !.frame = part]
       [] r.at = "rest" /\ r.frame.ipc -> [s EXCEPT !.at = "handle", !.frame = part]
       [] r.at = "rest" /\ ~r.frame.ipc ->
            [s EXCEPT !.at = "cells", !.frame = part, !.got = 0, !.buf = Get(@, part.size)]
       [] r.at = "handle" -> [s EXCEPT !.at = IpcNext.handle]
       [] r.at = "cells" /\ r.got + 1 < View(c) -> [s EXCEPT !.got = @ + 1, !.buf = buf]
       [] OTHER -> [s EXCEPT !.got = 0, !.buf = buf, !.tensor = Cloned(c, buf), !.at = "submit"]

ReadPart(c) ==
  /\ Reads(c) /\ conns[c].parts # <<>>
  /\ Moves(c, PartRead(c))
  /\ UNCHANGED <<ReaderKeeps, works, computed>>

(* A second without a byte: between frames the reader looks at the flag,   *)
(* inside one it goes on. *)
\* Mutant: a timeout always leads back to the loop.
BackToTheLoop(at) == NextFrame
\* Mutant: a second of silence between frames ends the connection.
EndOfStream(at) == IF at = "kind" THEN "done" ELSE at
\* Mutant: the flag is not looked at.
JustRetry(at) == at
TimedOut(at) == IF at = "kind" THEN NextFrame ELSE at

ReadTimeout(c) ==
  /\ Reads(c) /\ conns[c].parts = <<>> /\ ~Gone(c)
  /\ Moves(c, [conns[c] EXCEPT !.at = TimedOut(@)])
  /\ UNCHANGED <<ReaderKeeps, works, computed>>

(* The end of the stream, in a frame or between two. *)
ReadEnds(c) ==
  /\ Reads(c) \/ (~Accepted(c) /\ conns[c].broken)
  /\ conns[c].parts = <<>> /\ Gone(c)
  /\ Moves(c, [conns[c] EXCEPT !.at = "done"])
  /\ UNCHANGED <<ReaderKeeps, works, computed>>

(* pickle.loads(handle).clone(): the sender's memory as it is now. *)
CloneIpc(c) ==
  /\ conns[c].at = "clone" /\ ~receiver.frozen
  /\ Moves(c, [conns[c] EXCEPT !.at = IpcNext.clone,
       !.tensor = [own |-> TRUE, cells |-> [i \in 1 .. View(c) |-> <<memory[conns[c].frame.batch], i>>]]])
  /\ UNCHANGED <<ReaderKeeps, works, computed>>

(* The ACK; on a socket the sender has closed it may raise, and the tensor *)
(* is dropped. *)
SendAck(c) ==
  /\ conns[c].at = "ack" /\ ~receiver.frozen
  /\ \/ Moves(c, [conns[c] EXCEPT !.at = IpcNext.ack, !.ack = TRUE])
     \/ Gone(c) /\ Moves(c, [conns[c] EXCEPT !.at = "done"])
  /\ UNCHANGED <<ReaderKeeps, works, computed>>

(* _pool.submit. *)
Submit(c) ==
  /\ conns[c].at = "submit" /\ ~receiver.frozen
  /\ works' = Append(works, [conn |-> c, kind |-> conns[c].frame.kind, batch |-> conns[c].frame.batch,
                             tensor |-> conns[c].tensor])
  /\ Moves(c, [conns[c] EXCEPT !.at = NextFrame, !.tensor.cells = <<>>])
  /\ UNCHANGED <<ReaderKeeps, computed>>

(* _forward_tensor or _backward_tensor in the pool's thread. *)
Compute ==
  /\ works # <<>> /\ ~receiver.frozen
  /\ LET w == Head(works)
         cells == IF w.tensor.own THEN w.tensor.cells
                  ELSE SubSeq(conns[w.conn].buf, 1, Len(w.tensor.cells))
     IN computed' = computed \cup {[conn |-> w.conn, kind |-> w.kind, batch |-> w.batch, cells |-> cells]}
  /\ works' = Tail(works)
  /\ UNCHANGED <<ReaderKeeps, conns>>

-----------------------------------------------------------------------------
(* The network and the receiver's process. *)

Break(c) ==
  /\ ~Gone(c) /\ ~Done(c) /\ Fault("breaks")
  /\ conns' = [conns EXCEPT ![c].broken = TRUE, ![c].parts = <<>>]
  /\ UNCHANGED <<source, receiver, works, computed>>

Freeze ==
  /\ ~receiver.frozen /\ Fault("freezes")
  /\ receiver' = [receiver EXCEPT !.frozen = TRUE]
  /\ UNCHANGED <<source, conns, works, computed>>

SenderStep ==
  \/ send_tensor \/ Synchronize \/ _ensure_connected \/ SendPart \/ ReceiveAck
  \/ SendFails \/ SendCloses
CloserStep == LookAtSocket \/ CloseSocket \/ ForgetSocket
ReaderStep(c) ==
  \/ ReadPart(c) \/ ReadTimeout(c) \/ ReadEnds(c) \/ CloneIpc(c) \/ SendAck(c) \/ Submit(c)

Running ==
  \/ SenderStep \/ DmaCopy \/ CloserStep \/ Compute
  \/ \E c \in Conn : ReaderStep(c) \/ Accept(c) \/ Collect(c)

Next ==
  \/ Running
  \/ BeginClose \/ stop_tensor_server \/ Freeze
  \/ \E c \in Conn : Break(c)

(* Something that can run does: less than the scheduling of each thread    *)
(* gives.  Nothing forces a close, a stop or a fault. *)
Spec == Init /\ [][Next]_vars /\ WF_vars(Running)

-----------------------------------------------------------------------------
(* Properties. *)

(* Every variable keeps its shape; a send uses at most one connection. *)
TypeOK ==
  /\ sender.at \in {"idle", "copy", "connect", "send", "ack", "close"} /\ sender.conn \in {0} \cup Conn
  /\ sender.at \in {"send", "ack"} => sender.conn # 0
  /\ \A n \in DOMAIN outcome : outcome[n].is \in {"sent", "failed", "fatal"}
  /\ closer.at \in {"idle", "look", "close", "forget", "raised"}
  /\ receiver.accepting \in {"yes", "last", "no"}
  /\ dma \in {0} \cup Frame /\ \A w \in DOMAIN sock : sock[w] \in {0} \cup Conn
  /\ \A c \in Conn :
       /\ conns[c].at \in {"backlog", "kind", "rest", "cells", "handle", "clone", "ack", "submit",
                           "done", "desync"}
       /\ Len(conns[c].parts) <= Buffer /\ Len(conns[c].buf) >= conns[c].got

(* "inside a frame a slow sender must not desynchronise the stream":       *)
(* whatever timeouts, failed sends and closed sockets a connection sees,   *)
(* its reader never takes one part of a frame for another, and what it     *)
(* hands on is a frame of the sender with its own kind and length. *)
FramesArriveWhole ==
  /\ TypeOK
  /\ \A c \in Conn : conns[c].at # "desync"
  /\ \A n \in DOMAIN works : LET w == works[n] IN
       w.kind = set.frames[w.batch].kind /\ Len(w.tensor.cells) = set.frames[w.batch].size

(* The send of the frame returned. *)
Sent(n) == n \in DOMAIN outcome /\ outcome[n].is = "sent"

(* A frame whose send returned is computed on as it was sent, although the *)
(* pinned buffer, the receive buffer and the sender's memory are all used  *)
(* again. *)
TensorsKeepTheirData ==
  \A w \in computed :
    Sent(w.batch) => w.cells = [i \in 1 .. set.frames[w.batch].size |-> <<w.batch, i>>]

(* Nobody promises it any more. *)
Lost(n) == receiver.stop \/ receiver.frozen \/ (Sent(n) /\ conns[outcome[n].conn].broken)

(* A frame whose send returned is computed on, even if the client is       *)
(* closed right after, unless the receiver stops or freezes or the         *)
(* connection breaks: nobody sends it again. *)
SentFramesArrive ==
  <>[](\A n \in DOMAIN outcome : Sent(n) => Lost(n) \/ \E w \in computed : w.batch = n)

(* Every send returns or raises, even when the receiver freezes with a     *)
(* frame half read or not acknowledged. *)
SendsEnd == sender.at # "idle" ~> sender.at = "idle"

(* Once _tensor_stop is set the thread of every connection ends, idle or   *)
(* in a frame, accepted before or after. *)
ReadersEnd == <>[](receiver.stop => receiver.frozen \/ \A c \in Conn : Done(c))

(* The stream settles: what was sent arrives, sends return, and the        *)
(* readers of a receiver that stopped end (send_tensor, close,             *)
(* _handle_tensor_conn). *)
StreamSettles == SentFramesArrive /\ SendsEnd /\ ReadersEnd
=============================================================================
