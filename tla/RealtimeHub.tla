---------------------------- MODULE RealtimeHub ----------------------------
(***************************************************************************)
(* The hub that pushes events to websocket clients                         *)
(* (backend/internal/realtime).  Goroutines: the HTTP handler that starts  *)
(* a client, a client's readPump and writePump, publishers that call       *)
(* Broadcast, and Shutdown.  They share the map of clients, guarded by a   *)
(* sync.RWMutex; each client has a buffered channel and a sync.Once.       *)
(*                                                                         *)
(*   clients, mu      Hub.clients; who holds Hub.mu for writing over more  *)
(*                    than one step                                        *)
(*   sending, todo    publishers inside Broadcast (they hold mu for        *)
(*                    reading) and the clients they have left to visit     *)
(*   sent             how many messages a publisher has begun to broadcast *)
(*   inbox, closed    Client.send: what is buffered; closed channels       *)
(*   hand, delivered  the message writePump writes now; those written      *)
(*   conn, once       the connection; how far Client.Close has come        *)
(*   pump             where readPump and writePump are                     *)
(*   stop, victims, current, snapshot   Shutdown: where it is, whom it has *)
(*                    left to close, closes now, and had to close          *)
(***************************************************************************)
EXTENDS Naturals, Sequences

CONSTANTS
  Clients, Publishers,
  Capacity,     (* of the send channel: 16 in the code                     *)
  MaxMessages,  (* bound: messages a publisher sends                       *)
  NoClient      (* Shutdown closes no client at the moment                 *)

ASSUME HubAssumption ==
  Capacity \in Nat \ {0} /\ MaxMessages \in Nat /\ NoClient \notin Clients

VARIABLES clients, mu, sending, todo, sent, inbox, closed, hand, delivered,
          conn, once, pump, stop, victims, current, snapshot

hub      == <<clients, mu>>
channels == <<inbox, closed>>
casting  == <<sending, todo, sent>>
socket   == <<hand, delivered, conn>>
down     == <<stop, victims, current, snapshot>>
vars     == <<hub, casting, channels, socket, once, pump, down>>

Pumps    == {"reader", "writer"}
Messages == [from : Publishers, n : 1..MaxMessages]

Init ==
  /\ clients = {} /\ mu = "free"
  /\ sending = {}
  /\ todo = [p \in Publishers |-> {}]
  /\ sent = [p \in Publishers |-> 0]
  /\ inbox = [c \in Clients |-> <<>>] /\ closed = {}
  /\ hand = [c \in Clients |-> <<>>]
  /\ delivered = [c \in Clients |-> <<>>]
  /\ conn = [c \in Clients |-> "new"]
  /\ once = [c \in Clients |-> "fresh"]
  /\ pump = [c \in Clients |-> [g \in Pumps |-> "off"]]
  /\ stop = "off" /\ victims = {} /\ current = NoClient /\ snapshot = {}

-----------------------------------------------------------------------------
Fault_CanLock == mu = "free"              \* RLock instead of Lock
(* mu.Lock() succeeds: nobody reads or writes.                             *)
CanLock == mu = "free" /\ sending = {}

CanRLock == mu = "free"

(* Start: Register, then `go` both pumps.                                  *)
Register(c) ==
  /\ conn[c] = "new" /\ CanLock
  /\ clients' = clients \cup {c}
  /\ conn' = [conn EXCEPT ![c] = "open"]
  /\ UNCHANGED <<mu, casting, channels, hand, delivered, once, pump, down>>

StartPumps(c) ==
  /\ conn[c] # "new" /\ pump[c] = [g \in Pumps |-> "off"]
  /\ pump' = [pump EXCEPT ![c] = [g \in Pumps |-> "run"]]
  /\ UNCHANGED <<hub, casting, channels, socket, once, down>>

(* The peer closes, the network fails, or a message is too long.           *)
LoseConnection(c) ==
  /\ conn[c] = "open"
  /\ conn' = [conn EXCEPT ![c] = "lost"]
  /\ UNCHANGED <<hub, casting, channels, hand, delivered, once, pump, down>>

-----------------------------------------------------------------------------
(* Broadcast: RLock, then one select for each client in the map.           *)
BeginBroadcast(p) ==
  /\ p \notin sending /\ sent[p] < MaxMessages /\ CanRLock
  /\ sending' = sending \cup {p}
  /\ todo' = [todo EXCEPT ![p] = clients]
  /\ sent' = [sent EXCEPT ![p] = @ + 1]
  /\ UNCHANGED <<hub, channels, socket, once, pump, down>>

Message(p) == [from |-> p, n |-> sent[p]]
Visit(p, c) == todo' = [todo EXCEPT ![p] = @ \ {c}]

\* A send without a default case.
Fault_TrySend(p, c) ==
  /\ Len(inbox[c]) < Capacity
  /\ inbox' = [inbox EXCEPT ![c] = Append(@, Message(p))]
  /\ Visit(p, c)

(* select with a default case: a full buffer drops the message.            *)
TrySend(p, c) ==
  /\ inbox' = IF Len(inbox[c]) < Capacity
              THEN [inbox EXCEPT ![c] = Append(@, Message(p))] ELSE inbox
  /\ Visit(p, c)

SendTo(p, c) ==
  /\ c \in todo[p]
  /\ TrySend(p, c)
  /\ UNCHANGED <<hub, sending, sent, closed, socket, once, pump, down>>

EndBroadcast(p) ==
  /\ p \in sending /\ todo[p] = {}
  /\ sending' = sending \ {p}
  /\ UNCHANGED <<hub, todo, sent, channels, socket, once, pump, down>>

-----------------------------------------------------------------------------
(* Client.Close: closeOnce lets one caller in; the others wait for it.     *)
Calls(c) == current = c \/ \E g \in Pumps : pump[c][g] = "close"

EnterClose(c) ==
  /\ Calls(c) /\ once[c] = "fresh"
  /\ once' = [once EXCEPT ![c] = "cancelled"]
  /\ UNCHANGED <<hub, casting, channels, socket, pump, down>>

Unregister(c) ==
  /\ once[c] = "cancelled" /\ CanLock
  /\ clients' = clients \ {c}
  /\ closed' = IF c \in clients THEN closed \cup {c} ELSE closed
  /\ once' = [once EXCEPT ![c] = "unregistered"]
  /\ UNCHANGED <<mu, casting, inbox, socket, pump, down>>

\* The connection is left open.
Fault_CloseConnection(c) ==
  /\ once[c] = "unregistered"
  /\ once' = [once EXCEPT ![c] = "done"]
  /\ UNCHANGED <<hub, casting, channels, socket, pump, down>>

CloseConnection(c) ==
  /\ once[c] = "unregistered"
  /\ conn' = [conn EXCEPT ![c] = "closed"]
  /\ once' = [once EXCEPT ![c] = "done"]
  /\ UNCHANGED <<hub, casting, channels, hand, delivered, pump, down>>

Fault_Closed(c) == once[c] # "fresh"      \* a flag instead of sync.Once
(* A call of Close returns.                                                *)
Closed(c) == once[c] = "done"

PumpEnds(c, g) ==
  /\ pump[c][g] = "close" /\ Closed(c)
  /\ pump' = [pump EXCEPT ![c][g] = "done"]
  /\ UNCHANGED <<hub, casting, channels, socket, once, down>>

-----------------------------------------------------------------------------
(* readPump discards what it reads, until ReadMessage fails.               *)
ReadFails(c) ==
  /\ pump[c]["reader"] = "run" /\ conn[c] # "open"
  /\ pump' = [pump EXCEPT ![c]["reader"] = "close"]
  /\ UNCHANGED <<hub, casting, channels, socket, once, down>>

(* writePump between two messages: its select takes a message, or sees the *)
(* cancelled context or the closed and empty channel.                      *)
Selecting(c) == pump[c]["writer"] = "run" /\ hand[c] = <<>>

TakeMessage(c) ==
  /\ Selecting(c) /\ inbox[c] # <<>>
  /\ hand' = [hand EXCEPT ![c] = <<Head(inbox[c])>>]
  /\ inbox' = [inbox EXCEPT ![c] = Tail(@)]
  /\ UNCHANGED <<hub, casting, closed, delivered, conn, once, pump, down>>

StopWriting(c) ==
  /\ Selecting(c)
  /\ once[c] # "fresh" \/ (c \in closed /\ inbox[c] = <<>>)
  /\ pump' = [pump EXCEPT ![c]["writer"] = "close"]
  /\ UNCHANGED <<hub, casting, channels, socket, once, down>>

WriteMessage(c) ==
  /\ hand[c] # <<>> /\ conn[c] = "open"
  /\ delivered' = [delivered EXCEPT ![c] = @ \o hand[c]]
  /\ hand' = [hand EXCEPT ![c] = <<>>]
  /\ UNCHANGED <<hub, casting, channels, conn, once, pump, down>>

\* A write that timed out is queued again.
Fault_WriteFails(c) ==
  /\ hand[c] # <<>>
  /\ hand' = [hand EXCEPT ![c] = <<>>]
  /\ inbox' = [inbox EXCEPT ![c] = @ \o hand[c]]
  /\ UNCHANGED <<hub, casting, closed, delivered, conn, once, pump, down>>

(* The connection is gone, or the write deadline has passed.               *)
WriteFails(c) ==
  /\ hand[c] # <<>>
  /\ hand' = [hand EXCEPT ![c] = <<>>]
  /\ pump' = [pump EXCEPT ![c]["writer"] = "close"]
  /\ UNCHANGED <<hub, casting, channels, delivered, conn, once, down>>

-----------------------------------------------------------------------------
(* Shutdown: copy the map under the lock, release it, close one client     *)
(* after the other.                                                        *)
BeginShutdown ==
  /\ stop = "off" /\ CanLock
  /\ mu' = "shutdown" /\ stop' = "locked"
  /\ victims' = clients /\ snapshot' = clients
  /\ UNCHANGED <<clients, casting, channels, socket, once, pump, current>>

\* The lock is kept (defer mu.Unlock()) while the clients are closed.
Fault_UnlockShutdown ==
  /\ stop = "locked" /\ stop' = "closing"
  /\ UNCHANGED <<hub, casting, channels, socket, once, pump, victims, current, snapshot>>

UnlockShutdown ==
  /\ stop = "locked" /\ stop' = "closing"
  /\ mu' = "free"
  /\ UNCHANGED <<clients, casting, channels, socket, once, pump, victims, current, snapshot>>

CloseNext(c) ==
  /\ stop = "closing" /\ current = NoClient /\ c \in victims
  /\ current' = c
  /\ UNCHANGED <<hub, casting, channels, socket, once, pump, stop, victims, snapshot>>

CloseReturns(c) ==
  /\ current = c /\ Closed(c)
  /\ victims' = victims \ {c} /\ current' = NoClient
  /\ UNCHANGED <<hub, casting, channels, socket, once, pump, stop, snapshot>>

EndShutdown ==
  /\ stop = "closing" /\ victims = {}
  /\ stop' = "done"
  /\ UNCHANGED <<hub, casting, channels, socket, once, pump, victims, current, snapshot>>

-----------------------------------------------------------------------------
Writer(c) == TakeMessage(c) \/ StopWriting(c) \/ WriteMessage(c) \/ WriteFails(c)

ClientStep(c) ==
  \/ Register(c) \/ StartPumps(c) \/ LoseConnection(c)
  \/ ReadFails(c) \/ Writer(c)
  \/ EnterClose(c) \/ Unregister(c) \/ CloseConnection(c)
  \/ \E g \in Pumps : PumpEnds(c, g)

PublisherStep(p) ==
  \/ BeginBroadcast(p) \/ EndBroadcast(p)
  \/ \E c \in Clients : SendTo(p, c)

ShutdownStep ==
  \/ BeginShutdown \/ UnlockShutdown \/ EndShutdown
  \/ \E c \in Clients : CloseNext(c) \/ CloseReturns(c)

Next ==
  \/ \E c \in Clients : ClientStep(c)
  \/ \E p \in Publishers : PublisherStep(p)
  \/ ShutdownStep

Spec == Init /\ [][Next]_vars

(* A goroutine that can run does run.  RWMutex lets a waiting Lock go      *)
(* before new readers: a Lock that is possible again and again succeeds.   *)
(* Nobody has to connect, publish, shut down or lose a connection.         *)
Fairness ==
  /\ \A c \in Clients :
       /\ WF_vars(StartPumps(c)) /\ WF_vars(ReadFails(c)) /\ WF_vars(Writer(c))
       /\ WF_vars(EnterClose(c)) /\ SF_vars(Unregister(c))
       /\ WF_vars(CloseConnection(c))
       /\ \A g \in Pumps : WF_vars(PumpEnds(c, g))
       /\ WF_vars(CloseNext(c)) /\ WF_vars(CloseReturns(c))
  /\ \A p \in Publishers :
       /\ WF_vars(EndBroadcast(p)) /\ WF_vars(\E c \in Clients : SendTo(p, c))
  /\ WF_vars(UnlockShutdown) /\ WF_vars(EndShutdown)

FairSpec == Spec /\ Fairness

-----------------------------------------------------------------------------
(* Every variable keeps its type; a send buffer never exceeds its capacity.*)
TypeOK ==
  /\ clients \subseteq Clients /\ mu \in {"free", "shutdown"}
  /\ sending \subseteq Publishers
  /\ todo \in [Publishers -> SUBSET Clients]
  /\ sent \in [Publishers -> 0..MaxMessages]
  /\ inbox \in [Clients -> Seq(Messages)] /\ closed \subseteq Clients
  /\ \A c \in Clients : Len(inbox[c]) <= Capacity
  /\ hand \in [Clients -> {<<>>} \cup {<<m>> : m \in Messages}]
  /\ delivered \in [Clients -> Seq(Messages)]
  /\ conn \in [Clients -> {"new", "open", "lost", "closed"}]
  /\ once \in [Clients -> {"fresh", "cancelled", "unregistered", "done"}]
  /\ pump \in [Clients -> [Pumps -> {"off", "run", "close", "done"}]]
  /\ stop \in {"off", "locked", "closing", "done"}
  /\ victims \subseteq Clients /\ snapshot \subseteq Clients
  /\ current \in Clients \cup {NoClient}

(* Broadcast never sends on a closed channel, which would panic, and never *)
(* ranges over a map that is written to: what it has left to visit is      *)
(* registered, and no registered client's channel is closed, whichever     *)
(* pump or Shutdown unregisters clients meanwhile.                         *)
BroadcastIsSafe ==
  /\ \A p \in Publishers : todo[p] \subseteq clients
  /\ clients \cap closed = {}

(* A client gets a publisher's messages in the order they were published,  *)
(* each at most once, although concurrent broadcasts mix and messages are  *)
(* dropped when its buffer is full.                                        *)
InOrder ==
  \A c \in Clients :
    LET seen == delivered[c] \o hand[c] \o inbox[c]
    IN \A i, j \in 1..Len(seen) :
         i < j /\ seen[i].from = seen[j].from => seen[i].n < seen[j].n

(* When Shutdown returns, every client it found is unregistered and its    *)
(* connection closed, also one whose own pumps were closing it.            *)
ShutdownLeavesNobody ==
  stop = "done" => \A c \in snapshot : c \notin clients /\ conn[c] = "closed"

(* Broadcast always returns: a client that does not read blocks nobody.    *)
BroadcastEnds == \A p \in Publishers : p \in sending ~> p \notin sending

Gone(c) == c \notin clients /\ pump[c] = [g \in Pumps |-> "done"]

(* A client whose connection is lost, or which somebody began to close, is *)
(* unregistered, and both its goroutines end.                              *)
LostClientGoes ==
  \A c \in Clients : (conn[c] = "lost" \/ once[c] # "fresh") ~> Gone(c)

(* Shutdown returns.                                                       *)
ShutdownEnds == stop # "off" ~> stop = "done"
=============================================================================
