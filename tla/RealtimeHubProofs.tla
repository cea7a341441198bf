-------------------------- MODULE RealtimeHubProofs --------------------------
(***************************************************************************)
(* Proofs about RealtimeHub, for any clients, publishers, buffer capacity  *)
(* and number of messages.                                                 *)
(***************************************************************************)
EXTENDS RealtimeHub, SequenceTheorems, TLAPS

(* The map of clients: no broadcast, nothing left to visit and, in one, a  *)
(* message to send; a client in the map, or with a closed channel, has     *)
(* been registered.                                                        *)
MapInv ==
  /\ \A p \in Publishers : p \notin sending => todo[p] = {}
  /\ \A p \in sending : sent[p] > 0
  /\ \A c \in clients \cup closed : conn[c] # "new"
  /\ BroadcastIsSafe

(* Client.Close: whoever calls it, the client has been registered, and how *)
(* far it has come; only a running writePump holds a message.              *)
CloseInv ==
  /\ \A c \in Clients :
       \/ conn[c] # "new"
       \/ once[c] = "fresh" /\ \A g \in Pumps : pump[c][g] = "off"
  /\ \A c \in Clients : once[c] \in {"unregistered", "done"} => c \notin clients
  /\ \A c \in Clients : hand[c] # <<>> => pump[c]["writer"] = "run"
  /\ \A c \in Clients : once[c] = "done" => conn[c] = "closed"

(* Shutdown: whom it found and has no longer to close is closed.           *)
StopInv ==
  /\ stop = "off" => snapshot = {}
  /\ stop = "done" => victims = {}
  /\ \A c \in snapshot \ victims : once[c] = "done"
  /\ \A c \in victims : conn[c] # "new"
  /\ stop # "closing" => current = NoClient
  /\ current # NoClient => current \in victims

Inv == MapInv /\ CloseInv /\ StopInv

-----------------------------------------------------------------------------
LEMMA TypeStep ==
  ASSUME HubAssumption, TypeOK, Inv, [Next]_vars
  PROVE  TypeOK'
<1> USE DEF TypeOK, Pumps, hub, casting, channels, socket, down
<1>1. ASSUME NEW c \in Clients, StartPumps(c) PROVE TypeOK'
  BY <1>1 DEF StartPumps
<1>2. ASSUME NEW c \in Clients, LoseConnection(c) PROVE TypeOK'
  BY <1>2 DEF LoseConnection
<1>3. ASSUME NEW c \in Clients, Register(c) PROVE TypeOK'
  BY <1>3 DEF Register, CanLock
<1>4. ASSUME NEW c \in Clients, ReadFails(c) PROVE TypeOK'
  BY <1>4 DEF ReadFails
<1>5. ASSUME NEW c \in Clients, TakeMessage(c) PROVE TypeOK'
  BY <1>5 DEF TakeMessage, Selecting
<1>6. ASSUME NEW c \in Clients, StopWriting(c) PROVE TypeOK'
  BY <1>6 DEF StopWriting, Selecting
<1>7. ASSUME NEW c \in Clients, WriteMessage(c) PROVE TypeOK'
  <2>1. PICK m \in Messages : hand[c] = <<m>>
    BY <1>7 DEF WriteMessage
  <2>2. delivered[c] \o <<m>> \in Seq(Messages)
    OBVIOUS
  <2>3. delivered' \in [Clients -> Seq(Messages)]
    BY <1>7, <2>1, <2>2 DEF WriteMessage
  <2> QED BY <1>7, <2>3 DEF WriteMessage
<1>8. ASSUME NEW c \in Clients, WriteFails(c) PROVE TypeOK'
  BY <1>8 DEF WriteFails
<1>9. ASSUME NEW c \in Clients, EnterClose(c) PROVE TypeOK'
  BY <1>9 DEF EnterClose
<1>10. ASSUME NEW c \in Clients, Unregister(c) PROVE TypeOK'
  BY <1>10 DEF Unregister, CanLock
<1>11. ASSUME NEW c \in Clients, CloseConnection(c) PROVE TypeOK'
  BY <1>11 DEF CloseConnection
<1>12. ASSUME NEW c \in Clients, NEW g \in Pumps, PumpEnds(c, g) PROVE TypeOK'
  BY <1>12 DEF PumpEnds
<1>13. ASSUME NEW p \in Publishers, BeginBroadcast(p) PROVE TypeOK'
  BY <1>13 DEF BeginBroadcast, HubAssumption
<1>14. ASSUME NEW p \in Publishers, EndBroadcast(p) PROVE TypeOK'
  BY <1>14 DEF EndBroadcast
<1>15. ASSUME NEW p \in Publishers, NEW c \in Clients, SendTo(p, c) PROVE TypeOK'
  <2>1. Message(p) \in Messages
    <3>1. p \in sending
      BY <1>15 DEF SendTo, Inv, MapInv
    <3>2. sent[p] > 0 /\ sent[p] \in 0..MaxMessages
      BY <3>1 DEF Inv, MapInv
    <3>3. sent[p] \in 1..MaxMessages
      BY <3>2, HubAssumption DEF HubAssumption
    <3> QED BY <3>3 DEF Message, Messages
  <2>2. /\ inbox' \in [Clients -> Seq(Messages)]
        /\ \A d \in Clients : Len(inbox'[d]) <= Capacity
    <3>1. CASE Len(inbox[c]) < Capacity
      <4>1. /\ Append(inbox[c], Message(p)) \in Seq(Messages)
            /\ Len(Append(inbox[c], Message(p))) <= Capacity
        BY <2>1, <3>1, HubAssumption DEF HubAssumption
      <4> HIDE DEF Messages, Message
      <4> QED BY <1>15, <3>1, <4>1 DEF SendTo, TrySend
    <3>2. CASE ~(Len(inbox[c]) < Capacity)
      BY <1>15, <3>2 DEF SendTo, TrySend
    <3> QED BY <3>1, <3>2
  <2> QED BY <1>15, <2>2 DEF SendTo, TrySend, Visit
<1>16. ASSUME BeginShutdown PROVE TypeOK'
  BY <1>16 DEF BeginShutdown
<1>17. ASSUME UnlockShutdown PROVE TypeOK'
  BY <1>17 DEF UnlockShutdown
<1>18. ASSUME EndShutdown PROVE TypeOK'
  BY <1>18 DEF EndShutdown
<1>19. ASSUME NEW c \in Clients, CloseNext(c) PROVE TypeOK'
  BY <1>19 DEF CloseNext
<1>20. ASSUME NEW c \in Clients, CloseReturns(c) PROVE TypeOK'
  BY <1>20 DEF CloseReturns
<1>21. ASSUME UNCHANGED vars PROVE TypeOK'
  BY <1>21 DEF vars
<1> HIDE DEF TypeOK
<1> QED
  BY <1>1, <1>2, <1>3, <1>4, <1>5, <1>6, <1>7, <1>8, <1>9, <1>10, <1>11, <1>12,
     <1>13, <1>14, <1>15, <1>16, <1>17, <1>18, <1>19, <1>20, <1>21
  DEF Next, ClientStep, Writer, PublisherStep, ShutdownStep

LEMMA InvStep ==
  ASSUME HubAssumption, TypeOK, Inv, [Next]_vars
  PROVE  Inv'
<1> USE DEF Inv, MapInv, CloseInv, StopInv, BroadcastIsSafe, TypeOK, Pumps,
            hub, casting, channels, socket, down
<1>1. ASSUME NEW c \in Clients, StartPumps(c) PROVE Inv'
  BY <1>1 DEF StartPumps
<1>2. ASSUME NEW c \in Clients, LoseConnection(c) PROVE Inv'
  BY <1>2 DEF LoseConnection
<1>3. ASSUME NEW c \in Clients, Register(c) PROVE Inv'
  BY <1>3 DEF Register, CanLock
<1>4. ASSUME NEW c \in Clients, ReadFails(c) PROVE Inv'
  BY <1>4 DEF ReadFails
<1>5. ASSUME NEW c \in Clients, TakeMessage(c) PROVE Inv'
  BY <1>5 DEF TakeMessage, Selecting
<1>6. ASSUME NEW c \in Clients, StopWriting(c) PROVE Inv'
  BY <1>6 DEF StopWriting, Selecting
<1>7. ASSUME NEW c \in Clients, WriteMessage(c) PROVE Inv'
  BY <1>7 DEF WriteMessage
<1>8. ASSUME NEW c \in Clients, WriteFails(c) PROVE Inv'
  BY <1>8 DEF WriteFails
<1>9. ASSUME NEW c \in Clients, EnterClose(c) PROVE Inv'
  BY <1>9 DEF EnterClose, Calls
<1>10. ASSUME NEW c \in Clients, Unregister(c) PROVE Inv'
  BY <1>10 DEF Unregister, CanLock
<1>11. ASSUME NEW c \in Clients, CloseConnection(c) PROVE Inv'
  BY <1>11 DEF CloseConnection
<1>12. ASSUME NEW c \in Clients, NEW g \in Pumps, PumpEnds(c, g) PROVE Inv'
  BY <1>12 DEF PumpEnds
<1>13. ASSUME NEW p \in Publishers, BeginBroadcast(p) PROVE Inv'
  BY <1>13 DEF BeginBroadcast, CanRLock
<1>14. ASSUME NEW p \in Publishers, EndBroadcast(p) PROVE Inv'
  BY <1>14 DEF EndBroadcast
<1>15. ASSUME NEW p \in Publishers, NEW c \in Clients, SendTo(p, c) PROVE Inv'
  BY <1>15 DEF SendTo, TrySend, Visit
<1>16. ASSUME BeginShutdown PROVE Inv'
  BY <1>16 DEF BeginShutdown, CanLock
<1>17. ASSUME UnlockShutdown PROVE Inv'
  BY <1>17 DEF UnlockShutdown
<1>18. ASSUME EndShutdown PROVE Inv'
  BY <1>18 DEF EndShutdown
<1>19. ASSUME NEW c \in Clients, CloseNext(c) PROVE Inv'
  BY <1>19 DEF CloseNext
<1>20. ASSUME NEW c \in Clients, CloseReturns(c) PROVE Inv'
  BY <1>20 DEF CloseReturns, Closed
<1>21. ASSUME UNCHANGED vars PROVE Inv'
  BY <1>21 DEF vars
<1> QED
  BY <1>1, <1>2, <1>3, <1>4, <1>5, <1>6, <1>7, <1>8, <1>9, <1>10, <1>11, <1>12,
     <1>13, <1>14, <1>15, <1>16, <1>17, <1>18, <1>19, <1>20, <1>21
  DEF Next, ClientStep, Writer, PublisherStep, ShutdownStep

-----------------------------------------------------------------------------
LEMMA Inductive == Spec => [](TypeOK /\ Inv)
<1>1. Init => TypeOK /\ Inv
  BY HubAssumption
  DEF Init, TypeOK, Inv, MapInv, CloseInv, StopInv, BroadcastIsSafe, HubAssumption
<1>2. TypeOK /\ Inv /\ [Next]_vars => (TypeOK /\ Inv)'
  BY HubAssumption, TypeStep, InvStep
<1> QED BY <1>1, <1>2, PTL DEF Spec

(* Every variable of RealtimeHub keeps its type; no send buffer exceeds    *)
(* its capacity.                                                           *)
THEOREM HubTypeCorrect == Spec => []TypeOK
<1> QED BY Inductive, PTL

(* No broadcast sends on a closed channel or ranges over a map that is     *)
(* written to.                                                             *)
THEOREM BroadcastNeverPanics == Spec => []BroadcastIsSafe
<1>1. Inv => BroadcastIsSafe
  BY DEF Inv, MapInv
<1> QED BY <1>1, Inductive, PTL

(* When Shutdown returns, every client it found is unregistered and its    *)
(* connection closed.                                                      *)
THEOREM ShutdownClosesAll == Spec => []ShutdownLeavesNobody
<1>1. TypeOK /\ Inv => ShutdownLeavesNobody
  BY DEF TypeOK, Inv, CloseInv, StopInv, ShutdownLeavesNobody
<1> QED BY <1>1, Inductive, PTL

-----------------------------------------------------------------------------
(* InOrder, for one sequence of messages.                                  *)
Ordered(s) ==
  \A i, j \in 1..Len(s) : i < j /\ s[i].from = s[j].from => s[i].n < s[j].n

(* What client c got, is given now, or will be given.                      *)
Seen(c) == delivered[c] \o hand[c] \o inbox[c]

(* A message on its way is not ahead of its publisher, and a publisher     *)
(* that has yet to visit c has not sent c its current message.             *)
NotAhead(c, m) ==
  /\ m.n <= sent[m.from]
  /\ c \in todo[m.from] => m.n < sent[m.from]

OrderInv ==
  \A c \in Clients :
    /\ Ordered(Seen(c))
    /\ \A i \in 1..Len(Seen(c)) : NotAhead(c, Seen(c)[i])

(* A message that is later than all of its publisher's is put at the end.  *)
LEMMA AppendOrdered ==
  ASSUME NEW s \in Seq(Messages), NEW m \in Messages, Ordered(s),
         \A i \in 1..Len(s) : s[i].from = m.from => s[i].n < m.n
  PROVE  Ordered(Append(s, m))
<1> DEFINE t == Append(s, m)
<1>1. /\ Len(t) = Len(s) + 1 /\ t[Len(s) + 1] = m
      /\ \A i \in 1..Len(s) : t[i] = s[i]
  OBVIOUS
<1>2. Len(s) \in Nat
  OBVIOUS
<1> HIDE DEF t
<1>3. ASSUME NEW i \in 1..Len(t), NEW j \in 1..Len(t), i < j, t[i].from = t[j].from
      PROVE  t[i].n < t[j].n
  <2>1. i \in 1..Len(s)
    BY <1>1, <1>2, <1>3
  <2>2. CASE j \in 1..Len(s)
    BY <1>1, <1>3, <2>1, <2>2 DEF Ordered
  <2>3. CASE j = Len(s) + 1
    BY <1>1, <1>3, <2>1, <2>3
  <2> QED BY <1>1, <1>2, <2>2, <2>3
<1> QED BY <1>3 DEF Ordered, t

(* A message lost from the middle leaves the others in order; each of them *)
(* was there before.                                                       *)
LEMMA DropOrdered ==
  ASSUME NEW a \in Seq(Messages), NEW b \in Seq(Messages), NEW m \in Messages,
         Ordered(a \o <<m>> \o b)
  PROVE  /\ Ordered(a \o b)
         /\ \A i \in 1..Len(a \o b) :
              \E k \in 1..Len(a \o <<m>> \o b) : (a \o b)[i] = (a \o <<m>> \o b)[k]
<1> DEFINE s == a \o <<m>> \o b
           t == a \o b
           At(i) == IF i <= Len(a) THEN i ELSE i + 1
<1>1. /\ Len(s) = Len(a) + 1 + Len(b) /\ Len(t) = Len(a) + Len(b)
      /\ Len(a) \in Nat /\ Len(b) \in Nat
  OBVIOUS
<1>2. ASSUME NEW i \in 1..Len(t)
      PROVE  At(i) \in 1..Len(s) /\ t[i] = s[At(i)]
  <2>1. CASE i <= Len(a)
    BY <1>1, <2>1
  <2>2. CASE i > Len(a)
    BY <1>1, <2>2
  <2> QED BY <1>1, <2>1, <2>2
<1> HIDE DEF s, t
<1>3. Ordered(t)
  <2> SUFFICES ASSUME NEW i \in 1..Len(t), NEW j \in 1..Len(t),
                      i < j, t[i].from = t[j].from
               PROVE  t[i].n < t[j].n
    BY DEF Ordered
  <2>1. At(i) < At(j)
    BY <1>1
  <2> QED BY <1>2, <2>1 DEF Ordered, s
<1>4. \A i \in 1..Len(t) : \E k \in 1..Len(s) : t[i] = s[k]
  BY <1>2
<1> QED BY <1>3, <1>4 DEF s, t

LEMMA OrderStep ==
  ASSUME HubAssumption, TypeOK, Inv, OrderInv, [Next]_vars
  PROVE  OrderInv'
<1> SUFFICES ASSUME NEW c \in Clients, NEW s, NEW t, s = Seen(c), t = Seen(c)'
             PROVE  /\ Ordered(t)
                    /\ \A i \in 1..Len(t) :
                         /\ t[i].n <= sent'[t[i].from]
                         /\ c \in todo'[t[i].from] => t[i].n < sent'[t[i].from]
  BY DEF OrderInv, NotAhead, Ordered
<1> DEFINE Kept == /\ Ordered(t)
                   /\ \A i \in 1..Len(t) :
                        /\ t[i].n <= sent'[t[i].from]
                        /\ c \in todo'[t[i].from] => t[i].n < sent'[t[i].from]
<1>a. /\ delivered[c] \in Seq(Messages) /\ inbox[c] \in Seq(Messages)
      /\ hand[c] = <<>> \/ \E m \in Messages : hand[c] = <<m>>
  BY DEF TypeOK
<1>b. hand[c] \in Seq(Messages)
  <2>1. CASE hand[c] = <<>>
    BY <2>1
  <2>2. ASSUME NEW m \in Messages, hand[c] = <<m>> PROVE hand[c] \in Seq(Messages)
    <3>1. <<m>> \in Seq(Messages)
      OBVIOUS
    <3> QED BY <2>2, <3>1
  <2> QED BY <1>a, <2>1, <2>2
<1>c. s \in Seq(Messages)
  BY <1>a, <1>b DEF Seen
<1>d. \A p \in Publishers : sent[p] \in Nat
  BY DEF TypeOK, HubAssumption
<1>e. /\ Ordered(s)
      /\ \A i \in 1..Len(s) : NotAhead(c, s[i])
  BY DEF OrderInv
<1>f. \A i \in 1..Len(s) : s[i] \in Messages /\ s[i].from \in Publishers /\ s[i].n \in Nat
  <2> SUFFICES ASSUME NEW i \in 1..Len(s)
               PROVE  s[i] \in Messages /\ s[i].from \in Publishers /\ s[i].n \in Nat
    OBVIOUS
  <2>1. s[i] \in Messages
    BY <1>c
  <2> QED BY <2>1 DEF Messages
<1> HIDE DEF Messages
\* What the client sees stays, and no publisher has it to visit again.
<1>k. ASSUME t = s, sent' = sent, \A p \in Publishers : todo'[p] \subseteq todo[p]
      PROVE  Kept
  BY <1>k, <1>e, <1>f DEF NotAhead
<1>l. ASSUME UNCHANGED <<delivered, hand, inbox>> PROVE t = s
  BY <1>l DEF Seen
<1> HIDE DEF Kept
<1> USE DEF hub, casting, channels, socket, down
<1>1. ASSUME NEW d \in Clients,
             \/ Register(d) \/ StartPumps(d) \/ LoseConnection(d) \/ ReadFails(d)
             \/ StopWriting(d) \/ EnterClose(d) \/ Unregister(d) \/ CloseConnection(d)
             \/ CloseNext(d) \/ CloseReturns(d)
      PROVE  Kept
  BY <1>1, <1>k, <1>l
  DEF Register, StartPumps, LoseConnection, ReadFails, StopWriting, EnterClose,
      Unregister, CloseConnection, CloseNext, CloseReturns
<1>2. ASSUME NEW d \in Clients, NEW g \in Pumps, PumpEnds(d, g) PROVE Kept
  BY <1>2, <1>k, <1>l DEF PumpEnds
<1>3. ASSUME BeginShutdown \/ UnlockShutdown \/ EndShutdown PROVE Kept
  <2>1. sent' = sent /\ todo' = todo /\ UNCHANGED <<delivered, hand, inbox>>
    BY <1>3 DEF BeginShutdown, UnlockShutdown, EndShutdown
  <2> QED BY <2>1, <1>k, <1>l
<1>4. ASSUME NEW p \in Publishers, EndBroadcast(p) PROVE Kept
  BY <1>4, <1>k, <1>l DEF EndBroadcast
<1>5. ASSUME UNCHANGED vars PROVE Kept
  <2>1. sent' = sent /\ todo' = todo /\ UNCHANGED <<delivered, hand, inbox>>
    BY <1>5 DEF vars
  <2> QED BY <2>1, <1>k, <1>l
<1>6. ASSUME NEW d \in Clients, TakeMessage(d) PROVE Kept
  <2>1. t = s
    <3>1. CASE d = c
      <4>1. /\ hand[c] = <<>> /\ inbox[c] # <<>>
            /\ delivered'[c] = delivered[c]
            /\ hand'[c] = <<Head(inbox[c])>> /\ inbox'[c] = Tail(inbox[c])
        BY <1>6, <3>1 DEF TakeMessage, Selecting, TypeOK
      <4>2. <<Head(inbox[c])>> \in Seq(Messages) /\ Tail(inbox[c]) \in Seq(Messages)
        BY <1>a, <4>1
      <4>3. <<Head(inbox[c])>> \o Tail(inbox[c]) = inbox[c]
        BY <1>a, <4>1
      <4>4. delivered[c] \o <<Head(inbox[c])>> \o Tail(inbox[c])
              = delivered[c] \o (<<Head(inbox[c])>> \o Tail(inbox[c]))
        <5>1. ASSUME NEW a \in Seq(Messages), NEW b \in Seq(Messages), NEW e \in Seq(Messages)
              PROVE  (a \o b) \o e = a \o (b \o e)
          <6>1. /\ (a \o b) \o e \in Seq(Messages) /\ a \o (b \o e) \in Seq(Messages)
                /\ Len((a \o b) \o e) = Len(a \o (b \o e))
            OBVIOUS
          <6>2. \A i \in 1..Len((a \o b) \o e) : ((a \o b) \o e)[i] = (a \o (b \o e))[i]
            OBVIOUS
          <6> QED BY <6>1, <6>2, SeqEqual
        <5> QED BY <1>a, <4>2, <5>1
      <4>5. delivered[c] \o <<>> = delivered[c]
        BY <1>a
      <4> QED BY <4>1, <4>3, <4>4, <4>5 DEF Seen
    <3>2. CASE d # c
      BY <1>6, <3>2 DEF TakeMessage, TypeOK, Seen
    <3> QED BY <3>1, <3>2
  <2> QED BY <1>6, <2>1, <1>k DEF TakeMessage
<1>7. ASSUME NEW d \in Clients, WriteMessage(d) PROVE Kept
  <2>1. t = s
    <3>1. CASE d = c
      <4>1. /\ delivered'[c] = delivered[c] \o hand[c]
            /\ hand'[c] = <<>> /\ inbox'[c] = inbox[c]
        BY <1>7, <3>1 DEF WriteMessage, TypeOK
      <4>2. delivered[c] \o hand[c] \o <<>> = delivered[c] \o hand[c]
        BY <1>a, <1>b
      <4> QED BY <4>1, <4>2 DEF Seen
    <3>2. CASE d # c
      BY <1>7, <3>2 DEF WriteMessage, TypeOK, Seen
    <3> QED BY <3>1, <3>2
  <2> QED BY <1>7, <2>1, <1>k DEF WriteMessage
<1>8. ASSUME NEW d \in Clients, WriteFails(d) PROVE Kept
  <2>1. sent' = sent /\ todo' = todo
    BY <1>8 DEF WriteFails
  <2>2. CASE d = c
    <3>1. PICK m \in Messages : hand[c] = <<m>>
      BY <1>8, <1>a, <2>2 DEF WriteFails
    <3>2. delivered'[c] = delivered[c] /\ hand'[c] = <<>> /\ inbox'[c] = inbox[c]
      BY <1>8, <2>2 DEF WriteFails, TypeOK
    <3>3. t = delivered[c] \o inbox[c]
      <4>1. delivered[c] \o <<>> = delivered[c]
        BY <1>a
      <4> QED BY <3>2, <4>1 DEF Seen
    <3>4. s = delivered[c] \o <<m>> \o inbox[c]
      BY <3>1 DEF Seen
    <3>5. /\ Ordered(t)
          /\ \A i \in 1..Len(t) : \E k \in 1..Len(s) : t[i] = s[k]
      <4>1. Ordered(delivered[c] \o <<m>> \o inbox[c])
        BY <1>e, <3>4
      <4>2. /\ Ordered(delivered[c] \o inbox[c])
            /\ \A i \in 1..Len(delivered[c] \o inbox[c]) :
                 \E k \in 1..Len(delivered[c] \o <<m>> \o inbox[c]) :
                   (delivered[c] \o inbox[c])[i] = (delivered[c] \o <<m>> \o inbox[c])[k]
        BY <1>a, <4>1, DropOrdered
      <4> QED BY <3>3, <3>4, <4>2
    <3> QED BY <1>e, <2>1, <3>5 DEF Kept, NotAhead
  <2>3. CASE d # c
    <3>1. t = s
      BY <1>8, <2>3 DEF WriteFails, TypeOK, Seen
    <3> QED BY <2>1, <3>1, <1>k
  <2> QED BY <2>2, <2>3
<1>9. ASSUME NEW p \in Publishers, BeginBroadcast(p) PROVE Kept
  <2>1. t = s
    BY <1>9, <1>l DEF BeginBroadcast
  <2>2. /\ sent'[p] = sent[p] + 1
        /\ \A q \in Publishers : q # p => sent'[q] = sent[q] /\ todo'[q] = todo[q]
    BY <1>9 DEF BeginBroadcast, TypeOK
  <2>3. ASSUME NEW i \in 1..Len(s)
        PROVE  /\ s[i].n <= sent'[s[i].from]
               /\ c \in todo'[s[i].from] => s[i].n < sent'[s[i].from]
    <3>1. /\ s[i].from \in Publishers /\ s[i].n \in Nat /\ NotAhead(c, s[i])
          /\ sent[s[i].from] \in Nat
      BY <1>d, <1>e, <1>f
    <3>2. CASE s[i].from = p
      BY <2>2, <3>1, <3>2 DEF NotAhead
    <3>3. CASE s[i].from # p
      BY <2>2, <3>1, <3>3 DEF NotAhead
    <3> QED BY <3>2, <3>3
  <2> QED BY <1>e, <2>1, <2>3 DEF Kept
<1>10. ASSUME NEW p \in Publishers, NEW d \in Clients, SendTo(p, d) PROVE Kept
  <2>1. /\ sent' = sent
        /\ \A q \in Publishers : todo'[q] \subseteq todo[q]
        /\ d \notin todo'[p] /\ d \in todo[p]
    BY <1>10 DEF SendTo, TrySend, Visit, TypeOK
  <2>2. CASE d = c /\ Len(inbox[c]) < Capacity
    <3>1. PICK m \in Messages : m = Message(p) /\ m.from = p /\ m.n = sent[p]
      <4>0. p \in sending
        BY <1>10 DEF SendTo, Inv, MapInv
      <4>1. sent[p] \in 1..MaxMessages
        BY <4>0 DEF Inv, MapInv, TypeOK, HubAssumption
      <4>2. Message(p) \in Messages
        BY <4>1 DEF Message, Messages
      <4> QED BY <4>2 DEF Message
    <3>2. /\ delivered'[c] = delivered[c] /\ hand'[c] = hand[c]
          /\ inbox'[c] = Append(inbox[c], m)
      BY <1>10, <2>2, <3>1 DEF SendTo, TrySend, TypeOK
    <3>3. t = Append(s, m)
      <4>1. ASSUME NEW a \in Seq(Messages), NEW b \in Seq(Messages)
            PROVE  a \o Append(b, m) = Append(a \o b, m)
        OBVIOUS
      <4>2. delivered[c] \o hand[c] \in Seq(Messages)
        BY <1>a, <1>b
      <4> QED BY <1>a, <3>2, <4>1, <4>2 DEF Seen
    <3>4. \A i \in 1..Len(s) : s[i].from = m.from => s[i].n < m.n
      BY <1>e, <2>1, <2>2, <3>1 DEF NotAhead
    <3>5. Ordered(t)
      BY <1>c, <1>e, <3>3, <3>4, AppendOrdered
    <3>6. ASSUME NEW i \in 1..Len(t)
          PROVE  /\ t[i].n <= sent'[t[i].from]
                 /\ c \in todo'[t[i].from] => t[i].n < sent'[t[i].from]
      <4>1. (i \in 1..Len(s) /\ t[i] = s[i]) \/ t[i] = m
        BY <1>c, <3>3
      <4>2. CASE i \in 1..Len(s) /\ t[i] = s[i]
        BY <1>e, <1>f, <2>1, <4>2 DEF NotAhead
      <4>3. CASE t[i] = m
        BY <1>d, <2>1, <2>2, <3>1, <4>3
      <4> QED BY <4>1, <4>2, <4>3
    <3> QED BY <3>5, <3>6 DEF Kept
  <2>3. CASE ~(d = c /\ Len(inbox[c]) < Capacity)
    <3>1. t = s
      BY <1>10, <2>3 DEF SendTo, TrySend, TypeOK, Seen
    <3> QED BY <2>1, <3>1, <1>k
  <2> QED BY <2>2, <2>3
<1>11. Kept
  BY <1>1, <1>2, <1>3, <1>4, <1>5, <1>6, <1>7, <1>8, <1>9, <1>10
  DEF Next, ClientStep, Writer, PublisherStep, ShutdownStep
<1> QED BY <1>11 DEF Kept

LEMMA Ordering == Spec => []OrderInv
<1>1. Init => OrderInv
  <2> SUFFICES ASSUME Init, NEW c \in Clients
               PROVE  /\ Ordered(Seen(c))
                      /\ \A i \in 1..Len(Seen(c)) : NotAhead(c, Seen(c)[i])
    BY DEF OrderInv
  <2>1. delivered[c] = <<>> /\ hand[c] = <<>> /\ inbox[c] = <<>>
    BY DEF Init
  <2>2. Seen(c) = <<>> /\ Len(<<>>) = 0
    BY <2>1 DEF Seen
  <2> QED BY <2>2 DEF Ordered
<1>2. TypeOK /\ Inv /\ OrderInv /\ [Next]_vars => OrderInv'
  BY HubAssumption, OrderStep
<1> QED BY <1>1, <1>2, Inductive, PTL DEF Spec

(* Every client gets a publisher's messages in the order they were         *)
(* published and each at most once, whatever broadcasts mix, buffers       *)
(* overflow and writes fail.                                               *)
THEOREM MessagesInOrder == Spec => []InOrder
<1>1. OrderInv => InOrder
  BY DEF OrderInv, InOrder, Ordered, Seen
<1> QED BY <1>1, Ordering, PTL
=============================================================================
