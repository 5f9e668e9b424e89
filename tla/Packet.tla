--------------------------------- MODULE Packet ---------------------------------
(***************************************************************************)
(* Packets on a connection between metaserver and player: how they are     *)
(* framed (wlms/packet/packet.go), and the goroutine that reads them for   *)
(* the one that handles them (readingLoop and the loop of                  *)
(* DealWithNewConnection in wlms/client.go).                               *)
(*                                                                         *)
(* A packet is a list of fields.  On the wire it is its length in two      *)
(* bytes, and every field with a NUL behind it.  The same code writes and  *)
(* reads at both ends; TCP keeps the order of the bytes and cuts the       *)
(* stream where it likes, and Conn.Write is atomic.  Fields are taken as   *)
(* the text they are sent as.  A mutant is no part of the model.           *)
(***************************************************************************)
EXTENDS Integers, Sequences, FiniteSets, SequencesExt

CONSTANTS
    B,          \* values of a byte: 256; a length is written with two bytes
    Packets,    \* lists of fields that are sent; no field has a NUL
    Garbage,    \* other bytes that a peer may send, and is cut off for
    QueueSize,  \* capacity of dataStream: 10
    MaxSent     \* bounds what is sent

ASSUME PacketAssumption ==
    /\ B \in Nat \ {0, 1} /\ QueueSize \in Nat \ {0} /\ MaxSent \in Nat
    /\ Packets \subseteq Seq(Seq(1..(B - 1))) /\ Garbage \subseteq Seq(0..(B - 1))

VARIABLES
    wire,       \* bytes that are on their way
    buffer,     \* bytes that have arrived and have not been read
    link,       \* "open", "fin" when the peer has closed it, or "closed"
    reader,     \* what readingLoop is doing
    dataStream, \* packets for the handler
    handler,    \* "loop", or "gone" when DealWithNewConnection has returned
    sent,       \* packets that were sent, garbage as <<>>
    handled     \* packets that were handled

vars == <<wire, buffer, link, reader, dataStream, handler, sent, handled>>

\* The places in readingLoop.
Length == [at |-> "length"]
Body(n) == [at |-> "body", nlen |-> n]
Queue(p) == [at |-> "queue", packet |-> p]
Ended == [at |-> "ended"]

Init ==
    /\ wire = <<>> /\ buffer = <<>> /\ link = "open"
    /\ reader = Length /\ dataStream = <<>> /\ handler = "loop"
    /\ sent = <<>> /\ handled = <<>>

-----------------------------------------------------------------------------
(* packet.go                                                               *)

NUL == 0

\* packet.New: the length counts itself and is cut to two bytes.
\* Mutant: it does not count itself.
FieldBytes(fields) == FlattenSeq([i \in DOMAIN fields |-> Append(fields[i], NUL)])
NBytes(fields) == 2 + Len(FieldBytes(fields))
NewShort(fields) ==
    LET n == Len(FieldBytes(fields)) IN <<(n \div B) % B, n % B>> \o FieldBytes(fields)
New(fields) ==
    LET n == NBytes(fields) IN <<(n \div B) % B, n % B>> \o FieldBytes(fields)

\* strings.Split at NUL, without the last part: the fields that end in the first n
\* bytes, and what has been read since.
Split(body) ==
    LET parts[n \in 0..Len(body)] ==
            IF n = 0 THEN [fields |-> <<>>, rest |-> <<>>]
            ELSE IF body[n] = NUL
                 THEN [fields |-> Append(parts[n - 1].fields, parts[n - 1].rest), rest |-> <<>>]
                 ELSE [fields |-> parts[n - 1].fields,
                       rest   |-> Append(parts[n - 1].rest, body[n])]
    IN parts[Len(body)].fields

\* io.ReadFull: n bytes can be read, or never will be.
Has(n) == link # "closed" /\ Len(buffer) >= n
Never(n) == \/ link = "closed"
            \/ link = "fin" /\ wire = <<>> /\ Len(buffer) < n
Drop(n) == buffer' = SubSeq(buffer, n + 1, Len(buffer))

-----------------------------------------------------------------------------
(* The peer and the network                                                *)

\* Client.SendPacket by any goroutine, or the peer.
SendPacket(p) ==
    /\ link = "open" /\ Len(sent) < MaxSent
    /\ wire' = wire \o New(p)
    /\ sent' = Append(sent, p)
    /\ UNCHANGED <<buffer, link, reader, dataStream, handler, handled>>
SendGarbage(g) ==
    /\ link = "open" /\ Len(sent) < MaxSent
    /\ wire' = wire \o g
    /\ sent' = Append(sent, <<>>)
    /\ UNCHANGED <<buffer, link, reader, dataStream, handler, handled>>

Arrive ==
    /\ wire # <<>>
    /\ \E n \in 1..Len(wire) :
          /\ buffer' = buffer \o SubSeq(wire, 1, n)
          /\ wire' = SubSeq(wire, n + 1, Len(wire))
    /\ UNCHANGED <<link, reader, dataStream, handler, sent, handled>>

PeerCloses ==
    /\ link = "open"
    /\ link' = "fin"
    /\ UNCHANGED <<wire, buffer, reader, dataStream, handler, sent, handled>>

\* Client.Disconnect by any goroutine.
Disconnect ==
    /\ link # "closed"
    /\ link' = "closed"
    /\ UNCHANGED <<wire, buffer, reader, dataStream, handler, sent, handled>>

-----------------------------------------------------------------------------
(* readingLoop                                                             *)

\* readInt in packet.Read.  An impossible length ends the loop.
\* Mutants: a packet of one empty field is called too short; an error is ignored.
ReadIntPicky ==
    /\ reader = Length
    /\ \/ /\ Has(2)
          /\ LET nlen == B * buffer[1] + buffer[2] IN
             reader' = IF nlen <= 3 THEN Ended ELSE Body(nlen - 2)
          /\ Drop(2)
       \/ /\ Never(2)
          /\ reader' = Ended
          /\ UNCHANGED buffer
    /\ UNCHANGED <<wire, link, dataStream, handler, sent, handled>>
ReadIntAgain ==
    /\ reader = Length
    /\ Has(2)
    /\ LET nlen == B * buffer[1] + buffer[2] IN
       reader' = IF nlen <= 2 THEN Ended ELSE Body(nlen - 2)
    /\ Drop(2)
    /\ UNCHANGED <<wire, link, dataStream, handler, sent, handled>>
ReadInt ==
    /\ reader = Length
    /\ \/ /\ Has(2)
          /\ LET nlen == B * buffer[1] + buffer[2] IN
             reader' = IF nlen <= 2 THEN Ended ELSE Body(nlen - 2)
          /\ Drop(2)
       \/ /\ Never(2)
          /\ reader' = Ended
          /\ UNCHANGED buffer
    /\ UNCHANGED <<wire, link, dataStream, handler, sent, handled>>

\* readString in packet.Read.
ReadString ==
    /\ reader.at = "body"
    /\ \/ /\ Has(reader.nlen)
          /\ reader' = Queue(Split(SubSeq(buffer, 1, reader.nlen)))
          /\ Drop(reader.nlen)
       \/ /\ Never(reader.nlen)
          /\ reader' = Ended
          /\ UNCHANGED buffer
    /\ UNCHANGED <<wire, link, dataStream, handler, sent, handled>>

\* The packet is put into the channel, which waits while it is full.
\* Mutants: it does not wait; a packet that finds it full is lost.
EnqueueAnyway ==
    /\ reader.at = "queue"
    /\ dataStream' = Append(dataStream, reader.packet)
    /\ reader' = Length
    /\ UNCHANGED <<wire, buffer, link, handler, sent, handled>>
EnqueueOrDrop ==
    /\ reader.at = "queue"
    /\ dataStream' = IF Len(dataStream) < QueueSize THEN Append(dataStream, reader.packet)
                     ELSE dataStream
    /\ reader' = Length
    /\ UNCHANGED <<wire, buffer, link, handler, sent, handled>>
Enqueue ==
    /\ reader.at = "queue" /\ Len(dataStream) < QueueSize
    /\ dataStream' = Append(dataStream, reader.packet)
    /\ reader' = Length
    /\ UNCHANGED <<wire, buffer, link, handler, sent, handled>>

-----------------------------------------------------------------------------
(* DealWithNewConnection                                                   *)

\* A packet without a command disconnects the client and ends the loop.
Handle ==
    /\ handler = "loop" /\ dataStream # <<>>
    /\ dataStream' = Tail(dataStream)
    /\ \/ /\ Head(dataStream) = <<>>
          /\ link' = "closed" /\ handler' = "gone"
          /\ UNCHANGED handled
       \/ /\ Head(dataStream) # <<>>
          /\ handled' = Append(handled, Head(dataStream))
          /\ UNCHANGED <<link, handler>>
    /\ UNCHANGED <<wire, buffer, reader, sent>>

\* The channel is empty and closed: failedPong disconnects.
Finish ==
    /\ handler = "loop" /\ dataStream = <<>> /\ reader = Ended
    /\ link' = "closed" /\ handler' = "gone"
    /\ UNCHANGED <<wire, buffer, reader, dataStream, sent, handled>>

Next ==
    \/ \E p \in Packets : SendPacket(p)
    \/ \E g \in Garbage : SendGarbage(g)
    \/ Arrive \/ PeerCloses \/ Disconnect
    \/ ReadInt \/ ReadString \/ Enqueue \/ Handle \/ Finish

Spec == Init /\ [][Next]_vars

\* TCP delivers, and goroutines that can go on do.
Fairness ==
    /\ WF_vars(Arrive) /\ WF_vars(ReadInt) /\ WF_vars(ReadString)
    /\ WF_vars(Enqueue) /\ WF_vars(Handle) /\ WF_vars(Finish)

FairSpec == Spec /\ Fairness

-----------------------------------------------------------------------------
(* Properties                                                              *)

\* Bytes are bytes, and the queue is that of the code.
TypeOK ==
    /\ ToSet(wire) \cup ToSet(buffer) \subseteq 0..(B - 1)
    /\ link \in {"open", "fin", "closed"}
    /\ reader.at \in {"length", "body", "queue", "ended"}
    /\ Len(dataStream) <= QueueSize /\ handler \in {"loop", "gone"}
    /\ Len(sent) <= MaxSent

\* All that was sent so far are packets of at least one field whose length fits into
\* two bytes.
Fits == \A i \in DOMAIN sent : sent[i] # <<>> /\ NBytes(sent[i]) < B * B

\* However the stream is cut, and whenever the connection ends, the packets that are
\* handled are those that were sent, in that order (New, Read, readingLoop).
InOrder ==
    LET inHand == IF reader.at = "queue" THEN <<reader.packet>> ELSE <<>>
    IN Fits => IsPrefix(handled \o dataStream \o inHand, sent)

\* The reader gives up on nobody who sends such packets and keeps the connection
\* (the check of the length in Read).
NobodyIsCutOff == Fits /\ reader = Ended => link # "open"

\* What was sent is handled as long as nobody closes the connection.
AllHandled == []<>(link = "open" /\ Fits => handled = sent)

\* A closed connection leaves no reader behind, unless the handler has returned and
\* left it with a full channel (client.go 272 and 368).
ReaderEnds ==
    link = "closed" ~> \/ reader = Ended
                       \/ handler = "gone" /\ Len(dataStream) = QueueSize
================================================================================
