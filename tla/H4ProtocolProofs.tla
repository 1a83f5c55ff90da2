-------------------------- MODULE H4ProtocolProofs --------------------------
(***************************************************************************)
(* Proofs about H4Protocol, for every kind of packets and preambles: the   *)
(* packetizer hands on whole packets in their order, however the bytes     *)
(* arrive.                                                                 *)
(***************************************************************************)
EXTENDS H4Protocol, SequenceTheorems, TLAPS

\* The bytes of a packet after its type.
Size(packet) == PreambleSize[packet.type] + packet.length

Byte == {b \in [packet : Packet, bit : {0, 1}, at : Nat] : b.at <= Size(b.packet)}

(* The parts of the inductive invariant. *)

H4TypeOK ==
    /\ uart \in Seq(Byte) /\ packet_ \in Seq(Byte)
    /\ sentBit \in {0, 1} /\ nextBit \in {0, 1}
    /\ state_ \in {"HCI_PREAMBLE", "HCI_PAYLOAD"}

\* The byte of the same packet that comes n later.
Later(byte, n) == [packet |-> byte.packet, bit |-> byte.bit, at |-> byte.at + n]

\* From each byte of a stream on, the rest of its packet follows, all of it has
\* arrived, and after it comes the first byte of a packet with the other bit.
\* (It relates bytes at any distance, not neighbours: no induction is needed to
\* use it.)
Ordered(stream, bit) ==
    \A i \in 1..Len(stream) :
        LET last == i + Size(stream[i].packet) - stream[i].at IN
        /\ last <= Len(stream)
        /\ \A j \in i..last : stream[j] = Later(stream[i], j - i)
        /\ last < Len(stream) => /\ stream[last + 1].at = 0
                                 /\ stream[last + 1].bit = 1 - stream[i].bit
        /\ last = Len(stream) => bit = 1 - stream[i].bit

\* Between two packets, the next byte is the first one of the next packet.
BetweenInv ==
    hci_packet_type_ = Unknown =>
        LET bit == IF received = <<>> THEN nextBit ELSE 1 - nextBit IN
        /\ packet_ = <<>> /\ state_ = "HCI_PREAMBLE" /\ bytes_read_ = 0
        /\ IF uart = <<>> THEN sentBit = bit ELSE uart[1].at = 0 /\ uart[1].bit = bit

\* Within packet k, packet_ has its bytes so far, and the next one is in the UART.
Within(k) ==
    /\ hci_packet_type_ = k.type
    /\ Len(packet_) <= Size(k)
    /\ \A i \in 1..Len(packet_) : packet_[i] = [packet |-> k, bit |-> nextBit, at |-> i]
    /\ Len(packet_) < Size(k) =>
          uart # <<>> /\ uart[1] = [packet |-> k, bit |-> nextBit, at |-> Len(packet_) + 1]
    /\ state_ = "HCI_PREAMBLE" =>
          bytes_read_ = Len(packet_) /\ Len(packet_) < PreambleSize[k.type]
    /\ state_ = "HCI_PAYLOAD" =>
          bytes_remaining_ = Size(k) - Len(packet_) /\ Len(packet_) >= PreambleSize[k.type]

WithinInv ==
    hci_packet_type_ # Unknown => received = <<>> /\ \E k \in Packet : Within(k)

\* A packet that is handed on is whole.
WholeInv ==
    received # <<>> =>
        \E k \in Packet : received = [i \in 1..Size(k) |-> [packet |-> k, bit |-> nextBit, at |-> i]]

H4Inv ==
    /\ H4TypeOK
    /\ Ordered(uart, sentBit)
    /\ BetweenInv
    /\ WithinInv
    /\ WholeInv

-----------------------------------------------------------------------------
(* Streams of bytes. *)

\* Sizes are positive.
LEMMA SizeType ==
    ASSUME NEW k \in Packet
    PROVE  Size(k) \in Nat \ {0} /\ PreambleSize[k.type] \in Nat \ {0} /\ k.length \in Nat
  BY H4Assumption DEF Size

\* The bytes of one packet.
LEMMA PacketBytes ==
    ASSUME NEW k \in Packet, NEW bit \in {0, 1}
    PROVE  /\ Bytes(k, bit) \in Seq(Byte)
           /\ Len(Bytes(k, bit)) = 1 + Size(k)
           /\ \A i \in 1..(1 + Size(k)) :
                 Bytes(k, bit)[i] = [packet |-> k, bit |-> bit, at |-> i - 1]
  <1> DEFINE n == 1 + Size(k)
             f == [i \in 1..n |-> [packet |-> k, bit |-> bit, at |-> i - 1]]
  <1>1. n \in Nat
    BY SizeType
  <1>2. Bytes(k, bit) = f
    <2>1. 1 + PreambleSize[k.type] + k.length = n
      BY SizeType DEF Size
    <2> QED
      BY <2>1 DEF Bytes
  <1>3. \A i \in 1..n : f[i] \in Byte
    BY SizeType DEF Byte
  <1>4. f \in Seq(Byte) /\ Len(f) = n
    <2> HIDE DEF n
    <2>1. f \in [1..n -> Byte]
      BY <1>3
    <2> HIDE DEF f
    <2> QED
      BY <1>1, <2>1
  <1> QED
    BY <1>2, <1>4

\* A packet that arrives continues the stream.
LEMMA ArriveOrdered ==
    ASSUME NEW stream \in Seq(Byte), NEW bit \in {0, 1}, NEW k \in Packet, Ordered(stream, bit)
    PROVE  /\ stream \o Bytes(k, bit) \in Seq(Byte)
           /\ Ordered(stream \o Bytes(k, bit), 1 - bit)
  <1> DEFINE new == Bytes(k, bit)
             all == stream \o new
             m == Len(stream)
             n == 1 + Size(k)
  <1>1. /\ new \in Seq(Byte) /\ Len(new) = n /\ m \in Nat /\ n \in Nat
        /\ \A i \in 1..n : new[i] = [packet |-> k, bit |-> bit, at |-> i - 1]
    BY PacketBytes, SizeType
  <1> HIDE DEF new, n
  <1>2. /\ all \in Seq(Byte) /\ Len(all) = m + n
        /\ \A i \in 1..m : all[i] = stream[i]
        /\ \A i \in (m + 1)..(m + n) : all[i] = new[i - m]
    <2>1. /\ all \in Seq(Byte) /\ Len(all) = m + n
          /\ \A i \in 1..(m + n) : all[i] = IF i <= m THEN stream[i] ELSE new[i - m]
      BY <1>1, ConcatProperties
    <2> HIDE DEF all
    <2> QED
      BY <1>1, <2>1
  <1> HIDE DEF all
  <1> SUFFICES ASSUME NEW i \in 1..Len(all)
               PROVE  LET last == i + Size(all[i].packet) - all[i].at IN
                      /\ last <= Len(all)
                      /\ \A j \in i..last : all[j] = Later(all[i], j - i)
                      /\ last < Len(all) => /\ all[last + 1].at = 0
                                            /\ all[last + 1].bit = 1 - all[i].bit
                      /\ last = Len(all) => 1 - bit = 1 - all[i].bit
    BY <1>2 DEF Ordered, all, new
  <1> DEFINE last == i + Size(all[i].packet) - all[i].at
  <1>3. n = 1 + Size(k) /\ n > 0
    BY SizeType DEF n
  <1>4. CASE i <= m
    <2>1. i \in 1..m /\ all[i] = stream[i] /\ stream[i] \in Byte
      BY <1>1, <1>2, <1>4
    <2>2. last = i + Size(stream[i].packet) - stream[i].at /\ last \in Nat /\ last >= i
      BY <2>1, SizeType DEF Byte
    <2>3. /\ last <= m
          /\ \A j \in i..last : stream[j] = Later(stream[i], j - i)
          /\ last < m => stream[last + 1].at = 0 /\ stream[last + 1].bit = 1 - stream[i].bit
          /\ last = m => bit = 1 - stream[i].bit
      BY <2>1, <2>2 DEF Ordered
    <2>4. last < Len(all)
      BY <1>1, <1>2, <1>3, <2>2, <2>3
    <2>5. \A j \in i..last : all[j] = Later(all[i], j - i)
      BY <1>1, <1>2, <2>1, <2>2, <2>3
    <2>6. all[last + 1].at = 0 /\ all[last + 1].bit = 1 - all[i].bit
      <3>1. CASE last < m
        <4>1. last + 1 \in 1..m
          BY <3>1, <1>1, <2>2
        <4>2. all[last + 1] = stream[last + 1]
          BY <4>1, <1>2
        <4> QED
          BY <3>1, <4>2, <2>1, <2>3
      <3>2. CASE last = m
        <4>1. all[last + 1] = new[1]
          <5>1. m + 1 \in (m + 1)..(m + n) /\ (m + 1) - m = 1
            BY <1>1, <1>3
          <5>2. all[m + 1] = new[(m + 1) - m]
            BY <5>1, <1>2
          <5> QED
            BY <5>1, <5>2, <3>2
        <4>2. new[1] = [packet |-> k, bit |-> bit, at |-> 0]
          BY <1>1, <1>3
        <4> QED
          BY <4>1, <4>2, <3>2, <2>1, <2>3
      <3> QED
        BY <3>1, <3>2, <2>2, <2>3, <1>1
    <2> QED
      BY <2>2, <2>4, <2>5, <2>6, <1>1, <1>2
  <1>5. CASE i > m
    <2>1. i - m \in 1..n /\ all[i] = [packet |-> k, bit |-> bit, at |-> i - m - 1]
      BY <1>1, <1>2, <1>5
    <2>2. last = m + n /\ last = Len(all)
      BY <2>1, <1>1, <1>2, <1>3, SizeType
    <2>3. ASSUME NEW j \in i..last
          PROVE  all[j] = Later(all[i], j - i)
      <3>1. j \in (m + 1)..(m + n) /\ j - m \in 1..n
        BY <1>1, <1>5, <2>2
      <3>2. all[j] = [packet |-> k, bit |-> bit, at |-> j - m - 1]
        BY <3>1, <1>1, <1>2
      <3>3. (i - m - 1) + (j - i) = j - m - 1
        BY <1>1, <2>2
      <3> QED
        BY <3>2, <3>3, <2>1 DEF Later
    <2> QED
      BY <2>1, <2>2, <2>3, <1>1
  <1> QED
    BY <1>4, <1>5, <1>1

\* What is left of a stream after a read is still ordered.
LEMMA SuffixOrdered ==
    ASSUME NEW stream \in Seq(Byte), NEW bit, NEW n \in 1..Len(stream), Ordered(stream, bit)
    PROVE  LET rest == SubSeq(stream, n + 1, Len(stream)) IN
           /\ rest \in Seq(Byte) /\ Len(rest) = Len(stream) - n
           /\ \A i \in 1..Len(rest) : rest[i] = stream[n + i]
           /\ Ordered(rest, bit)
  <1> DEFINE rest == SubSeq(stream, n + 1, Len(stream))
             m == Len(stream)
  <1>1. /\ rest \in Seq(Byte) /\ Len(rest) = m - n /\ m \in Nat /\ n \in Nat /\ n <= m
        /\ \A i \in 1..(m - n) : rest[i] = stream[n + i]
    OBVIOUS
  <1> HIDE DEF rest
  <1>2. ASSUME NEW i \in 1..Len(rest)
        PROVE  LET last == i + Size(rest[i].packet) - rest[i].at IN
               /\ last <= Len(rest)
               /\ \A j \in i..last : rest[j] = Later(rest[i], j - i)
               /\ last < Len(rest) => /\ rest[last + 1].at = 0
                                      /\ rest[last + 1].bit = 1 - rest[i].bit
               /\ last = Len(rest) => bit = 1 - rest[i].bit
    <2> DEFINE h == n + i
               last == h + Size(stream[h].packet) - stream[h].at
    <2>1. h \in 1..m /\ rest[i] = stream[h] /\ stream[h] \in Byte
      BY <1>1
    <2>2. last \in Nat /\ last >= h /\ i + Size(rest[i].packet) - rest[i].at = last - n
      <3>1. /\ stream[h].at \in Nat /\ Size(stream[h].packet) \in Nat
            /\ stream[h].at <= Size(stream[h].packet)
        BY <2>1, SizeType DEF Byte
      <3> QED
        BY <3>1, <2>1, <1>1
    <2>3. /\ last <= m
          /\ \A j \in h..last : stream[j] = Later(stream[h], j - h)
          /\ last < m => stream[last + 1].at = 0 /\ stream[last + 1].bit = 1 - stream[h].bit
          /\ last = m => bit = 1 - stream[h].bit
      BY <2>1 DEF Ordered
    <2> HIDE DEF last
    <2>4. last - n <= Len(rest)
      BY <1>1, <2>2, <2>3
    <2>5. ASSUME NEW j \in i..(last - n)
          PROVE  rest[j] = Later(rest[i], j - i)
      <3>1. n + j \in h..last /\ (n + j) - h = j - i
        BY <1>1, <2>2
      <3>2. rest[j] = stream[n + j]
        BY <1>1, <2>2, <2>4
      <3>3. stream[n + j] = Later(stream[h], j - i)
        BY <3>1, <2>3
      <3> QED
        BY <3>2, <3>3, <2>1
    <2>6. ASSUME last - n < Len(rest)
          PROVE  /\ rest[(last - n) + 1].at = 0
                 /\ rest[(last - n) + 1].bit = 1 - rest[i].bit
      <3>1. last < m /\ (last - n) + 1 \in 1..(m - n)
        BY <2>6, <1>1, <2>1, <2>2
      <3>2. rest[(last - n) + 1] = stream[last + 1]
        <4>1. n + ((last - n) + 1) = last + 1
          BY <1>1, <2>2
        <4> QED
          BY <3>1, <4>1, <1>1
      <3> QED
        BY <3>1, <3>2, <2>1, <2>3
    <2>7. last - n = Len(rest) => bit = 1 - rest[i].bit
      BY <1>1, <2>1, <2>2, <2>3
    <2> QED
      BY <2>2, <2>4, <2>5, <2>6, <2>7
  <1>3. Ordered(rest, bit)
    BY <1>2 DEF Ordered
  <1> QED
    BY <1>1, <1>3 DEF rest

\* The next n bytes, when a packet goes on at the head of the stream.
LEMMA HeadOfStream ==
    ASSUME NEW stream \in Seq(Byte), NEW bit, Ordered(stream, bit), stream # <<>>,
           NEW k \in Packet, NEW x \in {0, 1}, NEW m \in Nat,
           stream[1] = [packet |-> k, bit |-> x, at |-> m + 1], m < Size(k),
           NEW n \in 1..(Size(k) - m)
    PROVE  /\ n <= Len(stream)
           /\ \A j \in 1..n : stream[j] = [packet |-> k, bit |-> x, at |-> m + j]
           /\ n < Size(k) - m => /\ n < Len(stream)
                                 /\ stream[n + 1] = [packet |-> k, bit |-> x, at |-> m + n + 1]
           /\ n = Size(k) - m =>
                 IF n = Len(stream) THEN bit = 1 - x
                 ELSE stream[n + 1].at = 0 /\ stream[n + 1].bit = 1 - x
  <1> DEFINE last == 1 + Size(stream[1].packet) - stream[1].at
  <1>1. Len(stream) \in Nat \ {0} /\ Size(k) \in Nat
    BY SizeType
  <1>2. last = Size(k) - m
    BY <1>1
  <1>3. /\ last <= Len(stream)
        /\ \A j \in 1..last : stream[j] = Later(stream[1], j - 1)
        /\ last < Len(stream) => stream[last + 1].at = 0 /\ stream[last + 1].bit = 1 - stream[1].bit
        /\ last = Len(stream) => bit = 1 - stream[1].bit
    <2>1. 1 \in 1..Len(stream)
      BY <1>1
    <2> QED
      BY <2>1 DEF Ordered
  <1> HIDE DEF last
  <1>4. ASSUME NEW j \in 1..last
        PROVE  stream[j] = [packet |-> k, bit |-> x, at |-> m + j]
    <2>1. (m + 1) + (j - 1) = m + j
      BY <1>1, <1>2
    <2> QED
      BY <1>3, <2>1 DEF Later
  <1>5. n \in 1..last /\ last \in Nat
    BY <1>1, <1>2
  <1>6. n < last => n + 1 \in 1..last /\ m + (n + 1) = m + n + 1
    BY <1>5
  <1> QED
    BY <1>1, <1>2, <1>3, <1>4, <1>5, <1>6

-----------------------------------------------------------------------------
(* The invariant. *)

\* The initial state.
LEMMA H4InitInv == ASSUME H4Init PROVE H4Inv
  BY DEF H4Init, H4Inv, H4TypeOK, Ordered, BetweenInv, WithinInv, WholeInv

\* The invariant is about the stream and the packetizer only.
LEMMA H4InvKept ==
    ASSUME H4Inv, UNCHANGED <<uart, sentBit, h4Vars, received, nextBit>>
    PROVE  H4Inv'
  <1>1. UNCHANGED <<uart, sentBit, hci_packet_type_, state_, bytes_read_, bytes_remaining_, packet_,
                    received, nextBit>>
    BY DEF h4Vars
  <1>2. \A k \in Packet : Within(k) => Within(k)'
    BY <1>1 DEF Within
  <1>3. WithinInv'
    BY <1>1, <1>2 DEF H4Inv, WithinInv
  <1> QED
    BY <1>1, <1>3 DEF H4Inv, H4TypeOK, Ordered, BetweenInv, WholeInv

\* A packet that arrives goes to the end of the stream.
LEMMA ArriveInv ==
    ASSUME H4Inv, NEW k \in Packet, Arrive(k)
    PROVE  H4Inv'
  <1> DEFINE new == Bytes(k, sentBit)
  <1>1. uart \in Seq(Byte) /\ sentBit \in {0, 1} /\ Ordered(uart, sentBit)
    BY DEF H4Inv, H4TypeOK
  <1>2. uart' = uart \o new /\ sentBit' = 1 - sentBit
    BY DEF Arrive
  <1>3. UNCHANGED <<uartOpen, hci_packet_type_, state_, bytes_read_, bytes_remaining_, packet_,
                    received, eof, nextBit>>
    BY DEF Arrive, h4Vars, receiveVars
  <1>4. uart' \in Seq(Byte) /\ Ordered(uart', sentBit')
    BY <1>1, <1>2, ArriveOrdered
  <1>5. /\ new \in Seq(Byte) /\ Len(new) \in Nat \ {0}
        /\ new[1] = [packet |-> k, bit |-> sentBit, at |-> 0]
    <2>1. 1 \in 1..(1 + Size(k))
      BY SizeType
    <2> QED
      BY <1>1, <2>1, PacketBytes, SizeType
  <1> HIDE DEF new
  <1>6. uart' # <<>> /\ uart'[1] = IF uart = <<>> THEN new[1] ELSE uart[1]
    <2>1. /\ Len(uart') = Len(uart) + Len(new)
          /\ \A i \in 1..(Len(uart) + Len(new)) :
                uart'[i] = IF i <= Len(uart) THEN uart[i] ELSE new[i - Len(uart)]
      BY <1>1, <1>2, <1>5, ConcatProperties
    <2>2. Len(uart) \in Nat /\ 1 \in 1..(Len(uart) + Len(new))
      BY <1>1, <1>5
    <2>3. CASE uart = <<>>
      BY <2>1, <2>2, <2>3, <1>5
    <2>4. CASE uart # <<>>
      <3>1. 1 <= Len(uart)
        BY <1>1, <2>4
      <3>2. Len(uart') # 0
        BY <2>1, <2>2, <3>1, <1>5
      <3> QED
        BY <2>1, <2>2, <2>4, <3>1, <3>2
    <2> QED
      BY <2>3, <2>4
  <1>7. H4TypeOK'
    BY <1>1, <1>2, <1>3, <1>4 DEF H4Inv, H4TypeOK
  <1>8. BetweenInv'
    BY <1>3, <1>5, <1>6 DEF H4Inv, BetweenInv
  <1>9. WithinInv'
    <2> SUFFICES ASSUME hci_packet_type_ # Unknown
                 PROVE  received = <<>> /\ \E q \in Packet : Within(q)'
      BY <1>3 DEF WithinInv
    <2>1. PICK q \in Packet : Within(q)
      BY DEF H4Inv, WithinInv
    <2>2. Within(q)'
      BY <2>1, <1>3, <1>6 DEF Within
    <2> QED
      BY <2>2 DEF H4Inv, WithinInv
  <1>10. WholeInv'
    BY <1>3 DEF H4Inv, WholeInv
  <1> QED
    BY <1>4, <1>7, <1>8, <1>9, <1>10 DEF H4Inv

\* The first byte of a packet is its type.
LEMMA ReadTypeInv ==
    ASSUME H4Inv, received = <<>>, ReadType
    PROVE  H4Inv'
  <1>1. /\ uart \in Seq(Byte) /\ Ordered(uart, sentBit) /\ 1 \in 1..Len(uart)
        /\ uart' = SubSeq(uart, 2, Len(uart)) /\ hci_packet_type_ = Unknown
        /\ hci_packet_type_' = uart[1].packet.type
        /\ UNCHANGED <<sentBit, state_, bytes_read_, bytes_remaining_, packet_, received, nextBit>>
    BY DEF H4Inv, H4TypeOK, ReadType, Read, receiveVars
  <1>2. /\ packet_ = <<>> /\ state_ = "HCI_PREAMBLE" /\ bytes_read_ = 0 /\ nextBit \in {0, 1}
        /\ uart[1].at = 0 /\ uart[1].bit = nextBit
    BY <1>1 DEF H4Inv, H4TypeOK, BetweenInv
  <1> PICK k \in Packet : k = uart[1].packet
    BY <1>1 DEF Byte
  <1>3. /\ Size(k) \in Nat \ {0} /\ PreambleSize[k.type] \in Nat \ {0}
        /\ k.type # Unknown /\ hci_packet_type_' = k.type
    BY <1>1, SizeType, H4Assumption
  <1>4. /\ uart' \in Seq(Byte) /\ Len(uart') = Len(uart) - 1
        /\ \A i \in 1..Len(uart') : uart'[i] = uart[1 + i]
        /\ Ordered(uart', sentBit)
    <2>1. 1 + 1 = 2
      OBVIOUS
    <2> QED
      BY <1>1, <2>1, SuffixOrdered
  <1>5. uart' # <<>> /\ uart'[1] = [packet |-> k, bit |-> nextBit, at |-> 1]
    <2> DEFINE last == 1 + Size(k) - 0
    <2>1. /\ last <= Len(uart)
          /\ \A j \in 1..last : uart[j] = Later(uart[1], j - 1)
      BY <1>1, <1>2 DEF Ordered
    <2>2. 2 \in 1..last /\ Len(uart) \in Nat /\ 2 <= Len(uart)
      BY <1>1, <1>3, <2>1
    <2>3. uart[2] = [packet |-> k, bit |-> nextBit, at |-> 1]
      BY <2>1, <2>2, <1>2 DEF Later
    <2>4. 1 \in 1..Len(uart') /\ Len(uart') # 0
      BY <2>2, <1>4
    <2> QED
      BY <2>3, <2>4, <1>4
  <1>6. H4TypeOK'
    BY <1>1, <1>4 DEF H4Inv, H4TypeOK
  <1>7. Within(k)'
    BY <1>1, <1>2, <1>3, <1>5 DEF Within
  <1>8. BetweenInv' /\ WithinInv' /\ WholeInv'
    BY <1>1, <1>3, <1>7 DEF BetweenInv, WithinInv, WholeInv
  <1> QED
    BY <1>1, <1>4, <1>6, <1>8 DEF H4Inv

\* What a read of n bytes within a packet finds, and leaves.
LEMMA ReadWithin ==
    ASSUME H4Inv, NEW k \in Packet, Within(k), NEW n \in 1..(Size(k) - Len(packet_)), Read(n)
    PROVE  LET all == packet_ \o SubSeq(uart, 1, n) IN
           /\ \A j \in 1..n : uart[j] = [packet |-> k, bit |-> nextBit, at |-> Len(packet_) + j]
           /\ uart' \in Seq(Byte) /\ Ordered(uart', sentBit)
           /\ all \in Seq(Byte) /\ Len(all) = Len(packet_) + n
           /\ \A i \in 1..Len(all) : all[i] = [packet |-> k, bit |-> nextBit, at |-> i]
           /\ Len(all) < Size(k) =>
                 uart' # <<>> /\ uart'[1] = [packet |-> k, bit |-> nextBit, at |-> Len(all) + 1]
           /\ Len(all) = Size(k) =>
                 IF uart' = <<>> THEN sentBit = 1 - nextBit
                 ELSE uart'[1].at = 0 /\ uart'[1].bit = 1 - nextBit
  <1> DEFINE m == Len(packet_)
             piece == SubSeq(uart, 1, n)
             all == packet_ \o piece
  <1>1. /\ uart \in Seq(Byte) /\ packet_ \in Seq(Byte) /\ Ordered(uart, sentBit)
        /\ nextBit \in {0, 1} /\ m \in Nat /\ Size(k) \in Nat /\ n \in Nat /\ n >= 1
        /\ m < Size(k) /\ n <= Size(k) - m
    BY SizeType DEF H4Inv, H4TypeOK
  <1>2. uart # <<>> /\ uart[1] = [packet |-> k, bit |-> nextBit, at |-> m + 1]
    BY <1>1 DEF Within
  <1>3. /\ n <= Len(uart)
        /\ \A j \in 1..n : uart[j] = [packet |-> k, bit |-> nextBit, at |-> m + j]
        /\ n < Size(k) - m => /\ n < Len(uart)
                              /\ uart[n + 1] = [packet |-> k, bit |-> nextBit, at |-> m + n + 1]
        /\ n = Size(k) - m =>
              IF n = Len(uart) THEN sentBit = 1 - nextBit
              ELSE uart[n + 1].at = 0 /\ uart[n + 1].bit = 1 - nextBit
    BY <1>1, <1>2, HeadOfStream
  <1>4. /\ uart' \in Seq(Byte) /\ Len(uart') = Len(uart) - n
        /\ \A i \in 1..Len(uart') : uart'[i] = uart[n + i]
        /\ Ordered(uart', sentBit)
    <2>1. n \in 1..Len(uart) /\ uart' = SubSeq(uart, n + 1, Len(uart))
      BY <1>1, <1>3 DEF Read
    <2> QED
      BY <1>1, <2>1, SuffixOrdered
  <1>5. piece \in Seq(Byte) /\ Len(piece) = n /\ \A j \in 1..n : piece[j] = uart[j]
    BY <1>1, <1>3
  <1> HIDE DEF piece
  <1>6. /\ all \in Seq(Byte) /\ Len(all) = m + n
        /\ \A i \in 1..(m + n) : all[i] = IF i <= m THEN packet_[i] ELSE piece[i - m]
    BY <1>1, <1>5, ConcatProperties
  <1> HIDE DEF all
  <1>7. ASSUME NEW i \in 1..(m + n)
        PROVE  all[i] = [packet |-> k, bit |-> nextBit, at |-> i]
    <2>1. CASE i <= m
      <3>1. i \in 1..m
        BY <2>1, <1>1
      <3> QED
        BY <2>1, <3>1, <1>6 DEF Within
    <2>2. CASE i > m
      <3>1. i - m \in 1..n /\ m + (i - m) = i /\ ~(i <= m)
        BY <2>2, <1>1
      <3>2. all[i] = uart[i - m]
        BY <3>1, <1>5, <1>6
      <3> QED
        BY <3>1, <3>2, <1>3
    <2> QED
      BY <2>1, <2>2, <1>1
  <1>8. n < Len(uart) => uart' # <<>> /\ uart'[1] = uart[n + 1]
    <2> SUFFICES ASSUME n < Len(uart) PROVE uart' # <<>> /\ uart'[1] = uart[n + 1]
      OBVIOUS
    <2>1. 1 \in 1..Len(uart') /\ Len(uart') # 0
      BY <1>1, <1>4
    <2> QED
      BY <2>1, <1>4
  <1>9. n = Len(uart) <=> uart' = <<>>
    BY <1>1, <1>3, <1>4, <1>8
  <1>10. ASSUME m + n < Size(k)
         PROVE  /\ uart' # <<>>
                /\ uart'[1] = [packet |-> k, bit |-> nextBit, at |-> m + n + 1]
    BY <1>10, <1>1, <1>3, <1>8
  <1>11. ASSUME m + n = Size(k)
         PROVE  IF uart' = <<>> THEN sentBit = 1 - nextBit
                ELSE uart'[1].at = 0 /\ uart'[1].bit = 1 - nextBit
    <2>1. n = Size(k) - m
      BY <1>11, <1>1
    <2>2. CASE uart' = <<>>
      BY <2>1, <2>2, <1>3, <1>9
    <2>3. CASE uart' # <<>>
      <3>1. n < Len(uart)
        BY <2>3, <1>1, <1>3, <1>9
      <3> QED
        BY <2>1, <2>3, <3>1, <1>1, <1>3, <1>8
    <2> QED
      BY <2>2, <2>3
  <1> QED
    BY <1>3, <1>4, <1>6, <1>7, <1>10, <1>11 DEF all, piece

\* A piece of the preamble.
LEMMA ReadPreambleInv ==
    ASSUME H4Inv, NEW n \in 1..Requested, ReadPreamble(n)
    PROVE  H4Inv'
  <1>1. /\ hci_packet_type_ # Unknown /\ state_ = "HCI_PREAMBLE" /\ Read(n) /\ received = <<>>
        /\ packet_' = packet_ \o SubSeq(uart, 1, n)
        /\ UNCHANGED <<sentBit, hci_packet_type_, received, nextBit>>
    BY DEF ReadPreamble, receiveVars, H4Inv, WithinInv
  <1> PICK k \in Packet : Within(k)
    BY <1>1 DEF H4Inv, WithinInv
  <1>2. /\ Len(packet_) \in Nat /\ bytes_read_ = Len(packet_)
        /\ hci_packet_type_ = k.type /\ Requested = PreambleSize[k.type] - Len(packet_)
        /\ Len(packet_) < PreambleSize[k.type]
        /\ PreambleSize[k.type] \in Nat /\ k.length \in Nat
        /\ Size(k) = PreambleSize[k.type] + k.length
    BY <1>1, SizeType DEF Within, Requested, Size, H4Inv, H4TypeOK
  <1>3. n \in 1..(PreambleSize[k.type] - Len(packet_)) /\ n \in 1..(Size(k) - Len(packet_))
    BY <1>2
  <1>4. /\ uart' \in Seq(Byte) /\ Ordered(uart', sentBit)
        /\ packet_' \in Seq(Byte) /\ Len(packet_') = Len(packet_) + n
        /\ \A i \in 1..Len(packet_') : packet_'[i] = [packet |-> k, bit |-> nextBit, at |-> i]
        /\ Len(packet_') < Size(k) =>
              uart' # <<>> /\ uart'[1] = [packet |-> k, bit |-> nextBit, at |-> Len(packet_') + 1]
    BY <1>1, <1>3, ReadWithin
  <1>5. Len(packet_') <= PreambleSize[k.type] /\ Len(packet_') <= Size(k)
    BY <1>2, <1>3, <1>4
  <1>6. CASE bytes_read_ + n = PreambleSize[hci_packet_type_]
    <2>1. Len(packet_') = PreambleSize[k.type]
      BY <1>6, <1>2, <1>4
    <2>2. packet_'[1].packet = k
      <3>1. 1 \in 1..Len(packet_')
        BY <2>1, <1>2, <1>3
      <3> QED
        BY <3>1, <1>4
    <2>3. state_' = "HCI_PAYLOAD" /\ bytes_remaining_' = k.length
      BY <1>6, <2>2 DEF ReadPreamble, HciGetPacketLengthForType
    <2>4. Within(k)'
      <3>1. hci_packet_type_' = k.type /\ nextBit' = nextBit
        BY <1>1, <1>2
      <3>2. bytes_remaining_' = Size(k) - Len(packet_')
        BY <1>2, <2>1, <2>3
      <3>3. Len(packet_') >= PreambleSize[k.type]
        BY <1>2, <2>1
      <3> QED
        BY <1>4, <1>5, <2>3, <3>1, <3>2, <3>3 DEF Within
    <2> QED
      BY <1>1, <1>4, <2>3, <2>4
      DEF H4Inv, H4TypeOK, BetweenInv, WithinInv, WholeInv
  <1>7. CASE bytes_read_ + n # PreambleSize[hci_packet_type_]
    <2>1. bytes_read_' = bytes_read_ + n /\ state_' = state_
      BY <1>7 DEF ReadPreamble
    <2>2. Within(k)'
      <3>1. hci_packet_type_' = k.type /\ nextBit' = nextBit /\ state_' = "HCI_PREAMBLE"
        BY <1>1, <1>2, <2>1
      <3>2. bytes_read_' = Len(packet_')
        BY <1>2, <1>4, <2>1
      <3>3. Len(packet_') < PreambleSize[k.type]
        BY <1>2, <1>3, <1>4, <1>7
      <3> QED
        BY <1>4, <1>5, <3>1, <3>2, <3>3 DEF Within
    <2> QED
      BY <1>1, <1>4, <2>1, <2>2
      DEF H4Inv, H4TypeOK, BetweenInv, WithinInv, WholeInv
  <1> QED
    BY <1>6, <1>7

\* A piece of the payload; with its last byte the packet is whole.
LEMMA ReadPayloadInv ==
    ASSUME H4Inv, NEW n \in 1..Requested, ReadPayload(n)
    PROVE  H4Inv'
  <1> DEFINE all == packet_ \o SubSeq(uart, 1, n)
  <1>1. /\ hci_packet_type_ # Unknown /\ state_ = "HCI_PAYLOAD" /\ Read(n) /\ received = <<>>
        /\ bytes_remaining_' = bytes_remaining_ - n
        /\ UNCHANGED <<sentBit, nextBit>>
    BY DEF ReadPayload, H4Inv, WithinInv
  <1> PICK k \in Packet : Within(k)
    BY <1>1 DEF H4Inv, WithinInv
  <1>2. /\ Len(packet_) \in Nat /\ bytes_remaining_ = Size(k) - Len(packet_)
        /\ hci_packet_type_ = k.type /\ Requested = bytes_remaining_
        /\ Len(packet_) >= PreambleSize[k.type]
        /\ PreambleSize[k.type] \in Nat \ {0} /\ Size(k) \in Nat \ {0}
    BY <1>1, SizeType DEF Within, Requested, H4Inv, H4TypeOK
  <1>3. n \in 1..(Size(k) - Len(packet_))
    BY <1>2
  <1>4. /\ uart' \in Seq(Byte) /\ Ordered(uart', sentBit)
        /\ all \in Seq(Byte) /\ Len(all) = Len(packet_) + n
        /\ \A i \in 1..Len(all) : all[i] = [packet |-> k, bit |-> nextBit, at |-> i]
        /\ Len(all) < Size(k) =>
              uart' # <<>> /\ uart'[1] = [packet |-> k, bit |-> nextBit, at |-> Len(all) + 1]
        /\ Len(all) = Size(k) =>
              IF uart' = <<>> THEN sentBit = 1 - nextBit
              ELSE uart'[1].at = 0 /\ uart'[1].bit = 1 - nextBit
    BY <1>1, <1>3, ReadWithin
  <1>5. CASE bytes_remaining_ = n
    <2>1. /\ received' = all /\ packet_' = <<>> /\ hci_packet_type_' = Unknown
          /\ state_' = "HCI_PREAMBLE" /\ bytes_read_' = 0
      BY <1>5 DEF ReadPayload
    <2> HIDE DEF all
    <2>2. Len(all) = Size(k) /\ all # <<>>
      <3>1. Len(all) = Size(k)
        <4>1. n = Size(k) - Len(packet_) /\ Len(all) = Len(packet_) + n
          BY <1>2, <1>4, <1>5
        <4>2. Len(packet_) \in Nat /\ Size(k) \in Nat
          BY <1>2
        <4> QED
          BY <4>1, <4>2
      <3>2. Len(all) # 0
        BY <3>1, <1>2
      <3> QED
        BY <3>1, <3>2
    <2>3. all = [i \in 1..Size(k) |-> [packet |-> k, bit |-> nextBit, at |-> i]]
      BY <1>2, <1>4, <2>2
    <2>4. WholeInv'
      BY <1>1, <2>1, <2>3 DEF WholeInv
    <2>5. BetweenInv'
      BY <1>1, <1>4, <2>1, <2>2 DEF BetweenInv
    <2> QED
      BY <1>1, <1>4, <2>1, <2>4, <2>5 DEF H4Inv, H4TypeOK, WithinInv
  <1>6. CASE bytes_remaining_ # n
    <2>1. /\ packet_' = all
          /\ UNCHANGED <<received, hci_packet_type_, state_>>
      BY <1>6 DEF ReadPayload
    <2> HIDE DEF all
    <2>2. Len(all) < Size(k) /\ bytes_remaining_' = Size(k) - Len(all)
      BY <1>1, <1>2, <1>3, <1>4, <1>6
    <2>3. Within(k)'
      <3>1. /\ hci_packet_type_' = k.type /\ nextBit' = nextBit /\ state_' = "HCI_PAYLOAD"
            /\ packet_' = all
        BY <1>1, <1>2, <2>1
      <3>2. Len(all) >= PreambleSize[k.type] /\ Len(all) <= Size(k)
        BY <1>2, <1>3, <1>4, <2>2
      <3> QED
        BY <1>4, <2>2, <3>1, <3>2 DEF Within
    <2> QED
      BY <1>1, <1>4, <2>1, <2>3
      DEF H4Inv, H4TypeOK, BetweenInv, WithinInv, WholeInv
  <1> QED
    BY <1>5, <1>6

\* A call of OnDataReady, when the last packet has been handled.
LEMMA OnDataReadyInv ==
    ASSUME H4Inv, received = <<>>, OnDataReady
    PROVE  H4Inv'
  <1>1. CASE ReadNothing
    BY <1>1, H4InvKept DEF ReadNothing, uartVars
  <1> QED
    BY <1>1, ReadTypeInv, ReadPreambleInv, ReadPayloadInv DEF OnDataReady

\* The packet has been handled, and the next one is expected.
LEMMA PacketHandledInv ==
    ASSUME H4Inv, PacketHandled
    PROVE  H4Inv'
  <1>1. hci_packet_type_ = Unknown
    BY DEF H4Inv, WithinInv, PacketHandled
  <1>2. /\ received # <<>> /\ received' = <<>> /\ nextBit' = 1 - nextBit
        /\ UNCHANGED <<uart, sentBit, hci_packet_type_, state_, bytes_read_, packet_>>
    BY DEF PacketHandled, uartVars, h4Vars
  <1>3. BetweenInv'
    BY <1>1, <1>2 DEF H4Inv, BetweenInv
  <1> QED
    BY <1>1, <1>2, <1>3 DEF H4Inv, H4TypeOK, WithinInv, WholeInv

\* A packet that is whole is one that was sent, without its type byte.
LEMMA WholeIsWhole == H4Inv => PacketsWhole
  <1> SUFFICES ASSUME H4Inv, received # <<>>
               PROVE  received = Tail(Bytes(received[1].packet, nextBit))
    BY DEF PacketsWhole
  <1> PICK k \in Packet :
             received = [i \in 1..Size(k) |-> [packet |-> k, bit |-> nextBit, at |-> i]]
    BY DEF H4Inv, WholeInv
  <1> DEFINE bytes == Bytes(k, nextBit)
  <1>1. nextBit \in {0, 1} /\ Size(k) \in Nat \ {0}
    BY SizeType DEF H4Inv, H4TypeOK
  <1>2. received[1].packet = k
    BY <1>1
  <1>3. /\ bytes \in Seq(Byte) /\ Len(bytes) = 1 + Size(k)
        /\ \A i \in 1..(1 + Size(k)) : bytes[i] = [packet |-> k, bit |-> nextBit, at |-> i - 1]
    BY <1>1, PacketBytes
  <1> HIDE DEF bytes
  <1>4. /\ Tail(bytes) \in Seq(Byte) /\ Len(Tail(bytes)) = Size(k)
        /\ \A i \in 1..Size(k) : Tail(bytes)[i] = bytes[i + 1]
    <2>1. bytes # <<>> /\ Len(bytes) - 1 = Size(k)
      BY <1>1, <1>3
    <2> QED
      BY <2>1, <1>3, HeadTailProperties
  <1>5. \A i \in 1..Size(k) : Tail(bytes)[i] = [packet |-> k, bit |-> nextBit, at |-> i]
    BY <1>1, <1>3, <1>4
  <1>6. Tail(bytes) = [i \in 1..Size(k) |-> [packet |-> k, bit |-> nextBit, at |-> i]]
    <2> DEFINE tail == Tail(bytes)
    <2>1. tail \in Seq(Byte) /\ Len(tail) = Size(k)
      BY <1>4
    <2>2. \A i \in 1..Size(k) : tail[i] = [packet |-> k, bit |-> nextBit, at |-> i]
      BY <1>5
    <2> HIDE DEF tail
    <2>3. tail = [i \in 1..Size(k) |-> [packet |-> k, bit |-> nextBit, at |-> i]]
      BY <2>1, <2>2
    <2> QED
      BY <2>3 DEF tail
  <1> QED
    BY <1>2, <1>6 DEF bytes

-----------------------------------------------------------------------------
(* The theorems. *)

\* The packetizer hands on whole packets, with their own bytes in their order, and
\* none is lost, repeated or overtaken, for every packet size, every cut of the
\* stream into reads, and also after an unexpected end of it.
THEOREM H4PacketsWhole == H4Spec => []PacketsWhole
  <1>1. H4Init => H4Inv
    BY H4InitInv
  <1>2. H4Inv /\ [H4Next]_<<h4Vars, uartVars, receiveVars>> => H4Inv'
    <2> SUFFICES ASSUME H4Inv, [H4Next]_<<h4Vars, uartVars, receiveVars>> PROVE H4Inv'
      OBVIOUS
    <2>1. CASE UNCHANGED <<h4Vars, uartVars, receiveVars>> \/ HangUp
      <3>1. UNCHANGED <<uart, sentBit, h4Vars, received, nextBit>>
        BY <2>1 DEF HangUp, h4Vars, uartVars, receiveVars
      <3> QED
        BY <3>1, H4InvKept
    <2> QED
      BY <2>1, ArriveInv, OnDataReadyInv, PacketHandledInv DEF H4Next
  <1> QED
    BY <1>1, <1>2, WholeIsWhole, PTL DEF H4Spec

\* Of packets that have a payload, read is never asked for 0 bytes: there is a part
\* of the payload to wait for.
PayloadDue == state_ = "HCI_PAYLOAD" => bytes_remaining_ \in Nat \ {0}

LEMMA OnDataReadyDue ==
    ASSUME \A k \in Packet : k.length > 0, H4Inv, PayloadDue, received = <<>>, OnDataReady
    PROVE  /\ PayloadDue'
           /\ eof' # eof => ~uartOpen /\ uartOpen' = uartOpen
  <1>1. CASE ReadNothing
    <2>1. Requested > 0
      <3>1. CASE hci_packet_type_ = Unknown
        BY <3>1 DEF Requested
      <3>2. CASE hci_packet_type_ # Unknown
        <4> PICK k \in Packet : Within(k)
          BY <3>2 DEF H4Inv, WithinInv
        <4>1. PreambleSize[k.type] \in Nat /\ Len(packet_) \in Nat
          BY SizeType DEF H4Inv, H4TypeOK
        <4>2. CASE state_ = "HCI_PREAMBLE"
          <5>1. Requested = PreambleSize[k.type] - Len(packet_) /\ Len(packet_) < PreambleSize[k.type]
            BY <3>2, <4>2 DEF Within, Requested
          <5> QED
            BY <4>1, <5>1
        <4>3. CASE state_ # "HCI_PREAMBLE"
          BY <3>2, <4>3 DEF Requested, PayloadDue, H4Inv, H4TypeOK
        <4> QED
          BY <4>2, <4>3
      <3> QED
        BY <3>1, <3>2
    <2>2. ~uartOpen /\ UNCHANGED <<uartOpen, state_, bytes_remaining_>>
      BY <1>1, <2>1 DEF ReadNothing, uartVars, h4Vars
    <2> QED
      BY <2>2 DEF PayloadDue
  <1>2. CASE ReadType
    BY <1>2 DEF ReadType, PayloadDue, receiveVars
  <1>3. ASSUME NEW n \in 1..Requested, ReadPreamble(n)
        PROVE  PayloadDue' /\ eof' = eof
    <2>1. H4Inv' /\ eof' = eof /\ hci_packet_type_' # Unknown
      BY <1>3, ReadPreambleInv DEF ReadPreamble, receiveVars
    <2> PICK k \in Packet : Within(k)'
      BY <2>1 DEF H4Inv, WithinInv
    <2>2. CASE bytes_read_ + n = PreambleSize[hci_packet_type_]
      <3>1. hci_packet_type_ # Unknown /\ packet_' = packet_ \o SubSeq(uart, 1, n)
        BY <1>3 DEF ReadPreamble
      <3>2. bytes_remaining_' = packet_'[1].packet.length
        BY <1>3, <2>2 DEF ReadPreamble, HciGetPacketLengthForType
      <3>3. state_' = "HCI_PAYLOAD" /\ Len(packet_') >= PreambleSize[k.type]
        BY <1>3, <2>2 DEF ReadPreamble, Within
      <3>4. PreambleSize[k.type] \in Nat \ {0} /\ Len(packet_') \in Nat
        BY <2>1, SizeType DEF H4Inv, H4TypeOK
      <3>5. 1 \in 1..Len(packet_')
        BY <3>3, <3>4
      <3>6. packet_'[1].packet = k
        <4>1. packet_'[1] = [packet |-> k, bit |-> nextBit', at |-> 1]
          BY <3>5 DEF Within
        <4> QED
          BY <4>1
      <3>7. bytes_remaining_' \in Nat \ {0}
        BY <3>2, <3>6, SizeType
      <3> QED
        BY <2>1, <3>7 DEF PayloadDue
    <2>3. CASE bytes_read_ + n # PreambleSize[hci_packet_type_]
      BY <1>3, <2>1, <2>3 DEF ReadPreamble, PayloadDue
    <2> QED
      BY <2>2, <2>3
  <1>4. ASSUME NEW n \in 1..Requested, ReadPayload(n)
        PROVE  PayloadDue' /\ eof' = eof
    <2>1. /\ hci_packet_type_ # Unknown /\ state_ = "HCI_PAYLOAD" /\ eof' = eof
          /\ bytes_remaining_' = bytes_remaining_ - n
          /\ bytes_remaining_ = n => state_' = "HCI_PREAMBLE"
      BY <1>4 DEF ReadPayload
    <2>2. bytes_remaining_ \in Nat \ {0} /\ n \in 1..bytes_remaining_
      BY <2>1 DEF PayloadDue, Requested
    <2> QED
      BY <2>1, <2>2 DEF PayloadDue
  <1> QED
    BY <1>1, <1>2, <1>3, <1>4 DEF OnDataReady

\* When every packet has a payload, what the code says of an end of the file is
\* true: read returns 0 only when the UART was closed.  The packets without a
\* payload are the only ones that make it false.
THEOREM EofOnlyWithoutPayload ==
    ASSUME \A k \in Packet : k.length > 0
    PROVE  H4Spec => []EofOnlyWhenClosed
  <1> DEFINE EofInv == H4Inv /\ PayloadDue /\ EofOnlyWhenClosed
  <1>1. H4Init => EofInv
    BY H4InitInv DEF H4Init, PayloadDue, EofOnlyWhenClosed
  <1>2. EofInv /\ [H4Next]_<<h4Vars, uartVars, receiveVars>> => EofInv'
    <2> SUFFICES ASSUME EofInv, [H4Next]_<<h4Vars, uartVars, receiveVars>> PROVE EofInv'
      OBVIOUS
    <2>1. CASE UNCHANGED <<h4Vars, uartVars, receiveVars>> \/ HangUp
      <3>1. UNCHANGED <<uart, sentBit, h4Vars, received, nextBit>> /\ (~uartOpen => ~uartOpen')
            /\ UNCHANGED <<state_, bytes_remaining_, eof>>
        BY <2>1 DEF HangUp, h4Vars, uartVars, receiveVars
      <3> QED
        BY <3>1, H4InvKept DEF PayloadDue, EofOnlyWhenClosed
    <2>2. ASSUME NEW packet \in Packet, Arrive(packet) PROVE EofInv'
      BY <2>2, ArriveInv DEF Arrive, h4Vars, receiveVars, PayloadDue, EofOnlyWhenClosed
    <2>3. CASE received = <<>> /\ OnDataReady
      <3>1. H4Inv' /\ PayloadDue'
        BY <2>3, OnDataReadyInv, OnDataReadyDue
      <3>2. uartOpen' = uartOpen
        BY <2>3 DEF OnDataReady, ReadType, ReadPreamble, ReadPayload, ReadNothing, uartVars
      <3> QED
        BY <2>3, <3>1, <3>2, OnDataReadyDue DEF EofOnlyWhenClosed
    <2>4. CASE PacketHandled
      BY <2>4, PacketHandledInv DEF PacketHandled, h4Vars, uartVars, PayloadDue, EofOnlyWhenClosed
    <2> QED
      BY <2>1, <2>2, <2>3, <2>4 DEF H4Next
  <1> QED
    BY <1>1, <1>2, PTL DEF H4Spec
=============================================================================
