-------------------------- MODULE TcpReceiveProofs --------------------------
(***************************************************************************)
(* Proofs about TcpReceive, for a window and sequence numbers of any size, *)
(* a peer with any stream and any reads: until the first of the three      *)
(* steps that "spoiled" records, the window holds the stream, tcp_read     *)
(* returns it and no acknowledgement is ahead of it.                       *)
(***************************************************************************)
EXTENDS TcpReceive, SequenceTheorems, TLAPS

(* The sequence number of the stream's first byte.                         *)
First == (isn + 1) % SeqMod

(* What the peer sends lies in its stream, and data is never empty.        *)
WireOK == \A s \in wire : s.flags = "psh_ack" => s.len > 0 /\ s.from + s.len <= N

Unopened == state \in {"WAITING_THREEWAY_SYN", "WAITING_THREEWAY_SYN_ACK"}

(* A window is made once, when a connection opens.                         *)
OpeningOK ==
  /\ hpc \in {"opened", "stablished", "window"} => window = "null"
  /\ hpc \in {"window", "fields"} => ~Unopened
  /\ hpc = "fields" <=> window = "raw"
  /\ hpc \in {"idle", "looping"} => window = IF Unopened THEN "null" ELSE "ready"
  /\ window # "ready" => bitmap = {}

(* The stream's first m bytes.                                             *)
Bytes(m) == [k \in 1..m |-> k - 1]

Returned(m) == delivered \in {Bytes(m), <<Stray>> \o Bytes(m)}

(* The window holds, and marks, exactly the bytes that were acknowledged   *)
(* and not read; those before it were read; and all of them have arrived.  *)
WindowOK ==
  /\ First <= first_window_byte /\ first_window_byte <= last_acked_byte
  /\ last_acked_byte <= first_window_byte + W
  /\ bitmap = {c % W : c \in first_window_byte..(last_acked_byte - 1)}
  /\ \A c \in first_window_byte..(last_acked_byte - 1) : buffer[c % W] = c - First
  /\ 0..(last_acked_byte - First - 1) \subseteq arrived

ReadOK == Returned(IF window = "ready" THEN first_window_byte - First ELSE 0)

AnswersOK == \A a \in answers : a.flags = "ack" =>
               a.number \in First..(SeqMod - 1) /\ 0..(a.number - First - 1) \subseteq arrived

StreamOK == OpeningOK /\ (window = "ready" => WindowOK) /\ ReadOK /\ AnswersOK

Inv == TypeOK /\ WireOK /\ (~spoiled => StreamOK)
-----------------------------------------------------------------------------
(* Sequence numbers.                                                       *)

LEMMA ModBasics ==
  ASSUME NEW n \in Nat, NEW d \in Nat \ {0}
  PROVE  n % d \in 0..(d - 1)
OBVIOUS

LEMMA ModBelow ==
  ASSUME NEW n \in Nat, NEW d \in Nat \ {0}, n < d
  PROVE  n % d = n
OBVIOUS

LEMMA ModWraps ==
  ASSUME NEW n \in Nat, NEW d \in Nat \ {0}, d <= n, n < 2 * d
  PROVE  n % d = n - d
OBVIOUS

(* Two numbers in one window have different places.                        *)
LEMMA PlacesApart ==
  ASSUME NEW a \in Nat, NEW b \in Nat, a < b, b < a + W
  PROVE  a % W # b % W
<1> DEFINE p == a \div W
           q == b \div W
<1>1. W \in Nat \ {0}
  BY WindowAssumption
<1>2. /\ p \in Nat /\ a = p * W + (a % W) /\ a % W \in 0..(W - 1)
      /\ q \in Nat /\ b = q * W + (b % W) /\ b % W \in 0..(W - 1)
  BY <1>1
<1> HIDE DEF p, q
<1>3. SUFFICES ASSUME a % W = b % W PROVE FALSE
  OBVIOUS
<1>4. CASE p >= q
  <2>1. p * W >= q * W
    BY <1>1, <1>2, <1>4
  <2> QED BY <1>1, <1>2, <1>3, <2>1
<1>5. CASE q >= p + 1
  <2>1. q * W >= (p + 1) * W
    BY <1>1, <1>2, <1>5
  <2> QED BY <1>1, <1>2, <1>3, <2>1
<1> QED BY <1>2, <1>4, <1>5

(* A byte's number, on this side of the greatest number and behind it.     *)
LEMMA Numbers ==
  ASSUME TypeOK
  PROVE  /\ First \in 0..(SeqMod - 1)
         /\ \A i \in 0..N : Seqno(i) = IF First + i < SeqMod THEN First + i
                                        ELSE First + i - SeqMod
         /\ \A c \in 0..(SeqMod - 1) :
              ByteAt(c) = IF First <= c THEN c - First ELSE c + SeqMod - First
<1>1. /\ SeqMod \in Nat \ {0} /\ isn \in 0..(SeqMod - 1) /\ N \in Nat /\ N < SeqMod
  BY WindowAssumption, PeerAssumption DEF TypeOK
<1>2. First = IF isn = SeqMod - 1 THEN 0 ELSE isn + 1
  BY <1>1, ModBelow, ModWraps DEF First
<1>3. ASSUME NEW i \in 0..N
      PROVE  Seqno(i) = IF First + i < SeqMod THEN First + i ELSE First + i - SeqMod
  <2>1. CASE isn + 1 + i < SeqMod
    BY <1>1, <1>2, <2>1, ModBelow DEF Seqno
  <2>2. CASE isn + 1 + i >= SeqMod
    <3>1. isn + 1 + i < 2 * SeqMod
      BY <1>1
    <3>2. Seqno(i) = isn + 1 + i - SeqMod
      BY <1>1, <2>2, <3>1, ModWraps DEF Seqno
    <3> QED BY <1>1, <1>2, <2>2, <3>2
  <2> QED BY <1>1, <2>1, <2>2
<1>4. ASSUME NEW c \in 0..(SeqMod - 1)
      PROVE  ByteAt(c) = IF First <= c THEN c - First ELSE c + SeqMod - First
  <2> DEFINE n == c + SeqMod + SeqMod - isn - 1
  <2>1. n \in Nat /\ ByteAt(c) = n % SeqMod
    BY <1>1 DEF ByteAt
  <2>2. CASE n < 2 * SeqMod
    <3>1. n >= SeqMod
      BY <1>1
    <3>2. n % SeqMod = n - SeqMod
      BY <1>1, <2>1, <2>2, <3>1, ModWraps
    <3> QED BY <1>1, <1>2, <2>1, <2>2, <3>2
  <2>3. CASE n >= 2 * SeqMod
    <3>1. n - SeqMod \in Nat /\ SeqMod <= n - SeqMod /\ n - SeqMod < 2 * SeqMod
      BY <1>1, <2>3
    <3>2. n % SeqMod = (n - SeqMod) % SeqMod
      BY <1>1, <2>1, <3>1
    <3>3. (n - SeqMod) % SeqMod = n - SeqMod - SeqMod
      BY <1>1, <3>1, ModWraps
    <3> QED BY <1>1, <1>2, <2>1, <2>3, <3>2, <3>3
  <2> QED BY <1>1, <2>1, <2>2, <2>3
<1> QED BY <1>1, <1>2, <1>3, <1>4

-----------------------------------------------------------------------------
(* What tcp_read returns.                                                  *)

LEMMA BytesGrow ==
  ASSUME NEW m \in Nat, NEW n \in Nat, NEW e,
         e = [k \in 1..n |-> m + k - 1]
  PROVE  /\ Bytes(m) \o e = Bytes(m + n)
         /\ (<<Stray>> \o Bytes(m)) \o e = <<Stray>> \o Bytes(m + n)
<1> DEFINE T == Nat \cup {Stray}
<1>1. /\ Bytes(m) \in Seq(T) /\ Len(Bytes(m)) = m
      /\ Bytes(m + n) \in Seq(T) /\ Len(Bytes(m + n)) = m + n
      /\ e \in Seq(T) /\ Len(e) = n
      /\ <<Stray>> \in Seq(T) /\ Len(<<Stray>>) = 1
  <2>1. \A l \in Nat : Bytes(l) \in [1..l -> T]
    BY DEF Bytes
  <2>2. e \in [1..n -> T]
    OBVIOUS
  <2>3. <<Stray>> \in Seq(T) /\ Len(<<Stray>>) = 1
    OBVIOUS
  <2> QED BY <2>1, <2>2, <2>3, LenProperties
<1>2. Bytes(m) \o e = Bytes(m + n)
  <2>1. \A k \in 1..(m + n) : (Bytes(m) \o e)[k] = Bytes(m + n)[k]
    BY <1>1, ConcatProperties DEF Bytes
  <2>2. Bytes(m) \o e \in Seq(T)
    BY <1>1, ConcatProperties
  <2>3. Len(Bytes(m) \o e) = Len(Bytes(m)) + Len(e)
    BY <1>1, ConcatProperties
  <2> QED BY <1>1, <2>1, <2>2, <2>3, SeqEqual
<1>3. (<<Stray>> \o Bytes(m)) \o e = <<Stray>> \o (Bytes(m) \o e)
  BY <1>1, ConcatAssociative
<1> QED BY <1>2, <1>3

(* Without what the first read may have taken for a byte, it is the stream.*)
LEMMA ReturnedIsStream ==
  ASSUME NEW m \in Nat, Returned(m)
  PROVE  Stream(delivered) = [k \in 1..Len(Stream(delivered)) |-> k - 1]
<1> DEFINE T == Nat \cup {Stray}
<1>1. Bytes(m) \in Seq(T) /\ Len(Bytes(m)) = m
  <2>1. Bytes(m) \in [1..m -> T]
    BY DEF Bytes
  <2> QED BY <2>1, LenProperties
<1>2. CASE delivered = Bytes(m)
  <2>1. CASE m = 0
    <3>1. Bytes(m) = <<>>
      BY <1>1, <2>1, EmptySeq
    <3>2. Stream(delivered) = Bytes(m)
      BY <1>2, <3>1 DEF Stream
    <3> QED BY <1>1, <3>2 DEF Bytes
  <2>2. CASE m > 0
    <3>1. Head(Bytes(m)) = 0
      BY <1>1, <2>2 DEF Bytes
    <3>2. Stream(delivered) = Bytes(m)
      BY <1>2, <3>1, MemoryAssumption DEF Stream
    <3> QED BY <1>1, <3>2 DEF Bytes
  <2> QED BY <2>1, <2>2
<1>3. CASE delivered = <<Stray>> \o Bytes(m)
  <2>1. Head(delivered) = Stray /\ delivered # <<>> /\ Tail(delivered) = Bytes(m)
    <3>1. <<Stray>> \in Seq(T) /\ Len(<<Stray>>) = 1 /\ <<Stray>>[1] = Stray
      OBVIOUS
    <3>2. delivered \in Seq(T) /\ Len(delivered) = 1 + m
      BY <1>1, <1>3, <3>1, ConcatProperties
    <3>3. delivered[1] = Stray /\ \A k \in 1..m : delivered[k + 1] = Bytes(m)[k]
      BY <1>1, <1>3, <3>1, ConcatProperties
    <3>4. Head(delivered) = Stray /\ delivered # <<>>
      BY <3>2, <3>3, EmptySeq
    <3>5. Tail(delivered) \in Seq(T) /\ Len(Tail(delivered)) = m
          /\ \A k \in 1..m : Tail(delivered)[k] = delivered[k + 1]
      BY <3>2, <3>4, HeadTailProperties
    <3>6. Tail(delivered) = Bytes(m)
      BY <1>1, <3>3, <3>5, SeqEqual
    <3> QED BY <3>4, <3>6
  <2>2. Stream(delivered) = Bytes(m)
    BY <2>1 DEF Stream
  <2> QED BY <1>1, <2>2 DEF Bytes
<1> QED BY <1>2, <1>3 DEF Returned

-----------------------------------------------------------------------------
(* The initial states, and the boot task.                                  *)

LEMMA InitInv == Init => Inv
<1> SUFFICES ASSUME Init PROVE Inv
  OBVIOUS
<1> USE WindowAssumption, PeerAssumption, ReadAssumption DEF Init
<1>1. TypeOK
  <2>1. /\ last_acked_byte \in 0..(SeqMod - 1)
        /\ first_window_byte \in 0..(SeqMod - 1)
        /\ bitmap = {} /\ recycled = {} /\ isn \in Isns
        /\ peer_acked \in 0..N
    OBVIOUS
  <2>2. buffer \in [0..(W - 1) -> 0..(SeqMod - 1) \cup {Junk}]
    OBVIOUS
  <2> QED BY <2>1, <2>2 DEF TypeOK, PortStates
<1>2. WireOK
  BY DEF WireOK
<1>3. OpeningOK /\ AnswersOK
  BY DEF OpeningOK, AnswersOK, Unopened
<1>4. ReadOK
  BY DEF ReadOK, Returned, Bytes
<1> QED BY <1>1, <1>2, <1>3, <1>4 DEF Inv, StreamOK

(* A step that changes neither the window nor what was read keeps what is  *)
(* known of them.                                                          *)
LEMMA WindowStays ==
  ASSUME UNCHANGED <<recv_window, delivered, isn>>, arrived \subseteq arrived'
  PROVE  /\ WindowOK => WindowOK'
         /\ ReadOK => ReadOK'
<1>1. First' = First
  BY DEF First
<1> QED BY <1>1 DEF WindowOK, ReadOK, Returned, recv_window

LEMMA AnswersStay ==
  ASSUME UNCHANGED <<answers, isn>>, arrived \subseteq arrived', AnswersOK
  PROVE  AnswersOK'
<1>1. First' = First
  BY DEF First
<1> QED BY <1>1 DEF AnswersOK

LEMMA NewAnswer ==
  ASSUME AnswersOK, First' = First, arrived \subseteq arrived',
         NEW n \in First..(SeqMod - 1), 0..(n - First - 1) \subseteq arrived',
         \A a \in answers' : a \in answers \/ a.number = n
  PROVE  AnswersOK'
<1> SUFFICES ASSUME NEW a \in answers', a.flags = "ack"
             PROVE  /\ a.number \in First..(SeqMod - 1)
                    /\ 0..(a.number - First - 1) \subseteq arrived'
  BY DEF AnswersOK
<1>1. CASE a \in answers
  BY <1>1 DEF AnswersOK
<1>2. CASE a.number = n
  BY <1>2
<1> QED BY <1>1, <1>2

LEMMA OpensKeep == ASSUME Inv, TcpListen \/ TcpConnect PROVE Inv'
<1> USE DEF Inv, recv_window, kernel, peer
<1>1. /\ UNCHANGED <<recv_window, stablished, hpc, arrived, delivered, answers, peer>>
      /\ Unopened' /\ state' \in PortStates
      /\ boot' \in {"read", "syn"}
      /\ spoiled' = (spoiled \/ Reopens)
  BY DEF TcpListen, TcpConnect, Unopened, PortStates
<1>2. TypeOK'
  BY <1>1 DEF TypeOK
<1>3. WireOK'
  BY <1>1 DEF WireOK
<1>4. ASSUME ~spoiled' PROVE StreamOK'
  <2>1. ~spoiled /\ StreamOK /\ ~Reopens
    BY <1>1, <1>4
  <2>2. OpeningOK'
    BY <1>1, <2>1 DEF StreamOK, OpeningOK, Reopens, Unopened
  <2> QED BY <1>1, <2>1, <2>2, WindowStays, AnswersStay DEF StreamOK
<1> QED BY <1>2, <1>3, <1>4

LEMMA SendSynKeeps == ASSUME Inv, SendSyn PROVE Inv'
<1> USE DEF Inv, recv_window, kernel, peer
<1>1. /\ UNCHANGED <<kernel, delivered, peer, spoiled>>
      /\ boot' \in {"syn", "read"}
      /\ \A a \in answers' : a \in answers \/ a.flags = "syn"
  BY DEF SendSyn, Answer
<1>2. TypeOK' /\ WireOK'
  BY <1>1 DEF TypeOK, WireOK
<1>3. ASSUME ~spoiled' PROVE StreamOK'
  <2>1. OpeningOK'
    BY <1>1, <1>3 DEF StreamOK, OpeningOK, Unopened
  <2>2. AnswersOK'
    BY <1>1, <1>3 DEF StreamOK, AnswersOK, First
  <2> QED BY <1>1, <1>3, <2>1, <2>2, WindowStays DEF StreamOK
<1> QED BY <1>2, <1>3

(* tcp_read stays inside what was acknowledged.                            *)
LEMMA TakenFits ==
  ASSUME TypeOK
  PROVE  Taken \in Nat /\ (Taken > 0 => first_window_byte + Taken <= last_acked_byte)
<1> DEFINE end == (first_window_byte + ReadSize - 1) % SeqMod
<1>1. end \in Nat
  <2>1. first_window_byte + ReadSize - 1 \in Nat /\ SeqMod \in Nat \ {0}
    BY WindowAssumption, ReadAssumption DEF TypeOK
  <2> QED BY <2>1, ModBasics
<1> HIDE DEF end
<1>2. Taken = LET last_byte == IF end < last_acked_byte THEN end ELSE last_acked_byte
              IN IF first_window_byte < last_byte THEN last_byte - first_window_byte
                 ELSE 0
  BY DEF Taken, end
<1>3. first_window_byte \in Nat /\ last_acked_byte \in Nat
  BY DEF TypeOK
<1> QED BY <1>1, <1>2, <1>3

LEMMA TcpReadKeeps == ASSUME Inv, TcpRead PROVE Inv'
<1> DEFINE n == Taken
           position(k) == (first_window_byte + k - 1) % W
           got == [k \in 1..n |-> buffer[position(k)]]
<1> USE DEF Inv, recv_window, kernel, peer
<1>1. /\ window = "ready"
      /\ delivered' = delivered \o got
      /\ bitmap' = bitmap \ {position(k) : k \in 1..n}
      /\ recycled' \subseteq recycled
      /\ first_window_byte' = first_window_byte + n
      /\ UNCHANGED <<state, stablished, window, last_acked_byte, buffer, hpc, boot,
                     arrived, answers, peer, spoiled>>
  BY DEF TcpRead
<1>2. n \in Nat /\ (n > 0 => first_window_byte + n <= last_acked_byte)
  BY TakenFits
<1>3. first_window_byte \in 0..(SeqMod - 1) /\ last_acked_byte \in 0..(SeqMod - 1)
      /\ SeqMod \in Nat
  BY WindowAssumption DEF TypeOK
<1> HIDE DEF n
<1>4. TypeOK'
  <2>1. first_window_byte' \in 0..(SeqMod - 1)
    BY <1>1, <1>2, <1>3
  <2>2. bitmap' \subseteq bitmap
    BY <1>1
  <2> QED BY <1>1, <2>1, <2>2 DEF TypeOK
<1>5. WireOK'
  BY <1>1 DEF WireOK
<1>6. ASSUME ~spoiled' PROVE StreamOK'
  <2>1. OpeningOK /\ WindowOK /\ ReadOK /\ AnswersOK
    BY <1>1, <1>6 DEF StreamOK
  <2>2. First' = First /\ First \in Nat
    BY <1>1, Numbers DEF First
  <2>3. First <= first_window_byte /\ first_window_byte + n <= last_acked_byte
        /\ last_acked_byte <= first_window_byte + W
    BY <1>2, <1>3, <2>1 DEF WindowOK
  <2>4. \A c \in Nat : c % W \in {position(k) : k \in 1..n}
                       <=> \E d \in first_window_byte..(first_window_byte + n - 1) :
                             c % W = d % W
    <3>1. ASSUME NEW c \in Nat, NEW k \in 1..n, c % W = position(k)
          PROVE  \E d \in first_window_byte..(first_window_byte + n - 1) : c % W = d % W
      <4>1. first_window_byte + k - 1 \in first_window_byte..(first_window_byte + n - 1)
        BY <1>2, <1>3
      <4> QED BY <3>1, <4>1
    <3>2. ASSUME NEW c \in Nat, NEW d \in first_window_byte..(first_window_byte + n - 1),
                 c % W = d % W
          PROVE  \E k \in 1..n : c % W = position(k)
      <4>1. d - first_window_byte + 1 \in 1..n
            /\ first_window_byte + (d - first_window_byte + 1) - 1 = d
        BY <1>2, <1>3
      <4> QED BY <3>2, <4>1
    <3> QED BY <3>1, <3>2
  <2>5. bitmap' = {c % W : c \in first_window_byte'..(last_acked_byte' - 1)}
    <3> DEFINE kept == first_window_byte'..(last_acked_byte' - 1)
    <3>1. \A c \in first_window_byte..(last_acked_byte - 1) :
             c \in Nat /\ (c \in kept <=> ~(c \in first_window_byte..(first_window_byte + n - 1)))
      BY <1>1, <1>2, <1>3, <2>3
    <3>2. \A c \in kept : c \in first_window_byte..(last_acked_byte - 1)
      BY <1>1, <1>2, <1>3, <2>3
    <3>3. ASSUME NEW c \in kept, NEW d \in first_window_byte..(first_window_byte + n - 1)
          PROVE  c % W # d % W
      <4>1. c \in Nat /\ d \in Nat /\ d < c /\ c < d + W
        BY <1>1, <1>2, <1>3, <2>3, WindowAssumption
      <4> QED BY <4>1, PlacesApart
    <3>4. bitmap = {c % W : c \in first_window_byte..(last_acked_byte - 1)}
      BY <2>1 DEF WindowOK
    <3>5. \A p \in bitmap' : \E c \in kept : p = c % W
      BY <1>1, <2>4, <3>1, <3>4
    <3>6. \A c \in kept : c % W \in bitmap'
      BY <1>1, <2>4, <3>1, <3>2, <3>3, <3>4
    <3> QED BY <3>5, <3>6
  <2>6. \A c \in first_window_byte'..(last_acked_byte' - 1) : buffer'[c % W] = c - First
    <3>1. \A c \in first_window_byte'..(last_acked_byte' - 1) :
            c \in first_window_byte..(last_acked_byte - 1)
      BY <1>1, <1>2, <1>3
    <3> QED BY <1>1, <2>1, <3>1 DEF WindowOK
  <2>7. WindowOK'
    <3>1. First <= first_window_byte' /\ first_window_byte' <= last_acked_byte'
          /\ last_acked_byte' <= first_window_byte' + W'
      BY <1>1, <1>2, <1>3, <2>2, <2>3, WindowAssumption
    <3>2. 0..(last_acked_byte' - First - 1) \subseteq arrived'
      BY <1>1, <2>1 DEF WindowOK
    <3> QED BY <2>2, <2>5, <2>6, <3>1, <3>2 DEF WindowOK
  <2>8. ReadOK'
    <3> DEFINE m == first_window_byte - First
    <3>1. m \in Nat
      BY <1>3, <2>2, <2>3
    <3>2. got = [k \in 1..n |-> m + k - 1]
      <4>1. ASSUME NEW k \in 1..n PROVE buffer[position(k)] = m + k - 1
        <5>1. first_window_byte + k - 1 \in first_window_byte..(last_acked_byte - 1)
          BY <1>2, <1>3, <2>3
        <5>2. buffer[(first_window_byte + k - 1) % W] = (first_window_byte + k - 1) - First
          BY <2>1, <5>1 DEF WindowOK
        <5> QED BY <1>3, <2>2, <5>2
      <4> QED BY <4>1
    <3>3. Returned(m)
      BY <1>1, <2>1 DEF ReadOK
    <3>4. delivered' \in {Bytes(m + n), <<Stray>> \o Bytes(m + n)}
      <4> HIDE DEF m, got
      <4>1. /\ Bytes(m) \o got = Bytes(m + n)
            /\ (<<Stray>> \o Bytes(m)) \o got = <<Stray>> \o Bytes(m + n)
        BY <1>2, <3>1, <3>2, BytesGrow
      <4> QED BY <1>1, <3>3, <4>1 DEF Returned
    <3>5. m + n = first_window_byte' - First'
      BY <1>1, <1>2, <1>3, <2>2
    <3> QED BY <1>1, <3>4, <3>5 DEF ReadOK, Returned
  <2>9. OpeningOK'
    BY <1>1, <2>1 DEF OpeningOK, Unopened
  <2>10. AnswersOK'
    BY <1>1, <2>1, AnswersStay
  <2> QED BY <2>7, <2>8, <2>9, <2>10 DEF StreamOK
<1> QED BY <1>4, <1>5, <1>6

LEMMA StrayReadKeeps == ASSUME Inv, StrayRead PROVE Inv'
<1> USE DEF Inv, recv_window, kernel, peer
<1>1. /\ window # "ready"
      /\ \A k \in DOMAIN delivered : delivered[k] # Stray
      /\ delivered' = Append(delivered, Stray)
      /\ UNCHANGED <<kernel, boot, answers, peer, spoiled>>
  BY DEF StrayRead
<1>2. TypeOK' /\ WireOK'
  BY <1>1 DEF TypeOK, WireOK
<1>3. ASSUME ~spoiled' PROVE StreamOK'
  <2>1. OpeningOK /\ ReadOK /\ AnswersOK
    BY <1>1, <1>3 DEF StreamOK
  <2>2. OpeningOK' /\ AnswersOK'
    BY <1>1, <2>1, AnswersStay DEF OpeningOK, Unopened
  <2>3. Bytes(0) = <<>>
    BY DEF Bytes
  <2>4. delivered \in {<<>>, <<Stray>>}
    BY <1>1, <2>1, <2>3 DEF ReadOK, Returned
  <2>5. delivered = <<>>
    BY <1>1, <2>4
  <2>6. delivered' = <<Stray>> \o Bytes(0)
    BY <1>1, <2>3, <2>5
  <2>7. ReadOK'
    BY <1>1, <2>6 DEF ReadOK, Returned
  <2> QED BY <1>1, <2>2, <2>7 DEF StreamOK
<1> QED BY <1>2, <1>3

-----------------------------------------------------------------------------
(* Opening a connection.                                                   *)

LEMMA SynKeeps ==
  ASSUME Inv, NEW s \in wire, RecvSyn(s) \/ RecvSynAck(s)
  PROVE  Inv'
<1> USE DEF Inv, recv_window, kernel, peer
<1>1. /\ hpc = "idle" /\ hpc' \in {"opened", "stablished"} /\ Unopened
      /\ \A a \in answers' : a \in answers \/ a.number = First
      /\ UNCHANGED <<state, stablished, recv_window, boot, delivered, arrived,
                     peer, spoiled>>
  BY DEF RecvSyn, RecvSynAck, Handles, Unopened, Answer, First
<1>2. TypeOK' /\ WireOK'
  BY <1>1 DEF TypeOK, WireOK
<1>3. ASSUME ~spoiled' PROVE StreamOK'
  <2>1. OpeningOK /\ ReadOK /\ AnswersOK /\ window = "null"
    BY <1>1, <1>3 DEF StreamOK, OpeningOK
  <2>2. OpeningOK'
    BY <1>1, <2>1 DEF OpeningOK, Unopened
  <2>3. AnswersOK'
    <3>1. First' = First /\ First \in 0..(SeqMod - 1) /\ SeqMod \in Nat
      BY <1>1, Numbers, WindowAssumption DEF First
    <3>2. First \in First..(SeqMod - 1) /\ 0..(First - First - 1) \subseteq arrived
      BY <3>1
    <3> QED BY <1>1, <2>1, <3>1, <3>2 DEF AnswersOK
  <2> QED BY <1>1, <2>1, <2>2, <2>3, WindowStays DEF StreamOK
<1> QED BY <1>2, <1>3

LEMMA SetStateKeeps == ASSUME Inv, SetState PROVE Inv'
<1> USE DEF Inv, recv_window, kernel, peer
<1>1. /\ hpc \in {"opened", "stablished"} /\ hpc' = "window"
      /\ state' \in {"WAITING_THREEWAY_ACK", "CONNECTED"}
      /\ stablished' \in BOOLEAN
      /\ UNCHANGED <<recv_window, boot, delivered, arrived, answers, peer, spoiled>>
  BY DEF SetState, TypeOK
<1>2. TypeOK' /\ WireOK'
  BY <1>1 DEF TypeOK, WireOK, PortStates
<1>3. ASSUME ~spoiled' PROVE StreamOK'
  <2>1. OpeningOK /\ ReadOK /\ AnswersOK
    BY <1>1, <1>3 DEF StreamOK
  <2>2. OpeningOK' /\ window' # "ready"
    BY <1>1, <2>1 DEF OpeningOK, Unopened
  <2> QED BY <1>1, <2>1, <2>2, WindowStays, AnswersStay DEF StreamOK
<1> QED BY <1>2, <1>3

LEMMA NewWindowKeeps == ASSUME Inv, NewWindow PROVE Inv'
<1> USE DEF Inv, recv_window, kernel, peer
<1>1. /\ hpc = "window" /\ hpc' = "fields" /\ window' = "raw"
      /\ buffer' = [p \in 0..(W - 1) |-> Junk]
      /\ bitmap' \subseteq Leftover /\ recycled' = bitmap'
      /\ spoiled' = (spoiled \/ bitmap' # {})
      /\ UNCHANGED <<state, stablished, last_acked_byte, first_window_byte, boot,
                     delivered, arrived, answers, peer>>
  BY DEF NewWindow
<1>2. TypeOK' /\ WireOK'
  BY <1>1, MemoryAssumption DEF TypeOK, WireOK
<1>3. ASSUME ~spoiled' PROVE StreamOK'
  <2>1. ~spoiled /\ bitmap' = {}
    BY <1>1, <1>3
  <2>2. OpeningOK /\ ReadOK /\ AnswersOK /\ window = "null"
    BY <1>1, <2>1 DEF StreamOK, OpeningOK
  <2>3. OpeningOK'
    BY <1>1, <2>1, <2>2 DEF OpeningOK, Unopened
  <2>4. ReadOK'
    BY <1>1, <2>2 DEF ReadOK, Returned
  <2> QED BY <1>1, <2>2, <2>3, <2>4, AnswersStay DEF StreamOK
<1> QED BY <1>2, <1>3

LEMMA InitWindowKeeps == ASSUME Inv, InitWindow PROVE Inv'
<1> USE DEF Inv, recv_window, kernel, peer
<1>1. /\ hpc = "fields" /\ hpc' = "idle" /\ window' = "ready"
      /\ last_acked_byte' = First /\ first_window_byte' = First
      /\ UNCHANGED <<state, stablished, bitmap, buffer, recycled, boot, delivered,
                     arrived, answers, peer, spoiled>>
  BY DEF InitWindow, First
<1>2. First' = First /\ First \in 0..(SeqMod - 1) /\ W \in Nat
  BY <1>1, Numbers, WindowAssumption DEF First
<1>3. TypeOK' /\ WireOK'
  BY <1>1, <1>2 DEF TypeOK, WireOK
<1>4. ASSUME ~spoiled' PROVE StreamOK'
  <2>1. OpeningOK /\ ReadOK /\ AnswersOK /\ window = "raw" /\ bitmap = {}
    BY <1>1, <1>4 DEF StreamOK, OpeningOK
  <2>2. OpeningOK'
    BY <1>1, <2>1 DEF OpeningOK, Unopened
  <2>3. WindowOK'
    BY <1>1, <1>2, <2>1 DEF WindowOK
  <2>4. ReadOK'
    BY <1>1, <1>2, <2>1 DEF ReadOK, Returned
  <2> QED BY <1>1, <2>1, <2>2, <2>3, <2>4, AnswersStay DEF StreamOK
<1> QED BY <1>3, <1>4

-----------------------------------------------------------------------------
(* Segments that carry no data.                                            *)

LEMMA DatalessKeeps ==
  ASSUME Inv, NEW s \in wire, RecvAck(s) \/ RecvFinAck(s) \/ RecvClosing(s)
  PROVE  Inv'
<1> USE DEF Inv, recv_window, kernel, peer
<1>1. /\ hpc = "idle"
      /\ ~Unopened /\ ~Unopened' /\ state' \in PortStates
      /\ \A a \in answers' : a \in answers \/ a.flags = "fin_ack"
      /\ UNCHANGED <<stablished, recv_window, hpc, arrived, boot, delivered, peer,
                     spoiled>>
  BY DEF RecvAck, RecvFinAck, RecvClosing, Handles, Answer, Unopened, PortStates
<1>2. TypeOK' /\ WireOK'
  BY <1>1 DEF TypeOK, WireOK
<1>3. ASSUME ~spoiled' PROVE StreamOK'
  <2>1. StreamOK
    BY <1>1, <1>3
  <2>2. OpeningOK'
    BY <1>1, <2>1 DEF StreamOK, OpeningOK
  <2>3. AnswersOK'
    BY <1>1, <2>1 DEF StreamOK, AnswersOK, First
  <2> QED BY <1>1, <2>1, <2>2, <2>3, WindowStays DEF StreamOK
<1> QED BY <1>2, <1>3

(* The peer.                                                               *)
LEMMA PeerKeeps == ASSUME Inv, PeerStep PROVE Inv'
<1> USE DEF Inv, recv_window, kernel, peer
<1>1. /\ UNCHANGED <<kernel, boot, delivered, answers, isn, spoiled>>
      /\ wire' \subseteq Segments /\ peer_acked' \in 0..N /\ WireOK'
  <2>1. ASSUME NEW s \in Segments, Send(s),
               s.flags = "psh_ack" => s.len > 0 /\ s.from + s.len <= N
        PROVE  /\ UNCHANGED <<kernel, boot, delivered, answers, isn, spoiled>>
               /\ wire' \subseteq Segments /\ peer_acked' \in 0..N /\ WireOK'
    BY <2>1 DEF Send, TypeOK, WireOK
  <2>2. N \in Nat /\ MaxLen \in Nat
    BY PeerAssumption
  <2>3. CASE PeerOpens \/ PeerAcks \/ PeerCloses
    <3>1. PICK s \in {Segment("syn", 0, 0), Segment("syn_ack", 0, 0),
                      Segment("ack", 0, 0), Segment("fin_ack", N, 0)} : Send(s)
      BY <2>3 DEF PeerOpens, PeerAcks, PeerCloses
    <3>2. s \in Segments /\ s.flags # "psh_ack"
      BY <2>2 DEF Segments, Segment
    <3> QED BY <2>1, <3>1, <3>2
  <2>4. ASSUME NEW from \in 0..N, NEW len \in 1..MaxLen, PeerSends(from, len)
        PROVE  /\ UNCHANGED <<kernel, boot, delivered, answers, isn, spoiled>>
               /\ wire' \subseteq Segments /\ peer_acked' \in 0..N /\ WireOK'
    <3> DEFINE s == Segment("psh_ack", from, len)
    <3>1. s \in Segments /\ Send(s) /\ s.len > 0 /\ s.from + s.len <= N
      BY <2>2, <2>4 DEF PeerSends, Segments, Segment
    <3> QED BY <2>1, <3>1
  <2>5. ASSUME NEW a \in answers, PeerLearns(a)
        PROVE  /\ UNCHANGED <<kernel, boot, delivered, answers, isn, spoiled>>
               /\ wire' \subseteq Segments /\ peer_acked' \in 0..N /\ WireOK'
    <3>1. peer_acked' \in (peer_acked + 1)..N
          /\ UNCHANGED <<kernel, boot, delivered, answers, isn, wire, spoiled>>
      BY <2>5 DEF PeerLearns
    <3>2. peer_acked' \in 0..N
      BY <2>2, <3>1 DEF TypeOK
    <3> QED BY <3>1, <3>2 DEF TypeOK, WireOK
  <2> QED BY <2>3, <2>4, <2>5 DEF PeerStep
<1>2. TypeOK'
  BY <1>1 DEF TypeOK
<1>3. ASSUME ~spoiled' PROVE StreamOK'
  <2>1. StreamOK
    BY <1>1, <1>3
  <2>2. OpeningOK'
    BY <1>1, <2>1 DEF StreamOK, OpeningOK, Unopened
  <2> QED BY <1>1, <2>1, <2>2, WindowStays, AnswersStay DEF StreamOK
<1> QED BY <1>1, <1>2, <1>3

-----------------------------------------------------------------------------
(* Data.                                                                   *)

LEMMA StoreTypes ==
  ASSUME TypeOK, NEW a \in 0..(SeqMod - 1), NEW b \in 0..(SeqMod - 1), Store(a, b)
  PROVE  /\ bitmap' \subseteq 0..(W - 1)
         /\ buffer' \in [0..(W - 1) -> 0..(SeqMod - 1) \cup {Junk}]
<1> DEFINE new == {c \in a..b : c % W \notin bitmap}
<1>1. /\ bitmap' = bitmap \cup {c % W : c \in new}
      /\ buffer' = [p \in 0..(W - 1) |->
                     IF \E c \in new : c % W = p
                     THEN ByteAt(CHOOSE c \in new : c % W = p) ELSE buffer[p]]
  BY DEF Store
<1>2. W \in Nat \ {0} /\ SeqMod \in Nat
  BY WindowAssumption
<1>3. \A c \in new : c \in 0..(SeqMod - 1) /\ c % W \in 0..(W - 1)
  BY <1>2, ModBasics
<1>4. \A c \in 0..(SeqMod - 1) : ByteAt(c) \in 0..(SeqMod - 1)
  BY <1>2, Numbers
<1> HIDE DEF new
<1>5. ASSUME NEW p \in 0..(W - 1), \E c \in new : c % W = p
      PROVE  ByteAt(CHOOSE c \in new : c % W = p) \in 0..(SeqMod - 1)
  BY <1>3, <1>4, <1>5
<1>6. bitmap' \subseteq 0..(W - 1)
  BY <1>1, <1>3 DEF TypeOK
<1>7. \A p \in 0..(W - 1) : buffer[p] \in 0..(SeqMod - 1) \cup {Junk}
  BY DEF TypeOK
<1> QED BY <1>1, <1>5, <1>6, <1>7

(* The bytes that follow those in the window, and fit, are stored behind   *)
(* them, whatever the window's place.                                      *)
LEMMA StoreExtends ==
  ASSUME TypeOK, WindowOK, NEW b \in Nat,
         last_acked_byte <= b + 1, b < SeqMod, b < first_window_byte + W,
         Store(last_acked_byte, b)
  PROVE  /\ bitmap' = {c % W : c \in first_window_byte..b}
         /\ \A c \in first_window_byte..b : buffer'[c % W] = c - First
<1> DEFINE f == first_window_byte
           l == last_acked_byte
           new == {c \in l..b : c % W \notin bitmap}
<1>1. /\ bitmap' = bitmap \cup {c % W : c \in new}
      /\ buffer' = [p \in 0..(W - 1) |->
                     IF \E c \in new : c % W = p
                     THEN ByteAt(CHOOSE c \in new : c % W = p) ELSE buffer[p]]
  BY DEF Store
<1>2. /\ f \in Nat /\ l \in Nat /\ First \in Nat /\ SeqMod \in Nat
      /\ W \in Nat \ {0} /\ First <= f /\ f <= l
      /\ bitmap = {c % W : c \in f..(l - 1)}
      /\ \A c \in f..(l - 1) : buffer[c % W] = c - First
  BY WindowAssumption, Numbers DEF TypeOK, WindowOK
<1>3. \A c, d \in f..b : c % W = d % W => c = d
  <2>1. \A c, d \in f..b : c \in Nat /\ d \in Nat /\ c < d + W
    BY <1>2
  <2>2. \A c, d \in f..b : c < d => c % W # d % W
    BY <2>1, PlacesApart
  <2>3. \A c, d \in f..b : c < d \/ d < c \/ c = d
    BY <2>1
  <2> QED BY <2>2, <2>3
<1>4. new = l..b
  <2>1. \A c \in l..b, d \in f..(l - 1) : c \in f..b /\ d \in f..b /\ c # d
    BY <1>2
  <2> QED BY <1>2, <1>3, <2>1
<1> HIDE DEF new
<1>5. f..b = (f..(l - 1)) \cup (l..b)
  BY <1>2
<1>6. bitmap' = {c % W : c \in f..b}
  BY <1>1, <1>2, <1>4, <1>5
<1>7. ASSUME NEW c \in f..b PROVE buffer'[c % W] = c - First
  <2>1. c \in Nat /\ c % W \in 0..(W - 1)
    BY <1>2, ModBasics
  <2>2. CASE c \in l..b
    <3> DEFINE d == CHOOSE d \in new : d % W = c % W
    <3>1. d \in new /\ d % W = c % W
      BY <1>4, <2>2
    <3>2. d = c
      BY <1>3, <1>4, <1>5, <3>1
    <3>3. ByteAt(c) = c - First
      <4>1. c \in 0..(SeqMod - 1) /\ First <= c
        BY <1>2, <2>2
      <4> QED BY <4>1, Numbers
    <3>4. buffer'[c % W] = ByteAt(d)
      BY <1>1, <1>4, <2>1, <2>2
    <3> QED BY <3>2, <3>3, <3>4
  <2>3. CASE c \in f..(l - 1)
    <3>1. ~ \E d \in new : d % W = c % W
      <4>1. \A d \in l..b : d \in f..b /\ d # c
        BY <1>2, <2>3
      <4> QED BY <1>3, <1>4, <4>1
    <3> QED BY <1>1, <1>2, <2>1, <2>3, <3>1
  <2> QED BY <1>5, <2>2, <2>3
<1> QED BY <1>6, <1>7

(* Nothing is stored where no byte is new.                                 *)
LEMMA StoreNothing ==
  ASSUME TypeOK, NEW a \in Nat, NEW b \in Nat, b < a, Store(a, b)
  PROVE  UNCHANGED <<bitmap, buffer>>
<1>1. {c \in a..b : c % W \notin bitmap} = {}
  OBVIOUS
<1> QED BY <1>1 DEF Store, TypeOK

(* Where a segment of data lies, seen from the window: if its last number  *)
(* has wrapped, the segment counts as an old one.                          *)
LEMMA SegmentPlace ==
  ASSUME TypeOK, WireOK, NEW s \in wire, s.flags = "psh_ack"
  PROVE  LET first_received_byte == Seqno(s.from)
             last_received_byte == (first_received_byte + s.len + SeqMod - 1) % SeqMod
         IN /\ s.from \in Nat /\ s.len \in Nat \ {0} /\ s.from + s.len <= N
            /\ first_received_byte \in 0..(SeqMod - 1)
            /\ last_received_byte \in 0..(SeqMod - 1)
            /\ last_received_byte >= First =>
                 /\ first_received_byte = First + s.from
                 /\ last_received_byte = First + s.from + s.len - 1
            /\ first_received_byte + s.len <= SeqMod =>
                 last_received_byte = first_received_byte + s.len - 1
<1> DEFINE f == Seqno(s.from)
           n == f + s.len + SeqMod - 1
<1>1. /\ s.from \in 0..N /\ s.len \in Nat /\ s.len > 0 /\ s.from + s.len <= N
      /\ SeqMod \in Nat \ {0} /\ N \in Nat /\ N < SeqMod
      /\ First \in 0..(SeqMod - 1)
  BY WindowAssumption, PeerAssumption, Numbers DEF TypeOK, WireOK, Segments
<1>2. f = IF First + s.from < SeqMod THEN First + s.from ELSE First + s.from - SeqMod
  BY <1>1, Numbers
<1> HIDE DEF f
<1>3. n \in Nat /\ SeqMod <= n /\ f \in 0..(SeqMod - 1)
  BY <1>1, <1>2
<1>4. CASE f + s.len - 1 < SeqMod
  <2>1. n % SeqMod = f + s.len - 1
    <3>1. n < 2 * SeqMod
      BY <1>1, <1>3, <1>4
    <3>2. n % SeqMod = n - SeqMod
      BY <1>1, <1>3, <3>1, ModWraps
    <3> QED BY <1>1, <1>3, <3>2
  <2> QED BY <1>1, <1>2, <1>3, <1>4, <2>1 DEF f
<1>5. CASE f + s.len - 1 >= SeqMod
  <2> DEFINE k == n - SeqMod
  <2>1. k \in Nat /\ SeqMod <= k /\ k < 2 * SeqMod
    BY <1>1, <1>2, <1>3, <1>5
  <2>2. n % SeqMod = k % SeqMod
    BY <1>1, <1>3, <2>1
  <2>3. k % SeqMod = k - SeqMod
    BY <1>1, <2>1, ModWraps
  <2>4. n % SeqMod = f + s.len - 1 - SeqMod
    BY <1>1, <1>3, <2>2, <2>3
  <2> QED BY <1>1, <1>2, <1>3, <1>5, <2>4 DEF f
<1> QED BY <1>1, <1>3, <1>4, <1>5

LEMMA RecvPshAckKeeps ==
  ASSUME Inv, NEW s \in wire, RecvPshAck(s)
  PROVE  Inv'
<1> DEFINE first == Seqno(s.from)
           last == (first + s.len + SeqMod - 1) % SeqMod
           possible == (first_window_byte + W - 1) % SeqMod
           curr == Larger(last_acked_byte, first)
           end == Smaller(possible, last)
           acked == IF curr <= end THEN end + 1 ELSE curr
           Ignored == /\ first > possible
                      /\ UNCHANGED <<recv_window, answers, hpc, spoiled>>
           Old == /\ answers' = answers \cup {Answer("ack", last_acked_byte)}
                  /\ UNCHANGED <<recv_window, hpc, spoiled>>
           New == /\ first <= possible /\ last >= last_acked_byte
                  /\ curr > end \/ end < SeqMod - 1
                  /\ Store(curr, end)
                  /\ Acknowledge(acked)
                  /\ spoiled' = (spoiled \/ first > last_acked_byte)
                  /\ UNCHANGED <<window, first_window_byte, recycled, hpc>>
           Loops == /\ hpc' = "looping"
                    /\ UNCHANGED <<recv_window, answers, spoiled>>
<1> USE DEF Inv, recv_window, kernel, peer
<1>1. /\ hpc = "idle" /\ s.flags = "psh_ack" /\ state = "CONNECTED"
      /\ arrived' = arrived \cup s.from..(s.from + s.len - 1)
      /\ UNCHANGED <<state, stablished, boot, delivered, peer>>
      /\ Ignored \/ Old \/ New \/ Loops
  BY DEF RecvPshAck, Handles
<1>2. /\ s.from \in Nat /\ s.len \in Nat \ {0} /\ s.from + s.len <= N
      /\ first \in 0..(SeqMod - 1) /\ last \in 0..(SeqMod - 1)
      /\ last >= First => first = First + s.from /\ last = First + s.from + s.len - 1
  BY <1>1, SegmentPlace
<1>3. /\ SeqMod \in Nat \ {0} /\ W \in Nat \ {0} /\ W < SeqMod /\ N \in Nat /\ N < SeqMod
      /\ first_window_byte \in 0..(SeqMod - 1) /\ last_acked_byte \in 0..(SeqMod - 1)
      /\ First \in 0..(SeqMod - 1) /\ First' = First
  BY <1>1, WindowAssumption, PeerAssumption, Numbers DEF TypeOK, First
<1>4. possible \in 0..(SeqMod - 1)
      /\ possible = IF first_window_byte + W - 1 < SeqMod THEN first_window_byte + W - 1
                    ELSE first_window_byte + W - 1 - SeqMod
  <2>1. first_window_byte + W - 1 \in Nat /\ first_window_byte + W - 1 < 2 * SeqMod
    BY <1>3
  <2>2. CASE first_window_byte + W - 1 < SeqMod
    BY <1>3, <2>1, <2>2, ModBelow
  <2>3. CASE first_window_byte + W - 1 >= SeqMod
    <3>1. possible = first_window_byte + W - 1 - SeqMod
      BY <1>3, <2>1, <2>3, ModWraps
    <3> QED BY <1>3, <2>1, <2>3, <3>1
  <2> QED BY <1>3, <2>1, <2>2, <2>3
<1> HIDE DEF first, last, possible
<1>5. curr \in 0..(SeqMod - 1) /\ end \in 0..(SeqMod - 1)
  BY <1>2, <1>3, <1>4 DEF Larger, Smaller
<1>6. arrived \subseteq arrived' /\ arrived' \subseteq 0..N
  <2>1. s.from..(s.from + s.len - 1) \subseteq 0..N
    BY <1>2, <1>3
  <2> QED BY <1>1, <2>1 DEF TypeOK
<1>7. WireOK'
  BY <1>1 DEF WireOK
<1>8. TypeOK'
  <2>1. CASE Ignored \/ Old \/ Loops
    BY <1>1, <1>6, <2>1 DEF TypeOK
  <2>2. CASE New
    <3>1. bitmap' \subseteq 0..(W - 1)
          /\ buffer' \in [0..(W - 1) -> 0..(SeqMod - 1) \cup {Junk}]
      BY <1>5, <2>2, StoreTypes
    <3>2. last_acked_byte' \in 0..(SeqMod - 1)
      <4>1. acked \in 0..(SeqMod - 1)
        BY <1>3, <1>5, <2>2
      <4> HIDE DEF acked
      <4> QED BY <1>3, <2>2, <4>1 DEF Acknowledge
    <3>3. spoiled' \in BOOLEAN
      BY <2>2 DEF TypeOK
    <3> QED BY <1>1, <1>6, <2>2, <3>1, <3>2, <3>3 DEF TypeOK
  <2> QED BY <1>1, <2>1, <2>2
<1>9. ASSUME ~spoiled' PROVE StreamOK'
  <2>1. ~spoiled /\ StreamOK
    <3>1. spoiled => spoiled'
      BY <1>1
    <3> QED BY <1>9, <3>1
  <2>2. OpeningOK /\ WindowOK /\ ReadOK /\ AnswersOK /\ window = "ready" /\ ~Unopened
    BY <1>1, <2>1 DEF StreamOK, OpeningOK, Unopened
  <2>3. OpeningOK'
    BY <1>1, <2>2 DEF OpeningOK, Unopened
  <2>4. /\ First <= first_window_byte /\ first_window_byte <= last_acked_byte
        /\ last_acked_byte <= first_window_byte + W
        /\ 0..(last_acked_byte - First - 1) \subseteq arrived
    BY <2>2 DEF WindowOK
  <2>5. CASE Ignored \/ Loops
    BY <1>1, <1>6, <2>2, <2>3, <2>5, WindowStays, AnswersStay DEF StreamOK
  <2>6. CASE Old
    <3>1. AnswersOK'
      <4>1. last_acked_byte \in First..(SeqMod - 1)
        BY <1>3, <2>4
      <4>2. \A a \in answers' : a \in answers \/ a.number = last_acked_byte
        BY <2>6 DEF Answer
      <4>3. 0..(last_acked_byte - First - 1) \subseteq arrived'
        BY <1>6, <2>4
      <4> QED BY <1>3, <1>6, <2>2, <4>1, <4>2, <4>3, NewAnswer
    <3> QED BY <1>1, <1>6, <2>2, <2>3, <2>6, <3>1, WindowStays DEF StreamOK
  <2>7. CASE New
    <3>1. /\ first = First + s.from /\ last = First + s.from + s.len - 1
          /\ first <= last_acked_byte /\ curr = last_acked_byte
      <4>1. ~(first > last_acked_byte)
        BY <1>9, <2>7
      <4>2. first <= last_acked_byte /\ curr = last_acked_byte
        BY <1>2, <1>3, <4>1 DEF Larger
      <4>3. last >= First
        BY <1>2, <1>3, <2>4, <2>7
      <4> QED BY <1>2, <4>2, <4>3
    <3>2. ReadOK'
      BY <1>1, <1>3, <2>2, <2>7 DEF ReadOK, Returned
    <3>3. CASE last_acked_byte > end
      <4>1. UNCHANGED <<bitmap, buffer>>
        BY <1>3, <1>5, <2>7, <3>1, <3>3, StoreNothing
      <4>2. acked = last_acked_byte
        BY <1>3, <1>5, <3>1, <3>3
      <4>3. UNCHANGED <<last_acked_byte, answers>>
        BY <1>3, <2>7, <4>2 DEF Acknowledge
      <4> QED BY <1>1, <1>6, <2>2, <2>3, <2>7, <4>1, <4>3, WindowStays, AnswersStay
              DEF StreamOK
    <3>4. CASE last_acked_byte <= end
      <4>1. /\ end <= last /\ end < SeqMod - 1 /\ end < first_window_byte + W
            /\ acked = end + 1
        BY <1>2, <1>3, <1>4, <1>5, <2>4, <2>7, <3>1, <3>4 DEF Smaller
      <4> HIDE DEF curr, end, acked
      <4>2. /\ bitmap' = {c % W : c \in first_window_byte..end}
            /\ \A c \in first_window_byte..end : buffer'[c % W] = c - First
        <5>1. end \in Nat /\ last_acked_byte <= end + 1 /\ end < SeqMod
              /\ end < first_window_byte + W /\ Store(last_acked_byte, end)
          BY <1>3, <1>5, <2>7, <3>1, <3>4, <4>1
        <5> QED BY <2>2, <5>1, StoreExtends
      <4>3. last_acked_byte' = end + 1
            /\ answers' = answers \cup {Answer("ack", end + 1)}
        BY <1>3, <1>5, <2>7, <3>4, <4>1 DEF Acknowledge
      <4>4. 0..((end + 1) - First - 1) \subseteq arrived'
        BY <1>1, <1>2, <1>3, <1>5, <2>4, <3>1, <4>1
      <4>5. WindowOK'
        <5>1. (end + 1) - 1 = end
          BY <1>5
        <5>2. /\ First <= first_window_byte /\ first_window_byte <= end + 1
              /\ end + 1 <= first_window_byte + W
          BY <1>3, <1>5, <2>4, <3>4, <4>1
        <5>3. first_window_byte' = first_window_byte
              /\ first_window_byte'..(last_acked_byte' - 1) = first_window_byte..end
              /\ last_acked_byte' - First' - 1 = (end + 1) - First - 1
          BY <1>3, <2>7, <4>3, <5>1
        <5> QED BY <1>3, <4>2, <4>3, <4>4, <5>2, <5>3 DEF WindowOK
      <4>6. AnswersOK'
        <5>1. end + 1 \in First..(SeqMod - 1)
          BY <1>3, <1>5, <2>4, <3>4, <4>1
        <5>2. \A a \in answers' : a \in answers \/ a.number = end + 1
          BY <4>3 DEF Answer
        <5> QED BY <1>3, <1>6, <2>2, <4>4, <5>1, <5>2, NewAnswer
      <4> QED BY <2>3, <3>2, <4>5, <4>6 DEF StreamOK
    <3> QED BY <1>3, <1>5, <3>3, <3>4
  <2> QED BY <1>1, <2>5, <2>6, <2>7
<1> QED BY <1>7, <1>8, <1>9

-----------------------------------------------------------------------------
LEMMA InvStep == Inv /\ [Next]_vars => Inv'
<1> SUFFICES ASSUME Inv, [Next]_vars PROVE Inv'
  OBVIOUS
<1>1. CASE Boot
  BY <1>1, OpensKeep, SendSynKeeps, TcpReadKeeps, StrayReadKeeps DEF Boot
<1>2. CASE OpenConnection
  BY <1>2, SetStateKeeps, NewWindowKeeps, InitWindowKeeps DEF OpenConnection
<1>3. ASSUME NEW s \in wire, Recv(s) PROVE Inv'
  BY <1>3, SynKeeps, DatalessKeeps, RecvPshAckKeeps DEF Recv
<1>4. CASE PeerStep
  BY <1>4, PeerKeeps
<1>5. CASE UNCHANGED vars
  <2> USE <1>5 DEF Inv, vars, kernel, peer, recv_window
  <2>1. TypeOK' /\ WireOK'
    BY DEF TypeOK, WireOK
  <2>2. ASSUME ~spoiled' PROVE StreamOK'
    <3>1. StreamOK
      BY <2>2
    <3>2. OpeningOK'
      BY <3>1 DEF StreamOK, OpeningOK, Unopened
    <3> QED BY <3>1, <3>2, WindowStays, AnswersStay DEF StreamOK
  <2> QED BY <2>1, <2>2
<1> QED BY <1>1, <1>2, <1>3, <1>4, <1>5 DEF Next

LEMMA InvHolds == Spec => []Inv
<1> QED BY InitInv, InvStep, PTL DEF Spec

-----------------------------------------------------------------------------
(* tcp_read returns the peer's stream, from its beginning, in order and    *)
(* without a hole.                                                         *)
THEOREM ReadsTheStream == Spec => []ReadIsPrefix
<1>1. Inv => ReadIsPrefix
  <2> SUFFICES ASSUME Inv, ~spoiled
               PROVE  Stream(delivered) = [k \in 1..Len(Stream(delivered)) |-> k - 1]
    BY DEF ReadIsPrefix
  <2>1. Returned(IF window = "ready" THEN first_window_byte - First ELSE 0)
    BY DEF Inv, StreamOK, ReadOK
  <2>2. (IF window = "ready" THEN first_window_byte - First ELSE 0) \in Nat
    BY Numbers DEF Inv, StreamOK, WindowOK, TypeOK
  <2> QED BY <2>1, <2>2, ReturnedIsStream
<1> QED BY InvHolds, <1>1, PTL

(* Every byte that tcp_state_connected_handler has acknowledged, and that  *)
(* tcp_read has not returned, is in the window, at its place.              *)
THEOREM WindowKeepsBytes == Spec => []WindowHoldsStream
<1>1. Inv => WindowHoldsStream
  <2> SUFFICES ASSUME Inv, window = "ready", ~spoiled
               PROVE  /\ first_window_byte <= last_acked_byte
                      /\ last_acked_byte <= first_window_byte + W
                      /\ \A c \in first_window_byte..(last_acked_byte - 1) :
                           buffer[c % W] = ByteAt(c)
    BY DEF WindowHoldsStream, Inv
  <2>1. WindowOK /\ TypeOK
    BY DEF Inv, StreamOK
  <2>2. \A c \in first_window_byte..(last_acked_byte - 1) :
          c \in 0..(SeqMod - 1) /\ First <= c
    BY <2>1, Numbers, WindowAssumption DEF WindowOK, TypeOK
  <2> QED BY <2>1, <2>2, Numbers DEF WindowOK
<1> QED BY InvHolds, <1>1, PTL

(* No acknowledgement is ahead of what has arrived.                        *)
THEOREM AcksStayBehind == Spec => []AcksKeepBehind
<1>1. Inv => AcksKeepBehind
  <2> SUFFICES ASSUME Inv, ~spoiled, NEW a \in answers, a.flags = "ack"
               PROVE  0..(ByteAt(a.number) - 1) \subseteq arrived
    BY DEF AcksKeepBehind, Arrived
  <2>1. a.number \in First..(SeqMod - 1) /\ 0..(a.number - First - 1) \subseteq arrived
    BY DEF Inv, StreamOK, AnswersOK
  <2>2. ByteAt(a.number) = a.number - First
    BY <2>1, Numbers, WindowAssumption DEF Inv
  <2> QED BY <2>1, <2>2
<1> QED BY InvHolds, <1>1, PTL

-----------------------------------------------------------------------------
(* What holds of the window whatever has happened to the connection: where *)
(* it lies, and that every bit is of a byte that was acknowledged and not  *)
(* read, or came with the memory.                                          *)
Marked == {c % W : c \in first_window_byte..(last_acked_byte - 1)}

Opened ==
  /\ window = "raw" <=> hpc = "fields"
  /\ hpc \in {"idle", "looping"} /\ ~Unopened => window = "ready"

Placed == /\ First <= first_window_byte /\ first_window_byte <= last_acked_byte
          /\ last_acked_byte <= first_window_byte + W

BitsExplained ==
  /\ window = "raw" => bitmap \subseteq recycled
  /\ window = "ready" => Placed /\ bitmap \subseteq recycled \cup Marked

PlaceInv == Opened /\ BitsExplained

LEMMA PlaceInit == Init => PlaceInv
BY DEF Init, PlaceInv, Opened, BitsExplained, Unopened

LEMMA BitsStay ==
  ASSUME BitsExplained, UNCHANGED <<recv_window, isn>>
  PROVE  BitsExplained'
<1>1. First' = First /\ Marked' = Marked
  BY DEF First, Marked, recv_window
<1> QED BY <1>1 DEF BitsExplained, Placed, recv_window

LEMMA TcpReadKeepsPlace ==
  ASSUME Inv, PlaceInv, TcpRead
  PROVE  PlaceInv'
<1> DEFINE n == Taken
           position(k) == (first_window_byte + k - 1) % W
           passed == {position(k) : k \in 1..n}
<1>1. /\ window = "ready"
      /\ bitmap' = bitmap \ passed /\ recycled' = recycled \ passed
      /\ first_window_byte' = first_window_byte + n
      /\ UNCHANGED <<state, window, last_acked_byte, hpc, isn>>
  BY DEF TcpRead, peer
<1>2. n \in Nat /\ (n > 0 => first_window_byte + n <= last_acked_byte)
  BY TakenFits DEF Inv
<1>3. first_window_byte \in Nat /\ last_acked_byte \in Nat /\ W \in Nat
      /\ First \in Nat /\ First' = First /\ Placed
  BY <1>1, Numbers, WindowAssumption DEF Inv, TypeOK, First, PlaceInv, BitsExplained
<1> HIDE DEF n
<1>4. Opened'
  BY <1>1 DEF PlaceInv, Opened, Unopened
<1>5. Placed'
  BY <1>1, <1>2, <1>3, WindowAssumption DEF Placed
<1>6. ASSUME NEW p \in bitmap' PROVE p \in recycled' \cup Marked'
  <2>1. p \in bitmap /\ p \notin passed
    BY <1>1, <1>6
  <2>2. CASE p \in recycled
    BY <1>1, <2>1, <2>2
  <2>3. CASE p \in Marked
    <3>1. PICK c \in first_window_byte..(last_acked_byte - 1) : p = c % W
      BY <2>3 DEF Marked
    <3>2. ASSUME c < first_window_byte + n PROVE FALSE
      <4> DEFINE k == c - first_window_byte + 1
      <4>1. k \in 1..n /\ first_window_byte + k - 1 = c
        BY <1>2, <1>3, <3>1, <3>2
      <4> HIDE DEF k
      <4>2. position(k) = p
        BY <3>1, <4>1
      <4> QED BY <2>1, <4>1, <4>2
    <3>3. c \in first_window_byte'..(last_acked_byte' - 1)
      BY <1>1, <1>2, <1>3, <3>1, <3>2
    <3> QED BY <3>1, <3>3 DEF Marked
  <2> QED BY <1>1, <2>1, <2>2, <2>3 DEF PlaceInv, BitsExplained
<1> QED BY <1>1, <1>4, <1>5, <1>6 DEF PlaceInv, BitsExplained

LEMMA Between ==
  ASSUME NEW c \in Nat, NEW a \in Nat, NEW b \in Nat, a <= c, c < b
  PROVE  c \in a..(b - 1)
OBVIOUS

(* What line 246 acknowledges is no further than the window reaches, and   *)
(* the bits that are set are those of the bytes between.                   *)
LEMMA RecvPshAckKeepsPlace ==
  ASSUME Inv, PlaceInv, NEW s \in wire, RecvPshAck(s)
  PROVE  PlaceInv'
<1> DEFINE first == Seqno(s.from)
           last == (first + s.len + SeqMod - 1) % SeqMod
           possible == (first_window_byte + W - 1) % SeqMod
           curr == Larger(last_acked_byte, first)
           end == Smaller(possible, last)
           acked == IF curr <= end THEN end + 1 ELSE curr
           New == /\ first <= possible /\ last >= last_acked_byte
                  /\ Store(curr, end) /\ Acknowledge(acked)
                  /\ UNCHANGED <<window, first_window_byte, recycled, hpc>>
<1>1. /\ hpc = "idle" /\ s.flags = "psh_ack" /\ state = "CONNECTED"
      /\ hpc' \in {"idle", "looping"} /\ UNCHANGED <<state, isn, window>>
      /\ UNCHANGED recv_window \/ New
  BY DEF RecvPshAck, Handles, peer, recv_window
<1>2. /\ first \in 0..(SeqMod - 1) /\ last \in 0..(SeqMod - 1)
      /\ last >= First => first <= last
  <2>1. /\ first \in 0..(SeqMod - 1) /\ last \in 0..(SeqMod - 1)
        /\ s.from \in Nat /\ s.len \in Nat \ {0}
        /\ last >= First => first = First + s.from /\ last = First + s.from + s.len - 1
    BY <1>1, SegmentPlace DEF Inv
  <2>2. First \in Nat
    BY Numbers DEF Inv
  <2> QED BY <2>1, <2>2
<1>3. /\ SeqMod \in Nat \ {0} /\ W \in Nat \ {0} /\ W < SeqMod
      /\ first_window_byte \in 0..(SeqMod - 1) /\ last_acked_byte \in 0..(SeqMod - 1)
      /\ First \in 0..(SeqMod - 1) /\ First' = First
      /\ window = "ready" /\ Placed
  BY <1>1, WindowAssumption, Numbers
    DEF Inv, TypeOK, First, PlaceInv, Opened, BitsExplained, Unopened
<1>4. possible \in Nat /\ possible <= first_window_byte + W - 1
  <2>1. first_window_byte + W - 1 \in Nat /\ first_window_byte + W - 1 < 2 * SeqMod
    BY <1>3
  <2>2. CASE first_window_byte + W - 1 < SeqMod
    BY <1>3, <2>1, <2>2, ModBelow
  <2>3. CASE first_window_byte + W - 1 >= SeqMod
    <3> DEFINE n == first_window_byte + W - 1
    <3>1. n \in Nat /\ SeqMod \in Nat \ {0} /\ SeqMod <= n /\ n < 2 * SeqMod
      BY <1>3, <2>1, <2>3
    <3> HIDE DEF n
    <3>2. n % SeqMod = n - SeqMod
      BY <3>1, ModWraps
    <3>3. possible = n - SeqMod
      BY <3>2 DEF n
    <3> QED BY <1>3, <3>1, <3>3 DEF n
  <2> QED BY <1>3, <2>1, <2>2, <2>3
<1>5. Opened'
  BY <1>1, <1>3 DEF PlaceInv, Opened, Unopened
<1> HIDE DEF first, last, possible
<1>6. CASE UNCHANGED recv_window
  BY <1>1, <1>5, <1>6, BitsStay DEF PlaceInv
<1>7. CASE New
  <2>1. curr \in Nat /\ end \in Nat /\ last_acked_byte <= curr
        /\ end <= first_window_byte + W - 1
    BY <1>2, <1>3, <1>4 DEF Larger, Smaller
  <2>2. curr > end => curr = last_acked_byte
    BY <1>2, <1>3, <1>4, <1>7 DEF Larger, Smaller, Placed
  <2> HIDE DEF curr, end
  <2>3. last_acked_byte' \in Nat /\ last_acked_byte <= last_acked_byte'
        /\ last_acked_byte' <= first_window_byte + W
        /\ (curr <= end => end < last_acked_byte')
    <3>1. CASE curr <= end
      <4>1. Acknowledge(end + 1)
        BY <1>7, <3>1
      <4> QED BY <1>3, <2>1, <3>1, <4>1 DEF Acknowledge
    <3>2. CASE curr > end
      <4>1. Acknowledge(last_acked_byte)
        BY <1>7, <2>1, <2>2, <3>2
      <4>2. last_acked_byte' = last_acked_byte
        BY <1>3, <4>1 DEF Acknowledge
      <4> QED BY <1>3, <2>1, <3>2, <4>2 DEF Placed
    <3> QED BY <2>1, <3>1, <3>2
  <2>4. Placed'
    BY <1>3, <1>7, <2>3 DEF Placed
  <2>5. ASSUME NEW p \in bitmap' PROVE p \in recycled' \cup Marked'
    <3>1. p \in bitmap \/ \E c \in curr..end : p = c % W
      BY <1>7, <2>5 DEF Store
    <3>2. Marked \subseteq Marked'
      BY <1>3, <1>7, <2>3 DEF Marked
    <3>3. CASE p \in bitmap
      BY <1>3, <1>7, <3>2, <3>3 DEF PlaceInv, BitsExplained
    <3>4. ASSUME NEW c \in curr..end, p = c % W PROVE p \in Marked'
      <4>1. c \in Nat /\ curr <= c /\ c <= end /\ curr <= end
        BY <2>1, <3>4
      <4>2. first_window_byte' = first_window_byte /\ first_window_byte \in Nat
            /\ last_acked_byte \in Nat /\ first_window_byte <= last_acked_byte
        BY <1>3, <1>7 DEF Placed
      <4>3. first_window_byte <= c /\ c < last_acked_byte'
        BY <2>1, <2>3, <4>1, <4>2
      <4>4. c \in Nat /\ first_window_byte' \in Nat /\ last_acked_byte' \in Nat
            /\ first_window_byte' <= c /\ c < last_acked_byte'
        BY <2>3, <4>1, <4>2, <4>3
      <4>5. c \in first_window_byte'..(last_acked_byte' - 1)
        BY <4>4, Between
      <4> QED BY <3>4, <4>5 DEF Marked
    <3> QED BY <3>1, <3>3, <3>4
  <2> QED BY <1>1, <1>3, <1>5, <2>4, <2>5 DEF PlaceInv, BitsExplained
<1> QED BY <1>1, <1>6, <1>7

LEMMA PlaceStep == Inv /\ PlaceInv /\ [Next]_vars => PlaceInv'
<1> SUFFICES ASSUME Inv, PlaceInv, [Next]_vars PROVE PlaceInv'
  OBVIOUS
<1> USE DEF kernel, peer, vars
<1>1. CASE TcpListen \/ TcpConnect \/ SendSyn \/ StrayRead
  <2>1. UNCHANGED <<recv_window, isn, hpc>> /\ (Unopened' \/ UNCHANGED state)
    BY <1>1 DEF TcpListen, TcpConnect, SendSyn, StrayRead, Unopened
  <2> QED BY <2>1, BitsStay DEF PlaceInv, Opened, Unopened, recv_window
<1>2. CASE SetState
  <2>1. UNCHANGED <<recv_window, isn>> /\ hpc # "fields" /\ hpc' = "window"
    BY <1>2 DEF SetState
  <2> QED BY <2>1, BitsStay DEF PlaceInv, Opened, recv_window
<1>3. CASE NewWindow
  BY <1>3 DEF NewWindow, PlaceInv, Opened, BitsExplained
<1>4. CASE InitWindow
  <2>1. /\ hpc = "fields" /\ hpc' = "idle" /\ window' = "ready"
        /\ last_acked_byte' = First /\ first_window_byte' = First
        /\ UNCHANGED <<bitmap, recycled, isn>> /\ First' = First /\ First \in Nat
        /\ W \in Nat
    BY <1>4, Numbers, WindowAssumption DEF Inv, InitWindow, First
  <2> QED BY <2>1 DEF PlaceInv, Opened, BitsExplained, Placed
<1>5. ASSUME NEW s \in wire,
             \/ RecvSyn(s) \/ RecvSynAck(s)
             \/ RecvAck(s) \/ RecvFinAck(s) \/ RecvClosing(s)
      PROVE  PlaceInv'
  <2>1. /\ UNCHANGED <<recv_window, isn>> /\ hpc = "idle"
        /\ hpc' \in {"opened", "stablished"} \/ (hpc' = "idle" /\ ~Unopened)
    BY <1>5 DEF RecvSyn, RecvSynAck, RecvAck, RecvFinAck, RecvClosing, Handles,
      Unopened
  <2> QED BY <2>1, BitsStay DEF PlaceInv, Opened, recv_window
<1>6. CASE PeerStep \/ UNCHANGED vars
  <2>1. UNCHANGED <<recv_window, isn, hpc, state>>
    BY <1>6 DEF PeerStep, PeerOpens, PeerAcks, PeerCloses, PeerSends, PeerLearns, Send
  <2> QED BY <2>1, BitsStay DEF PlaceInv, Opened, Unopened, recv_window
<1> QED BY <1>1, <1>2, <1>3, <1>4, <1>5, <1>6, TcpReadKeepsPlace,
      RecvPshAckKeepsPlace DEF Next, Boot, OpenConnection, Recv

LEMMA PlaceHolds == Spec => [](Inv /\ PlaceInv)
<1> QED BY InitInv, InvStep, PlaceInit, PlaceStep, PTL DEF Spec

(* The places of the bytes a segment brings are free, but for the bits     *)
(* that came with the memory.                                              *)
LEMMA PlaceIsFree ==
  ASSUME Inv, PlaceInv, window = "ready",
         NEW c \in Nat, last_acked_byte <= c, c < first_window_byte + W,
         c % W \notin recycled
  PROVE  c % W \notin bitmap
<1> SUFFICES ASSUME c % W \in Marked PROVE FALSE
  BY DEF PlaceInv, BitsExplained
<1>1. PICK d \in first_window_byte..(last_acked_byte - 1) : c % W = d % W
  BY DEF Marked
<1>2. first_window_byte \in Nat /\ last_acked_byte \in Nat /\ W \in Nat
  BY WindowAssumption DEF Inv, TypeOK
<1>3. d \in Nat /\ d < c /\ c < d + W
  BY <1>1, <1>2
<1> QED BY <1>1, <1>3, PlacesApart

(* Whatever is stored is stored at its place.                              *)
LEMMA StoredWhole ==
  ASSUME Inv, NEW b \in Nat, b < first_window_byte + W,
         first_window_byte <= last_acked_byte, Store(last_acked_byte, b),
         NEW c \in last_acked_byte..b, c % W \notin bitmap
  PROVE  buffer'[c % W] = ByteAt(c)
<1> DEFINE new == {d \in last_acked_byte..b : d % W \notin bitmap}
           d == CHOOSE d \in new : d % W = c % W
<1>1. buffer' = [p \in 0..(W - 1) |->
                   IF \E e \in new : e % W = p
                   THEN ByteAt(CHOOSE e \in new : e % W = p) ELSE buffer[p]]
  BY DEF Store
<1>2. first_window_byte \in Nat /\ last_acked_byte \in Nat /\ W \in Nat \ {0}
  BY WindowAssumption DEF Inv, TypeOK
<1>3. c \in new /\ c \in Nat /\ c % W \in 0..(W - 1)
  BY <1>2, ModBasics
<1>4. d \in new /\ d % W = c % W
  BY <1>3
<1> HIDE DEF new
<1>5. buffer'[c % W] = ByteAt(d)
  BY <1>1, <1>3
<1> HIDE DEF d
<1>6. d \in last_acked_byte..b
  BY <1>4 DEF new
<1>7. d \in Nat /\ d < c + W /\ c < d + W
  BY <1>2, <1>6
<1>8. ~(d < c) /\ ~(c < d)
  BY <1>3, <1>4, <1>7, PlacesApart
<1>9. d = c
  BY <1>3, <1>7, <1>8
<1> QED BY <1>5, <1>9

(* When a segment brings the byte the window waits for, all of it that     *)
(* fits is acknowledged and stored, also when the connection has come      *)
(* about in some spoiled way; but for a place whose bit the memory came    *)
(* with and no tcp_read has cleared since, where nothing is stored.        *)
THEOREM AwaitedByteIsTaken == Spec => FittingByteIsTaken
<1> DEFINE IsTaken ==
             \A s \in wire :
               BringsAwaited(s) /\ RecvPshAck(s) =>
                 \A c \in Fitting(s) :
                   /\ c < last_acked_byte'
                   /\ c % W \in recycled \/ buffer'[c % W] = ByteAt(c)
<1>1. ASSUME Inv, PlaceInv PROVE IsTaken
  <2> SUFFICES ASSUME NEW s \in wire, BringsAwaited(s), RecvPshAck(s),
                      NEW c \in Fitting(s)
               PROVE  /\ c < last_acked_byte'
                      /\ c % W \in recycled \/ buffer'[c % W] = ByteAt(c)
    OBVIOUS
  <2> DEFINE first == Seqno(s.from)
             last == (first + s.len + SeqMod - 1) % SeqMod
             possible == (first_window_byte + W - 1) % SeqMod
             curr == Larger(last_acked_byte, first)
             end == Smaller(possible, last)
  <2>1. /\ TypeOK /\ WireOK /\ s.flags = "psh_ack"
        /\ ByteAt(last_acked_byte) \in s.from..(s.from + s.len - 1)
        /\ first_window_byte + W < SeqMod /\ last_acked_byte + s.len <= SeqMod
        /\ window = "ready" /\ Placed
    BY <1>1 DEF Inv, RecvPshAck, Handles, BringsAwaited, PlaceInv, Opened,
      BitsExplained, Unopened
  <2>2. /\ SeqMod \in Nat \ {0} /\ W \in Nat \ {0} /\ First \in 0..(SeqMod - 1)
        /\ first_window_byte \in Nat /\ last_acked_byte \in 0..(SeqMod - 1)
        /\ First <= first_window_byte /\ first_window_byte <= last_acked_byte
    BY <1>1, <2>1, WindowAssumption, Numbers DEF TypeOK, Placed
  <2>3. s.from \in 0..N /\ s.len \in Nat \ {0} /\ s.from + s.len <= N
    BY <2>1, SegmentPlace, PeerAssumption
  <2>4. ByteAt(last_acked_byte) = last_acked_byte - First
    BY <2>1, <2>2, Numbers
  <2>5. First + s.from <= last_acked_byte /\ last_acked_byte <= First + s.from + s.len - 1
    BY <2>1, <2>2, <2>3, <2>4
  <2>6. first = First + s.from
    BY <2>1, <2>2, <2>3, <2>5, Numbers
  <2>7. last = first + s.len - 1
    BY <2>1, <2>2, <2>3, <2>5, <2>6, SegmentPlace
  <2>8. possible = first_window_byte + W - 1
    <3>1. first_window_byte + W - 1 \in Nat /\ first_window_byte + W - 1 < SeqMod
      BY <2>1, <2>2
    <3> QED BY <2>2, <3>1, ModBelow
  <2>9. Fitting(s) = last_acked_byte..end
    BY <2>7, <2>8 DEF Fitting
  <2> HIDE DEF first, last, possible
  <2>10. /\ curr = last_acked_byte /\ end \in Nat /\ end < SeqMod - 1
         /\ end <= first_window_byte + W - 1 /\ last >= last_acked_byte
    BY <2>1, <2>2, <2>3, <2>5, <2>6, <2>7, <2>8 DEF Larger, Smaller
  <2>11. c \in Nat /\ last_acked_byte <= c /\ c <= end
    BY <2>2, <2>9, <2>10
  <2>12. first <= possible
    BY <2>2, <2>3, <2>5, <2>6, <2>8, <2>10, <2>11
  <2>13. Store(curr, end) /\ Acknowledge(IF curr <= end THEN end + 1 ELSE curr)
    <3>1. /\ first \in Int /\ possible \in Int /\ last \in Int
      BY <2>2, <2>3, <2>6, <2>7, <2>8
    <3>2. ~(first > possible) /\ ~(last < last_acked_byte) /\ ~(end = SeqMod - 1)
      BY <2>2, <2>10, <2>12, <3>1
    <3>3. \/ first > possible
          \/ last < last_acked_byte
          \/ end = SeqMod - 1
          \/ Store(curr, end) /\ Acknowledge(IF curr <= end THEN end + 1 ELSE curr)
      BY DEF RecvPshAck, first, last, possible
    <3> QED BY <3>2, <3>3
  <2> HIDE DEF curr, end
  <2>14. c < last_acked_byte'
    <3>1. last_acked_byte' = end + 1
      BY <2>2, <2>10, <2>11, <2>13 DEF Acknowledge
    <3> QED BY <2>10, <2>11, <3>1
  <2>15. ASSUME c % W \notin recycled PROVE buffer'[c % W] = ByteAt(c)
    <3>1. c < first_window_byte + W /\ end < first_window_byte + W
      BY <2>2, <2>10, <2>11
    <3>2. c % W \notin bitmap
      BY <1>1, <2>1, <2>11, <2>15, <3>1, PlaceIsFree
    <3> QED BY <1>1, <2>2, <2>9, <2>10, <2>13, <3>1, <3>2, StoredWhole
  <2> QED BY <2>14, <2>15
<1>2. Inv /\ PlaceInv => [IsTaken]_vars
  BY <1>1
<1> QED BY PlaceHolds, <1>2, PTL DEF FittingByteIsTaken
=============================================================================
