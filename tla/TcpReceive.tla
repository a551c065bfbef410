---------------------------- MODULE TcpReceive -----------------------------
(***************************************************************************)
(* The receiving half of tcp.c, for one port: opening a connection from    *)
(* either side, the sliding window that nht_recv_handler fills and the     *)
(* boot task empties with tcp_read, the acknowledgements, and the end.     *)
(*                                                                         *)
(* The peer is any TCP: it has a stream of bytes to send, repeats what is  *)
(* not acknowledged, and its segments may be lost, repeated and reordered. *)
(***************************************************************************)
EXTENDS Naturals, Sequences, FiniteSets

CONSTANTS
  W,         \* TCP_SLIDING_WINDOW_SIZE
  SeqMod,    \* sequence numbers are uint32_t: 2^32
  Isns,      \* the peer's choices for the sequence number of its SYN
  N,         \* how many bytes the peer's stream has
  MaxLen,    \* how many bytes a segment of the peer has at most
  Ahead,     \* how many unacknowledged bytes the peer sends past
  ReadSize,  \* the boot task's argument of tcp_read
  Leftover,  \* where the window's recycled memory may have set bits
  Openings,  \* what the boot task may begin with: "listen", "connect"
  Junk,      \* a byte that no one sent
  Stray      \* what tcp_read returns without a window

ASSUME WindowAssumption == W \in Nat \ {0} /\ SeqMod \in Nat /\ SeqMod > W
ASSUME PeerAssumption ==
  /\ Isns \subseteq 0..(SeqMod - 1) /\ N \in Nat /\ MaxLen \in Nat /\ Ahead \in Nat
  /\ N < SeqMod
ASSUME ReadAssumption == ReadSize \in Nat \ {0} /\ Openings \subseteq {"listen", "connect"}
ASSUME MemoryAssumption ==
  /\ Leftover \subseteq 0..(W - 1)
  /\ Junk \notin Nat /\ Stray \notin Nat /\ Stray # Junk

VARIABLES
  state,       \* tcp_port_table[port].state
  stablished,  \* .connection_stablished_or_reseted
  window,      \* .recv_window: "null", "raw" memory, or "ready"
  last_acked_byte, first_window_byte, bitmap, buffer, \* its fields
  hpc,         \* where tcp_recv_segment is, when it has opened a connection
  boot,        \* where the boot task is
  delivered,   \* what tcp_read has returned
  answers,     \* what the kernel has sent
  isn,         \* the sequence number of the peer's SYN
  wire,        \* what the peer has sent
  peer_acked,  \* how many bytes the peer knows to be acknowledged
  arrived,     \* history: the bytes that reached a connected port
  recycled,    \* history: the places whose bit the window's memory came with, and
               \* that tcp_read has not passed since
  spoiled      \* history: the boot task came upon a connection, the memory of a
               \* window had bits set, or a segment came before one that it
               \* follows

recv_window == <<window, last_acked_byte, first_window_byte, bitmap, buffer,
                 recycled>>
kernel == <<state, stablished, recv_window, hpc, arrived>>
peer == <<isn, wire, peer_acked>>
vars == <<kernel, boot, delivered, answers, peer, spoiled>>

(* The stream's byte i is the number i.                                    *)
Seqno(i) == (isn + 1 + i) % SeqMod
ByteAt(seqno) == (seqno + SeqMod + SeqMod - isn - 1) % SeqMod

Segments == [flags : {"syn", "syn_ack", "ack", "psh_ack", "fin_ack"},
             from : 0..N, len : 0..MaxLen]
Segment(flags, from, len) == [flags |-> flags, from |-> from, len |-> len]

Answer(flags, number) == [flags |-> flags, number |-> number]

PortStates == {"WAITING_THREEWAY_SYN", "WAITING_THREEWAY_SYN_ACK",
               "WAITING_THREEWAY_ACK", "CONNECTED", "CLOSE_WAIT", "LAST_ACK",
               "CLOSED"}

(* The port table is zeroed memory: state 0 is WAITING_THREEWAY_SYN.       *)
Init == /\ state = "WAITING_THREEWAY_SYN"
        /\ stablished = FALSE
        /\ window = "null"
        /\ last_acked_byte = 0 /\ first_window_byte = 0
        /\ bitmap = {} /\ buffer = [p \in 0..(W - 1) |-> Junk] /\ recycled = {}
        /\ hpc = "idle"
        /\ boot \in Openings
        /\ delivered = <<>>
        /\ isn \in Isns
        /\ answers = {} /\ wire = {} /\ peer_acked = 0
        /\ arrived = {} /\ spoiled = FALSE

-----------------------------------------------------------------------------
(* The boot task.                                                          *)

(* A port that is opened while a peer's SYN is, or has been, accepted.     *)
Reopens == state # "WAITING_THREEWAY_SYN" \/ hpc # "idle"

(* tcp_listen.                                                             *)
TcpListen ==
  /\ boot = "listen" /\ boot' = "read"
  /\ state' = "WAITING_THREEWAY_SYN"
  /\ spoiled' = (spoiled \/ Reopens)
  /\ UNCHANGED <<stablished, recv_window, hpc, arrived, delivered, answers, peer>>

(* tcp_connect, and one round of its loop: a SYN every second.             *)
TcpConnect ==
  /\ boot = "connect" /\ boot' = "syn"
  /\ state' = "WAITING_THREEWAY_SYN_ACK"
  /\ spoiled' = (spoiled \/ Reopens)
  /\ UNCHANGED <<stablished, recv_window, hpc, arrived, delivered, answers, peer>>

SendSyn ==
  /\ boot = "syn"
  /\ \/ ~stablished /\ answers' = answers \cup {Answer("syn", 0)}
                    /\ UNCHANGED boot
     \/ stablished /\ boot' = "read" /\ UNCHANGED answers
  /\ UNCHANGED <<kernel, delivered, peer, spoiled>>

(* How many bytes tcp_read takes, if last_acked_byte were the last one.    *)
TakenShort ==
  LET last_byte == IF first_window_byte + ReadSize < last_acked_byte
                   THEN first_window_byte + ReadSize - 1 ELSE last_acked_byte - 1
  IN IF first_window_byte < last_byte THEN last_byte - first_window_byte ELSE 0

(* How many it takes: its loop stops short of last_byte, so it takes       *)
(* ReadSize - 1 at most.                                                   *)
Taken ==
  LET end == (first_window_byte + ReadSize - 1) % SeqMod
      last_byte == IF end < last_acked_byte THEN end ELSE last_acked_byte
  IN IF first_window_byte < last_byte THEN last_byte - first_window_byte ELSE 0

(* A tcp_read that leaves the bits of what it has read.                    *)
TcpReadKeepsBits ==
  LET n == Taken
      position(k) == (first_window_byte + k - 1) % W
  IN
  /\ boot = "read" /\ window = "ready"
  /\ delivered' = delivered \o [k \in 1..n |-> buffer[position(k)]]
  /\ recycled' = recycled \ {position(k) : k \in 1..n}
  /\ first_window_byte' = first_window_byte + n
  /\ UNCHANGED <<state, stablished, window, last_acked_byte, bitmap, buffer, hpc,
                 boot, arrived, answers, peer, spoiled>>

(* tcp_read, from a window; interrupts are off.                            *)
TcpRead ==
  LET n == Taken
      position(k) == (first_window_byte + k - 1) % W
  IN
  /\ boot = "read" /\ window = "ready"
  /\ delivered' = delivered \o [k \in 1..n |-> buffer[position(k)]]
  /\ bitmap' = bitmap \ {position(k) : k \in 1..n}
  /\ recycled' = recycled \ {position(k) : k \in 1..n}
  /\ first_window_byte' = first_window_byte + n
  /\ UNCHANGED <<state, stablished, window, last_acked_byte, buffer, hpc, boot,
                 arrived, answers, peer, spoiled>>

(* tcp_read without one: whatever is at the null pointer, or in memory not *)
(* filled in yet, it may take for bytes.  One such read is recorded.       *)
StrayRead ==
  /\ boot = "read" /\ window # "ready"
  /\ \A k \in DOMAIN delivered : delivered[k] # Stray
  /\ delivered' = Append(delivered, Stray)
  /\ UNCHANGED <<kernel, boot, answers, peer, spoiled>>

-----------------------------------------------------------------------------
(* nht_recv_handler, in tcp_recv_segment.                                  *)

Handles(s, flags) == hpc = "idle" /\ s \in wire /\ s.flags = flags

(* A SYN is answered, and the connection opened after that.                *)
RecvSyn(s) ==
  /\ Handles(s, "syn") /\ state = "WAITING_THREEWAY_SYN"
  /\ answers' = answers \cup {Answer("syn_ack", (isn + 1) % SeqMod)}
  /\ hpc' = "opened"
  /\ UNCHANGED <<state, stablished, recv_window, boot, delivered, arrived,
                 peer, spoiled>>

RecvSynAck(s) ==
  /\ Handles(s, "syn_ack") /\ state = "WAITING_THREEWAY_SYN_ACK"
  /\ answers' = answers \cup {Answer("ack", (isn + 1) % SeqMod)}
  /\ hpc' = "stablished"
  /\ UNCHANGED <<state, stablished, recv_window, boot, delivered, arrived,
                 peer, spoiled>>

SetState ==
  /\ hpc \in {"opened", "stablished"} /\ hpc' = "window"
  /\ state' = IF hpc = "opened" THEN "WAITING_THREEWAY_ACK" ELSE "CONNECTED"
  /\ stablished' = (stablished \/ hpc = "stablished")
  /\ UNCHANGED <<recv_window, boot, delivered, arrived, answers, peer, spoiled>>

(* tcp_init_window: new memory, and then its first two fields.             *)
NewWindow ==
  /\ hpc = "window" /\ hpc' = "fields"
  /\ window' = "raw"
  /\ buffer' = [p \in 0..(W - 1) |-> Junk]
  /\ bitmap' \in SUBSET Leftover /\ recycled' = bitmap'
  /\ spoiled' = (spoiled \/ bitmap' # {})
  /\ UNCHANGED <<state, stablished, last_acked_byte, first_window_byte, boot,
                 delivered, arrived, answers, peer>>

InitWindow ==
  /\ hpc = "fields" /\ hpc' = "idle"
  /\ window' = "ready"
  /\ last_acked_byte' = (isn + 1) % SeqMod
  /\ first_window_byte' = (isn + 1) % SeqMod
  /\ UNCHANGED <<state, stablished, bitmap, buffer, recycled, boot, delivered,
                 arrived, answers, peer, spoiled>>

(* The third step of the handshake; a connected port takes an ACK for news *)
(* of its own bytes, and does not look at the data it may carry.           *)
RecvAck(s) ==
  /\ Handles(s, "ack") /\ state \in {"WAITING_THREEWAY_ACK", "CONNECTED"}
  /\ state' = "CONNECTED"
  /\ UNCHANGED <<stablished, recv_window, hpc, arrived, boot, delivered,
                 answers, peer, spoiled>>

(* Storing the bytes from curr_byte to last_byte: what has a bit set is    *)
(* there already.                                                          *)
Store(curr_byte, last_byte) ==
  LET new == {c \in curr_byte..last_byte : c % W \notin bitmap}
  IN /\ bitmap' = bitmap \cup {c % W : c \in new}
     /\ buffer' = [p \in 0..(W - 1) |->
                     IF \E c \in new : c % W = p
                     THEN ByteAt(CHOOSE c \in new : c % W = p) ELSE buffer[p]]

(* Acknowledgements that are one byte ahead.                               *)
AcknowledgeOneMore(curr_byte) ==
  /\ last_acked_byte' = curr_byte
  /\ answers' = answers \cup {Answer("ack", curr_byte + 1)}

(* What has been received up to curr_byte is acknowledged.                 *)
Acknowledge(curr_byte) ==
  IF last_acked_byte < curr_byte
  THEN /\ last_acked_byte' = curr_byte
       /\ answers' = answers \cup {Answer("ack", curr_byte)}
  ELSE UNCHANGED <<last_acked_byte, answers>>

(* The second argument, whatever the first one is.                         *)
Second(a, b) == b

Larger(a, b) == IF a < b THEN b ELSE a
Smaller(a, b) == IF a < b THEN a ELSE b

(* tcp_state_connected_handler, for data; interrupts are off.  No          *)
(* curr_byte is greater than the last sequence number there is: a segment  *)
(* that ends there keeps the kernel in the loop for ever.                  *)
RecvPshAck(s) ==
  LET first_received_byte == Seqno(s.from)
      last_received_byte == (first_received_byte + s.len + SeqMod - 1) % SeqMod
      last_possible_byte == (first_window_byte + W - 1) % SeqMod
      curr_byte == Larger(last_acked_byte, first_received_byte)
      last_byte == Smaller(last_possible_byte, last_received_byte)
  IN
  /\ Handles(s, "psh_ack") /\ state = "CONNECTED"
  /\ arrived' = arrived \cup s.from..(s.from + s.len - 1)
  /\ \/ /\ first_received_byte > last_possible_byte
        /\ UNCHANGED <<recv_window, answers, hpc, spoiled>>
     \/ /\ first_received_byte <= last_possible_byte
        /\ last_received_byte < last_acked_byte
        /\ answers' = answers \cup {Answer("ack", last_acked_byte)}
        /\ UNCHANGED <<recv_window, hpc, spoiled>>
     \/ /\ first_received_byte <= last_possible_byte
        /\ last_received_byte >= last_acked_byte
        /\ curr_byte > last_byte \/ last_byte < SeqMod - 1
        /\ Store(curr_byte, last_byte)
        /\ Acknowledge(IF curr_byte <= last_byte THEN last_byte + 1 ELSE curr_byte)
        /\ spoiled' = (spoiled \/ first_received_byte > last_acked_byte)
        /\ UNCHANGED <<window, first_window_byte, recycled, hpc>>
     \/ /\ first_received_byte <= last_possible_byte
        /\ last_received_byte >= last_acked_byte
        /\ curr_byte <= last_byte /\ last_byte = SeqMod - 1
        /\ hpc' = "looping"
        /\ UNCHANGED <<recv_window, answers, spoiled>>
  /\ UNCHANGED <<state, stablished, boot, delivered, peer>>

(* A FIN closes the connection, whatever its sequence number.              *)
RecvFinAck(s) ==
  /\ Handles(s, "fin_ack") /\ state = "CONNECTED"
  /\ answers' = answers \cup {Answer("fin_ack", (Seqno(s.from) + 1) % SeqMod)}
  /\ state' = "CLOSE_WAIT"
  /\ UNCHANGED <<stablished, recv_window, hpc, arrived, boot, delivered, peer,
                 spoiled>>

(* The segments after it, whatever they are.                               *)
RecvClosing(s) ==
  /\ hpc = "idle" /\ s \in wire
  /\ \/ state = "CLOSE_WAIT" /\ state' = "LAST_ACK"
     \/ state = "LAST_ACK" /\ state' = "CLOSED"
  /\ UNCHANGED <<stablished, recv_window, hpc, arrived, boot, delivered,
                 answers, peer, spoiled>>

Recv(s) == \/ RecvSyn(s) \/ RecvSynAck(s) \/ RecvAck(s) \/ RecvPshAck(s)
           \/ RecvFinAck(s) \/ RecvClosing(s)

-----------------------------------------------------------------------------
(* The peer.  What it sends stays on the wire: a segment may arrive any    *)
(* number of times, or never.                                              *)

Send(s) == /\ wire' = wire \cup {s}
           /\ UNCHANGED <<kernel, boot, delivered, answers, isn, peer_acked, spoiled>>

Answered(flags) == \E a \in answers : a.flags = flags

PeerOpens == \/ Send(Segment("syn", 0, 0))
             \/ Answered("syn") /\ Send(Segment("syn_ack", 0, 0))

(* It is connected when its SYN is acknowledged.                           *)
PeerConnected == Answered("syn_ack") \/ Answered("ack")

PeerAcks == PeerConnected /\ Send(Segment("ack", 0, 0))

PeerSends(from, len) ==
  /\ PeerConnected
  /\ from \in peer_acked..(peer_acked + Ahead)
  /\ len \in 1..MaxLen /\ from + len <= N
  /\ Send(Segment("psh_ack", from, len))

(* An acknowledgement of what the peer has sent or could have sent.        *)
PeerLearns(a) ==
  /\ a \in answers /\ a.flags = "ack"
  /\ ByteAt(a.number) \in (peer_acked + 1)..N
  /\ peer_acked' = ByteAt(a.number)
  /\ UNCHANGED <<kernel, boot, delivered, answers, isn, wire, spoiled>>

PeerCloses == /\ PeerConnected /\ peer_acked + Ahead >= N
              /\ Send(Segment("fin_ack", N, 0))

PeerStep == \/ PeerOpens \/ PeerAcks \/ PeerCloses
            \/ \E from \in 0..N, len \in 1..MaxLen : PeerSends(from, len)
            \/ \E a \in answers : PeerLearns(a)

Boot == TcpListen \/ TcpConnect \/ SendSyn \/ TcpRead \/ StrayRead
OpenConnection == SetState \/ NewWindow \/ InitWindow

Next == \/ hpc # "looping" /\ Boot
        \/ OpenConnection
        \/ \E s \in wire : Recv(s)
        \/ PeerStep

Spec == Init /\ [][Next]_vars

(* The two tasks get the processor (Multitask); the peer repeats the byte  *)
(* it waits for until it is acknowledged; and the network delivers every   *)
(* segment and answer that is repeated for ever.                           *)
FairSpec ==
  /\ Spec
  /\ WF_vars(hpc # "looping" /\ (TcpListen \/ TcpConnect \/ SendSyn))
  /\ WF_vars(hpc # "looping" /\ TcpRead)
  /\ WF_vars(OpenConnection)
  /\ \A from \in 0..N :
       /\ WF_vars(PeerSends(from, 1))
       /\ WF_vars(Recv(Segment("psh_ack", from, 1)))
  /\ WF_vars(\E a \in answers : PeerLearns(a))

-----------------------------------------------------------------------------
(* Types.                                                                  *)
TypeOK ==
  /\ state \in PortStates
  /\ stablished \in BOOLEAN
  /\ window \in {"null", "raw", "ready"}
  /\ last_acked_byte \in 0..(SeqMod - 1)
  /\ first_window_byte \in 0..(SeqMod - 1)
  /\ bitmap \subseteq 0..(W - 1) /\ recycled \subseteq 0..(W - 1)
  /\ buffer \in [0..(W - 1) -> 0..(SeqMod - 1) \cup {Junk}]
  /\ hpc \in {"idle", "opened", "stablished", "window", "fields", "looping"}
  /\ boot \in {"listen", "connect", "syn", "read"}
  /\ isn \in Isns /\ wire \subseteq Segments
  /\ peer_acked \in 0..N
  /\ arrived \subseteq 0..N
  /\ spoiled \in BOOLEAN

(* What tcp_read returns is the stream, from its beginning, in order and   *)
(* without a hole, except for what it reads before there is a window: a    *)
(* byte is neither skipped nor read twice, however the segments overlap    *)
(* and wherever tcp_read comes between them.                               *)
Stream(d) == IF d # <<>> /\ Head(d) = Stray THEN Tail(d) ELSE d
ReadIsPrefix ==
  spoiled \/ Stream(delivered) = [i \in 1..Len(Stream(delivered)) |-> i - 1]

(* Every byte that was acknowledged and not yet read is in the window, at  *)
(* its place: neither a segment that comes twice, nor one that overlaps    *)
(* another or the end of the window, nor tcp_read disturbs it.             *)
WindowHoldsStream ==
  /\ TypeOK
  /\ window = "ready" /\ ~spoiled =>
       /\ first_window_byte <= last_acked_byte
       /\ last_acked_byte <= first_window_byte + W
       /\ \A c \in first_window_byte..(last_acked_byte - 1) :
            buffer[c % W] = ByteAt(c)

(* A FIN that overtakes data closes the connection.                        *)
ClosedEarly == /\ state \in {"CLOSE_WAIT", "LAST_ACK", "CLOSED"}
               /\ last_acked_byte # Seqno(N)

(* The window's last sequence number reaches the greatest one there is.    *)
WindowWraps == first_window_byte + W >= SeqMod

(* tcp_read returns every byte of the peer's stream, once the port is      *)
(* connected, if the peer repeats what was lost, no FIN comes too soon and *)
(* the window stays below the greatest sequence number.                    *)
StreamArrives ==
  state = "CONNECTED" ~>
    spoiled \/ ClosedEarly \/ WindowWraps \/ Len(Stream(delivered)) = N

(* No acknowledgement is ahead of what arrived, also when the end of a     *)
(* segment does not fit into the window.                                   *)
Arrived(a) == 0..(ByteAt(a.number) - 1) \subseteq arrived
AcksKeepBehind == spoiled \/ \A a \in answers : a.flags = "ack" => Arrived(a)

(* The segment s brings the byte that the window waits for, perhaps behind *)
(* some that it has, and neither its numbers nor the window's reach the    *)
(* greatest one there is: the comparisons know nothing of the wrap, and    *)
(* take a segment across it for an old one.                                *)
BringsAwaited(s) ==
  /\ ByteAt(last_acked_byte) \in s.from..(s.from + s.len - 1)
  /\ first_window_byte + W < SeqMod /\ last_acked_byte + s.len <= SeqMod

(* Its new bytes that fit into the window.                                 *)
Fitting(s) ==
  last_acked_byte..Smaller(first_window_byte + W - 1, Seqno(s.from) + s.len - 1)

(* When a segment brings the byte the window waits for, every byte of it   *)
(* that fits is acknowledged and stored at its place (tcp.c:237-249): no   *)
(* bit that an earlier byte, a repeated segment or a reader left behind    *)
(* makes line 238 skip the store of a byte that line 249 acknowledges, but *)
(* for a bit that the window's memory came with.                           *)
FittingByteIsTaken ==
  [][\A s \in wire :
       BringsAwaited(s) /\ RecvPshAck(s) =>
         \A c \in Fitting(s) :
           /\ c < last_acked_byte'
           /\ c % W \in recycled \/ buffer'[c % W] = ByteAt(c)]_vars

-----------------------------------------------------------------------------
(* What a comment in tcp.c says, and the code does not keep.               *)

(* "send the higher ack byte possible": what is acknowledged has arrived.  *)
AckedHasArrived ==
  \A a \in answers : a.flags = "ack" => Arrived(a)
=============================================================================
