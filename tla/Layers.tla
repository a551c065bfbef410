------------------------------ MODULE Layers ------------------------------
(* The layers between the handler tasks and the transports: ethernet.c,    *)
(* arp.c, ip.c, icmp.c, the sending half of udp.c and tcp.c, and           *)
(* internet_checksum.  A frame is handled to the end in one step: all of   *)
(* it happens in nht_recv_handler, and no other task touches arp_table or  *)
(* the copies a layer makes.  What is handed to udp_recv_segment and       *)
(* tcp_recv_segment is Udp's and TcpReceive's; what nht_enqueue_send_frame *)
(* is given is SendQueue's.                                                *)
(* A byte is a number below Base, a word two of them, an address one word; *)
(* header fields that are always zero are left out of a header's words.    *)
EXTENDS Integers, Sequences, FiniteSets, SequencesExt, FiniteSetsExt

CONSTANTS Base,       \* the values of a byte (256)
          TableSize,  \* ARP_TABLE_SIZE, and the values of arp_table_size
          Macs, Ips,  \* the other hosts' addresses
          OwnMac, Own,\* rtl8139_device's
          Payloads,   \* data, a sequence of bytes
          Rests,      \* what else a header may hold: a word
          None

Word == 0..(Base * Base - 1)

ASSUME LayersAssumption ==
  /\ Base \in Nat \ {0, 1} /\ TableSize \in Nat \ {0}
  /\ OwnMac \notin Macs /\ Own \in Word /\ Ips \subseteq Word \ {Own}
  /\ None \notin Word
  /\ Payloads \subseteq Seq(0..(Base - 1)) /\ Rests \subseteq Word

VARIABLES
  arp_table, arp_table_size,
  out,    \* what the last operation gave nht_enqueue_send_frame
  up,     \* and what it handed to a transport
  asked,  \* history: the last operation, a frame received or data sent
  heard   \* history: what each host said since the table was last full

layers == <<arp_table, arp_table_size, out, up, asked, heard>>

-----------------------------------------------------------------------------
(* internet_checksum: 16-bit words, the last one padded, summed; the       *)
(* carries come back until there are none.                                 *)
Words(bytes) ==
  [i \in 1..((Len(bytes) + 1) \div 2) |->
     bytes[2 * i - 1] * Base + (IF 2 * i <= Len(bytes) THEN bytes[2 * i] ELSE 0)]

FoldedOnce(sum) == (sum % (Base * Base)) + (sum \div (Base * Base))
Folded(sum) ==
  LET f[n \in Nat] == IF n \in Word THEN n ELSE f[FoldedOnce(n)]
  IN  f[sum]

Total(words) == FoldLeft(LAMBDA n, w : n + w, 0, words)
internet_checksum(words) ==
  ((Base * Base - 1) - Folded(Total(words))) % (Base * Base)

-----------------------------------------------------------------------------
(* Sending.  A frame is what send_ethernet_frame queues.                   *)
(* The numbers of UDP (17) and of an echo request (8) are cut to a byte.   *)
ICMP == 1
TCP == 6
UDP == 7
EchoReply == 0
EchoRequest == Base - 1

Ethernet(mac, type, data) ==
  [dest |-> mac, source |-> OwnMac, type |-> type, data |-> data]

(* build_ipv4_packet: version and header length, total length, time to     *)
(* live and protocol, and the two addresses.                               *)
Ipv4Header(protocol, ip, size) ==
  <<5 * Base, 20 + size, 4 * Base + protocol, Own, ip>>
Ipv4(mac, ip, protocol, segment) ==
  LET header == Ipv4Header(protocol, ip, segment.size)
  IN  Ethernet(mac, "IPv4",
        [header |-> header, checksum |-> internet_checksum(header),
         segment |-> segment])

(* build_icmp4, and send_icmp4_packet.                                     *)
Icmp4(mac, ip, type, rest, data) ==
  LET header == <<type * Base, rest>>
  IN  Ipv4(mac, ip, ICMP,
        [header |-> header, data |-> data, size |-> 8 + Len(data),
         checksum |-> internet_checksum(header \o Words(data))])

(* pseudo_header_build, and the segments of udp_send_segment and of        *)
(* tcp_build_segment over it; the ports and the sequence number are a word *)
(* of the header.                                                          *)
Pseudo(ip, protocol, size) == <<Own, ip, protocol, size>>
Segment(ip, protocol, header, size, data) ==
  [header |-> header, data |-> data, size |-> size,
   checksum |-> internet_checksum(header \o Pseudo(ip, protocol, size)
                                    \o Words(data))]
UdpSegment(ip, word, data) ==
  Segment(ip, UDP, <<word, 8 + Len(data)>>, 8 + Len(data), data)
TcpSegment(ip, word, data) == Segment(ip, TCP, <<word>>, 20 + Len(data), data)

(* send_arp_reply: to whom has asked, from the address it has asked for.   *)
ArpReply(f) ==
  Ethernet(f.sha, "ARP", [oper |-> 2, ptype |-> "IPv4", sha |-> OwnMac,
                          spa |-> f.tpa, tha |-> f.sha, tpa |-> f.spa])

-----------------------------------------------------------------------------
LayersInit ==
  /\ arp_table = [i \in 0..(TableSize - 1) |-> [mac |-> None, ip |-> 0]]
  /\ arp_table_size = 0
  /\ out = <<>> /\ up = None /\ asked = None
  /\ heard = [m \in Macs |-> None]

arp == <<arp_table, arp_table_size, heard>>

(* update_arp_table: a known sender gets its new address, a new one the    *)
(* next entry; arp_table_size wraps with its eight bits.                   *)
EntriesEver(m) == {i \in DOMAIN arp_table : arp_table[i].mac = m}
Entries(m) == {i \in 0..(arp_table_size - 1) : arp_table[i].mac = m}
UpdateArpTable(f) ==
  IF Entries(f.sha) # {}
  THEN /\ arp_table' = [arp_table EXCEPT ![Min(Entries(f.sha))].ip = f.spa]
       /\ heard' = [heard EXCEPT ![f.sha] = f.spa]
       /\ UNCHANGED arp_table_size
  ELSE /\ arp_table' =
            [arp_table EXCEPT ![arp_table_size] = [mac |-> f.sha, ip |-> f.spa]]
       /\ arp_table_size' = (arp_table_size + 1) % TableSize
       /\ heard' = IF arp_table_size + 1 = TableSize
                   THEN [m \in Macs |-> None]
                   ELSE [heard EXCEPT ![f.sha] = f.spa]

(* recv_arp_request: the requests that are answered.                       *)
ForUs(f) == f.oper = 1 /\ f.ptype = "IPv4" /\ f.tpa = Own

(* recv_arp_handler: a request for this host's address, and any reply.     *)
RecvArp(f) ==
  /\ up' = None
  /\ \/ /\ ForUs(f)
        /\ UpdateArpTable(f)
        /\ out' = <<ArpReply(f)>>
     \/ /\ f.oper = 2
        /\ UpdateArpTable(f)
        /\ out' = <<>>
     \/ /\ f.oper # 2 /\ ~ForUs(f)
        /\ out' = <<>>
        /\ UNCHANGED arp

(* recv_icmp4_packet: only an echo request is answered.                    *)
RecvIcmp4(f, data) ==
  /\ up' = None
  /\ out' = IF f.type # EchoRequest THEN <<>>
            ELSE <<Icmp4(f.source, f.ip, EchoReply, f.rest, data)>>

(* recv_ipv4_packet: total_length tells the data from the padding behind   *)
(* it; the destination address is not looked at.                           *)
Unpadded(f) == SubSeq(f.data, 1, f.total_length - 20 - 8)
RecvIpv4(f) ==
  /\ UNCHANGED arp
  /\ \/ f.protocol = ICMP /\ RecvIcmp4(f, Unpadded(f))
     \/ /\ f.protocol \in {UDP, TCP}
        /\ up' = [protocol |-> f.protocol, ip |-> f.ip, mac |-> f.source,
                  data |-> Unpadded(f)]
        /\ out' = <<>>
     \/ /\ f.protocol \notin {ICMP, UDP, TCP}
        /\ up' = None /\ out' = <<>>

(* recv_ethernet_frame: by the type of the frame.  What is none of these   *)
(* only has "undefined protocol" printed.                                  *)
RecvEthernetFrame(f) ==
  /\ asked' = f
  /\ \/ f.ether_type = "IPv4" /\ RecvIpv4(f)
     \/ f.ether_type = "ARP" /\ RecvArp(f)
     \/ /\ f.ether_type \notin {"IPv4", "ARP"}
        /\ out' = <<>> /\ up' = None
        /\ UNCHANGED arp

(* udp_send_segment, and a segment of TCP on its way through               *)
(* l3_upper_interface, from any task.                                      *)
Send(mac, ip, protocol, word, data) ==
  /\ asked' = [ether_type |-> "send", mac |-> mac, ip |-> ip,
               protocol |-> protocol, rest |-> word, data |-> data]
  /\ out' = <<Ipv4(mac, ip, protocol,
                   IF protocol = UDP THEN UdpSegment(ip, word, data)
                   ELSE TcpSegment(ip, word, data))>>
  /\ up' = None
  /\ UNCHANGED arp

-----------------------------------------------------------------------------
(* What other hosts send: well-formed packets without IP options, padded   *)
(* to the length of the shortest frame.                                    *)
ArpFrames ==
  [ether_type : {"ARP"}, oper : 1..3, ptype : {"IPv4", "other"},
   sha : Macs, spa : Ips, tpa : {Own} \cup Ips]
Padded(data) == IF Len(data) < 3 THEN data \o <<0>> ELSE data
IcmpFrames ==
  {[ether_type |-> "IPv4", source |-> m, ip |-> a, protocol |-> ICMP, type |-> t,
    rest |-> r, total_length |-> 20 + 8 + Len(d), data |-> Padded(d)] :
     m \in Macs, a \in Ips, t \in {EchoRequest, EchoReply}, r \in Rests,
     d \in Payloads}
OtherFrames ==
  {[ether_type |-> "IPv4", source |-> m, ip |-> a, protocol |-> p,
    total_length |-> 20 + 8, data |-> Padded(<<>>)] :
     m \in Macs, a \in Ips, p \in {UDP, TCP, 2}}
  \cup {[ether_type |-> "other"]}

LayersNext ==
  \/ \E f \in ArpFrames \cup IcmpFrames \cup OtherFrames : RecvEthernetFrame(f)
  \/ \E m \in Macs, a \in Ips, p \in {UDP, TCP}, w \in Rests, d \in Payloads :
       Send(m, a, p, w, d)

LayersSpec == LayersInit /\ [][LayersNext]_layers

-----------------------------------------------------------------------------
(* The table below arp_table_size says of every host what it said last,    *)
(* once, and of no other: nobody who has spoken since the table was last   *)
(* full is forgotten or listed twice, whatever older entries lie behind.   *)
TableIsLatest ==
  /\ arp_table_size = Cardinality({m \in Macs : heard[m] # None})
  /\ \A m \in Macs : heard[m] # None =>
       \E i \in 0..(arp_table_size - 1) :
         arp_table[i] = [mac |-> m, ip |-> heard[m]]

(* A receiver's check: with their checksum, the words and the bytes, the   *)
(* first, third, ... of which are the high ones, add up to 0 in ones'      *)
(* complement.                                                             *)
Verifies(checksum, words, bytes) ==
  (checksum + Total(words)
     + Total([i \in DOMAIN bytes |-> IF i % 2 = 1 THEN bytes[i] * Base ELSE bytes[i]])
  ) % (Base * Base - 1) = 0

(* Whatever is sent over IPv4 passes the receiver's two checks, whatever   *)
(* the length of the data and however often the sum carries.               *)
PacketsVerify ==
  \A i \in DOMAIN out : out[i].type = "IPv4" =>
    LET packet == out[i].data
        segment == packet.segment
        protocol == packet.header[3] - 4 * Base
        pseudo == IF protocol = ICMP THEN <<>>
                  ELSE <<packet.header[4], packet.header[5], protocol,
                         packet.header[2] - 20>>
    IN  /\ Verifies(packet.checksum, packet.header, <<>>)
        /\ Verifies(segment.checksum, segment.header \o pseudo, segment.data)

(* Who asks is answered, once, with what it has asked for: the owner of an *)
(* address by its MAC, an echo by its own data without the frame's padding.*)
AskerIsAnswered ==
  asked # None /\ asked.ether_type # "send" =>
    IF asked.ether_type = "IPv4" /\ asked.protocol = ICMP
       /\ asked.type = EchoRequest
    THEN /\ Len(out) = 1 /\ out[1].dest = asked.source
         /\ out[1].data.header[5] = asked.ip
         /\ out[1].data.segment.header = <<EchoReply * Base, asked.rest>>
         /\ Len(out[1].data.segment.data) = asked.total_length - 28
         /\ IsPrefix(out[1].data.segment.data, asked.data)
    ELSE IF asked.ether_type = "ARP" /\ asked.oper = 1
            /\ asked.ptype = "IPv4" /\ asked.tpa = Own
    THEN /\ Len(out) = 1 /\ out[1].dest = asked.sha
         /\ out[1].data.spa = Own /\ out[1].data.sha = OwnMac
         /\ out[1].data.tha = asked.sha /\ out[1].data.tpa = asked.spa
    ELSE out = <<>>

(* Both: every host that asks gets one answer, and accepts it.             *)
AnswersVerify == PacketsVerify /\ AskerIsAnswered
=============================================================================
