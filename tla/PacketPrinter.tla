--------------------------- MODULE PacketPrinter ---------------------------
(***************************************************************************)
(* The sniffer of lesson2/pcap_sniffer: a few packets are captured, kept   *)
(* in a file and printed, with the data of what is taken for TCP in lines  *)
(* of hexadecimal and of plain characters.                                 *)
(*                                                                         *)
(* A packet of IP, of whatever protocol, is what the printer looks at.  In *)
(* sniff_ip four constants are data members between ip_off and ip_ttl, so  *)
(* that ip_p is the second byte of the destination address.  Data are      *)
(* numbered from 0, have been captured whole, and some of them print.      *)
(***************************************************************************)
EXTENDS Integers, Sequences

CONSTANTS
    LineWidth,             \* bytes in a line, which is 16
    MAX_PACKET_TO_CAPTURE,
    Packets                \* [ip_hl, ip_dst, th_off, ip_len, prints]: lengths in
                           \* words, four bytes, the length of all, and the
                           \* data that print; th_off is what stands in the
                           \* place of TCP's

Dot == -1

VARIABLES
    step,  \* what main is doing, see Steps
    dump,  \* the packets in the file
    lines  \* what has been printed of the data of each

vars == <<step, dump, lines>>

Steps == {"start", "capture", "ended"}

Init ==
    /\ step  = "start"
    /\ dump  = <<>>
    /\ lines = <<>>

-----------------------------------------------------------------------------
(* Printing *)

\* Mutant of Column: the pointer is moved before it is used
ColumnShifted(prints, ch, i) ==
    IF (ch + 1)..(ch + i + 1) \subseteq prints THEN ch + i + 1 ELSE Dot

\* The character in column i of a line that begins at ch.  The pointer stays on
\* the first byte that does not print.
Column(prints, ch, i) == IF ch..(ch + i) \subseteq prints THEN ch + i ELSE Dot

print_hex_ascii_line(prints, ch, len, offset) ==
    [offset |-> offset,
     bytes  |-> [i \in 1..len |-> ch + i - 1],
     ascii  |-> [i \in 1..len |-> Column(prints, ch, i - 1)]]

\* From[len_rem][n] is what is printed from line n on
print_payload(prints, len) ==
    LET ch(len_rem) == len - len_rem
        Line(len_rem, line_len, n) ==
            <<print_hex_ascii_line(prints, ch(len_rem), line_len, n * LineWidth)>>
        From[len_rem \in 1..len] == [n \in Nat |->
            IF len_rem <= LineWidth
            THEN Line(len_rem, len_rem, n)
            ELSE LET line_len == LineWidth % len_rem
                 IN  Line(len_rem, line_len, n) \o From[len_rem - line_len][n + 1]]
    IN  IF len <= 0 THEN <<>> ELSE From[len][0]

size_payload(packet) == packet.ip_len - (packet.ip_hl * 4 + packet.th_off * 4)

IPPROTO_TCP == 6

\* What ip_p reads, for ip_rf to ip_offmask take the eight bytes before it
ip_p(packet) == packet.ip_dst[2]

\* The data are printed if that is TCP and the headers can be right
got_packet(packet) ==
    IF packet.ip_hl * 4 >= 20 /\ ip_p(packet) = IPPROTO_TCP /\ packet.th_off * 4 >= 20
    THEN print_payload(packet.prints, size_payload(packet))
    ELSE <<>>

-----------------------------------------------------------------------------
(* Capturing *)

\* With a device named, or too many arguments, nothing is captured, nor when a
\* device is not found, cannot be opened or is no Ethernet
Start ==
    /\ step = "start"
    /\ step' \in {"capture", "ended"}
    /\ UNCHANGED <<dump, lines>>

pcap_callback(packet) ==
    /\ step = "capture"
    /\ Len(dump) < MAX_PACKET_TO_CAPTURE
    /\ dump'  = Append(dump, packet)
    /\ lines' = Append(lines, got_packet(packet))
    /\ UNCHANGED step

\* There are enough, or the device fails
Stop ==
    /\ step = "capture"
    /\ step' = "ended"
    /\ UNCHANGED <<dump, lines>>

Next == Start \/ Stop \/ \E packet \in Packets : pcap_callback(packet)

Spec == Init /\ [][Next]_vars

-----------------------------------------------------------------------------
(* Properties *)

TypeOK ==
    /\ step \in Steps
    /\ dump \in Seq(Packets)
    /\ Len(lines) = Len(dump)

\* By the destination address, as sniff_ip is laid out
TakenForTcp(packet) == packet.ip_hl >= 5 /\ packet.ip_dst[2] = 6 /\ packet.th_off >= 5

\* The last line that there are bytes for
LinesFor(len) == IF len <= 0 THEN 0 ELSE (len - 1) \div LineWidth + 1

\* What is printed of a packet in the file is all its data if it is taken for
\* TCP, which its destination decides and not its protocol, and else nothing.
\* The data stand in full lines but for the last, with each byte in its place
\* and the characters under their own bytes, as far as they are shown
\* (sniff_ip; print_payload, print_hex_ascii_line: the remainder, the two
\* pointers).
PrintedWhole == \A k \in 1..Len(dump) :
    LET len == IF TakenForTcp(dump[k]) THEN size_payload(dump[k]) ELSE 0
    IN  /\ Len(lines[k]) = LinesFor(len)
        /\ \A n \in 1..Len(lines[k]) :
              LET line  == lines[k][n]
                  first == (n - 1) * LineWidth
              IN  /\ line.offset = first
                  /\ Len(line.bytes) = IF n < Len(lines[k]) THEN LineWidth ELSE len - first
                  /\ \A i \in 1..Len(line.bytes) :
                        /\ line.bytes[i] = first + i - 1
                        /\ line.ascii[i] \in {Dot, line.bytes[i]} \cap ({Dot} \cup dump[k].prints)
=============================================================================
