------------------------------- MODULE Frames -------------------------------
(***************************************************************************)
(* What becomes of a frame on its way: the payload a send command reads       *)
(* (bus/frame.h, vbusd.cpp), the tag a capture packs (net/udp_endpoint.cpp),  *)
(* the delay and the protocol a bus gives it (bus/eth_bus.cpp, can_bus.cpp).  *)
(* A text is a sequence of one-character strings.                            *)
(***************************************************************************)
EXTENDS Naturals, Sequences

Digits == <<"0", "1", "2", "3", "4", "5", "6", "7", "8", "9",
            "a", "b", "c", "d", "e", "f", "A", "B", "C", "D", "E", "F">>

\* h2n: what is no hexadecimal digit counts as 0.
DigitValue(c) ==
    IF ~(\E k \in DOMAIN Digits : Digits[k] = c) THEN 0
    ELSE LET k == CHOOSE k \in DOMAIN Digits : Digits[k] = c
         IN  IF k <= 16 THEN k - 1 ELSE k - 7

\* hex_to_bytes: an odd number of digits gives no bytes.
HexToBytes(hex) ==
    IF Len(hex) % 2 = 1 THEN <<>>
    ELSE [k \in 1..(Len(hex) \div 2) |->
             16 * DigitValue(hex[2 * k - 1]) + DigitValue(hex[2 * k])]

\* The longest payload send-eth, send-can and send-canfd take (0: any).
MaxPayload == [eth |-> 0, can |-> 8, canfd |-> 64]
TakesPayload(kind, hex) == MaxPayload[kind] = 0 \/ Len(HexToBytes(hex)) <= MaxPayload[kind]

\* The bits of a frame of size bytes: with Ethernet's header and check sequence, or a
\* CAN frame's fields without stuffing.
FrameBits(kind, size) ==
    CASE kind = "eth" -> 8 * (size + 18)
      [] kind = "can" -> 43 + 8 * size
      [] kind = "canfd" -> 67 + 8 * size

\* The delay on a bus of so many bits per second (0: none), where second is the length
\* of a second and the product has w bits.
Delay(kind, size, rate, second, w) ==
    IF rate = 0 THEN 0 ELSE ((FrameBits(kind, size) * second) % 2^w) \div rate

\* The protocol a frame has once it is on a bus, whatever it was captured or read as.
Carried(bus, proto) ==
    IF bus = "eth" THEN "ETH2" ELSE IF proto = "CANFD" THEN "CANFD" ELSE "CAN20"

\* A datagram's tag: address and port of its sender and the port it came to, where a
\* port has w bits.
UdpTag(ip, srcPort, dstPort, w) == ip * 2^(2 * w) + srcPort * 2^w + dstPort
=============================================================================
