------------------------------- MODULE Usbcan -------------------------------
(***************************************************************************)
(* The text form of CAN messages on the serial line: tiiiLdd..dd with an   *)
(* 11-bit identifier, TiiiiiiiiLdd..dd with a 29-bit one (DoWriteMsg and   *)
(* DoParseUSBCANMsg of Protocol.cpp, helper.cpp, ProtocolCAN.cpp).         *)
(*                                                                         *)
(* A line is the sequence of its ASCII codes, a message the sequence of    *)
(* its Data bytes, four of them for the identifier, and its kind.          *)
(***************************************************************************)
EXTENDS Integers, Sequences, FiniteSetsExt

CR == 13
LF == 10

\* "%01x"
Digit(n) == IF n < 10 THEN 48 + n ELSE 87 + n

\* "%02x" of each byte
HexOf(bytes) ==
  [k \in 1..(2 * Len(bytes)) |->
     Digit(IF k % 2 = 1 THEN bytes[(k + 1) \div 2] \div 16 ELSE bytes[k \div 2] % 16)]

\* CProtocolCAN::WriteMsg and CProtocol::DoWriteMsg: the line of a message of
\* 4 to 12 bytes.
Header(m) ==
  (IF m.x29 THEN <<84>> \o HexOf(SubSeq(m.data, 1, 4))
   ELSE <<116, Digit(m.data[3] % 8)>> \o HexOf(<<m.data[4]>>))
  \o <<Digit(Len(m.data) - 4)>>

Format(m) == Header(m) \o HexOf(SubSeq(m.data, 5, Len(m.data)))

-----------------------------------------------------------------------------
\* convert_ascii_char_to_nibble
Nibble(c) ==
  CASE c \in 48..57 -> c - 48
    [] c \in 65..70 -> c - 55
    [] c \in 97..102 -> c - 87
    [] OTHER -> 16

\* convert_hex_to_int, of the characters at i + 1 to i + n
HexToInt(line, i, n) ==
  LET digits == [k \in 1..n |-> Nibble(line[i + k])]
  IN  IF \E k \in 1..n : digits[k] = 16 THEN -1
      ELSE IF n = 1 THEN digits[1] ELSE 16 * digits[1] + digits[2]

\* An error code stored into an unsigned char: no byte of it equals -1, so
\* what is not hexadecimal is read as 255.
Byte(x) == x % 256

\* The bytes of n pairs of digits from i on.
BytesAt(line, i, n) == [k \in 1..n |-> Byte(HexToInt(line, i + 2 * (k - 1), 2))]

\* DoParseUSBCANMsg.  A line of the second kind that ends in its header is
\* read past its end; whatever is found there, the sizes disagree or HandleMsg
\* refuses the message.
HeaderLen(line) == IF line[1] = 84 THEN 10 ELSE 5

HasHeader(line) ==
  /\ Len(line) >= 5
  /\ line[1] \in {116, 84}
  /\ Len(line) >= HeaderLen(line)

PayloadLen(line) == HexToInt(line, HeaderLen(line) - 1, 1)

\* Four more characters may follow, for a time stamp.
SizesAgreeWithoutStamp(line) ==
  Len(line) = HeaderLen(line) + 2 * PayloadLen(line)

SizesAgree(line) ==
  Len(line) - (HeaderLen(line) + 2 * PayloadLen(line)) \in {0, 4}

Identifier(line) ==
  IF line[1] = 84 THEN BytesAt(line, 1, 4)
  ELSE <<0, 0, Byte(HexToInt(line, 1, 1)), Byte(HexToInt(line, 2, 2))>>

Parse(line) ==
  [x29 |-> line[1] = 84,
   data |-> Identifier(line) \o BytesAt(line, HeaderLen(line), PayloadLen(line))]

\* CProtocolCAN::HandleMsg: the length, written as '0' + payloadLen into the
\* flags, has to be a decimal digit when it is read back from there.
HandleMsg(line) == PayloadLen(line) \in 0..9

Accepted(line) == HasHeader(line) /\ SizesAgree(line) /\ HandleMsg(line)
=============================================================================
