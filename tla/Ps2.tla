-------------------------------- MODULE Ps2 --------------------------------
(***************************************************************************)
(* The PS/2 controller (model/ps2.v) between its two buses.  On the        *)
(* keyboard's side both lines are open drains, low when either end pulls;  *)
(* on the processor's side there are two registers, data and status, and   *)
(* RDY, which is withheld while a frame is under way in either direction.  *)
(*                                                                         *)
(* Counters and flip-flops are clocked by edges of the keyboard's clock    *)
(* and of the write strobes: an operator here is what one such edge does   *)
(* to all of them.  Gate delays are left out.  What an RC circuit delays,  *)
(* the end of the request to send, is an edge of its own.                  *)
(***************************************************************************)
EXTENDS Integers, Sequences

Bits == {0, 1}
Bytes == 0 .. 255
DataBits == 0 .. 7
BitAt(byte, i) == (byte \div << 1, 2, 4, 8, 16, 32, 64, 128 >>[i + 1]) % 2
ByteOf(bits) ==
  bits[0] + 2 * bits[1] + 4 * bits[2] + 8 * bits[3]
    + 16 * bits[4] + 32 * bits[5] + 64 * bits[6] + 128 * bits[7]
Odd(bits) ==
  (1 + bits[0] + bits[1] + bits[2] + bits[3] + bits[4] + bits[5] + bits[6] + bits[7]) % 2
BitsOf(byte) == [i \in DataBits |-> BitAt(byte, i)]
OddParity(byte) == Odd(BitsOf(byte))

(* A frame in either direction: start, data from the lowest bit, parity,   *)
(* stop.                                                                   *)
FrameBits == 0 .. 10
FrameBit(byte, i) ==
  CASE i = 0 -> 0
    [] i \in 1 .. 8 -> BitAt(byte, i - 1)
    [] i = 9 -> OddParity(byte)
    [] i > 9 -> 1

(* reg is recv_reg_q[10:0]; send_req and send_clk_ena are what sendEna and *)
(* dataOutEna say together.                                                *)
Controller ==
  [reg : [FrameBits -> Bits], recvCnt : FrameBits, hasData : BOOLEAN,
   sendEna : BOOLEAN, dataOutEna : BOOLEAN, sendCnt : FrameBits,
   sendData : Bytes, sendAck : Bits]
Reset ==
  [reg |-> [i \in FrameBits |-> 0], recvCnt |-> 0, hasData |-> FALSE,
   sendEna |-> FALSE, dataOutEna |-> FALSE, sendCnt |-> 0,
   sendData |-> 0, sendAck |-> 1]

RecvByte(c) == ByteOf([i \in DataBits |-> c.reg[i + 1]])
RecvValid(c) == c.reg[9] = OddParity(RecvByte(c))

(* What the controller pulls.  Reception is inhibited while a byte waits.  *)
PullsClk(c) == IF c.sendEna THEN ~c.dataOutEna ELSE c.hasData
PullsData(c) == c.dataOutEna /\ FrameBit(c.sendData, c.sendCnt) = 0

(* RDY of an access. *)
Rdy(c) == c.recvCnt = 0 /\ ~c.sendEna

(* The receiver's register is clocked by the clock line and held while     *)
(* hasData is set.                                                         *)
Shifted(c, bit) ==
  IF c.hasData THEN c.reg
  ELSE [i \in FrameBits |-> IF i = 10 THEN bit ELSE c.reg[i + 1]]

(* The keyboard pulls the clock line down, with this bit on the data line. *)
(* At its eleventh edge a counter clears itself and what it counted for.   *)
SentTwelve(c, bit) ==     \* a mutant
  IF c.sendCnt < 11 THEN [c EXCEPT !.reg = Shifted(c, bit), !.sendCnt = @ + 1]
  ELSE [c EXCEPT !.reg = Shifted(c, bit), !.sendCnt = 0, !.sendEna = FALSE,
                 !.dataOutEna = FALSE, !.sendAck = bit]
SentBit(c, bit) ==
  IF c.sendCnt < 10 THEN [c EXCEPT !.reg = Shifted(c, bit), !.sendCnt = @ + 1]
  ELSE [c EXCEPT !.reg = Shifted(c, bit), !.sendCnt = 0, !.sendEna = FALSE,
                 !.dataOutEna = FALSE, !.sendAck = bit]
ReceivedBit(c, bit) ==
  IF c.recvCnt < 10 THEN [c EXCEPT !.reg = Shifted(c, bit), !.recvCnt = @ + 1]
  ELSE [c EXCEPT !.reg = Shifted(c, bit), !.recvCnt = 0, !.hasData = TRUE]
ClkFalls(c, bit) == IF c.sendEna THEN SentBit(c, bit) ELSE ReceivedBit(c, bit)

(* A write of the status register lets go of the clock, which until then   *)
(* is low: that clocks the receiver's register once.  The reset acts as    *)
(* soon as the strobe is low, which a store that waits for RDY holds low   *)
(* from its first period on; the model takes the store at its end, when    *)
(* RDY has come (see README, section 2).                                   *)
WriteStatus(c, bit) ==
  [c EXCEPT !.hasData = FALSE,
            !.reg = IF c.hasData THEN Shifted([c EXCEPT !.hasData = FALSE], bit) ELSE @]

(* A write of the data register pulls the clock line down, an edge if it   *)
(* was up, and clears the receiver's counter while it sends.               *)
(* CountsItsOwn is a mutant: the counter is not held clear.                *)
CountsItsOwn(c, byte, up, bit) ==
  [c EXCEPT !.sendData = byte, !.sendEna = TRUE, !.recvCnt = IF up THEN 1 ELSE @,
            !.reg = IF up THEN Shifted(c, bit) ELSE @]
WriteData(c, byte, up, bit) ==
  [c EXCEPT !.sendData = byte, !.sendEna = TRUE, !.recvCnt = 0,
            !.reg = IF up THEN Shifted(c, bit) ELSE @]
(* send_req ends: the start bit is put, the clock let go. *)
RequestEnds(c) == [c EXCEPT !.dataOutEna = TRUE]
=============================================================================
