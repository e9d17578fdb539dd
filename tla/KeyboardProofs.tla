--------------------------- MODULE KeyboardProofs ---------------------------
(***************************************************************************)
(* Keyboard, driver and controller, for every set of keys and commands and *)
(* every bound: types, the counters of the controller in step with the     *)
(* keyboard, and what the success of send_byte means.                      *)
(*                                                                         *)
(* InStep is not inductive: it does not say why a count begins at 0, nor   *)
(* that the frame which an access of the driver cuts off was not counted.  *)
(* FrameInv says where both counters are, idle and in either direction.    *)
(* The types need FrameInv: a frame that is under way has a byte to send.  *)
(* Taken needs three more: TurnInv, that a command is a conversation in    *)
(* which one side speaks at a time; HeardInv, which bits the keyboard has  *)
(* heard; and TakenInv, where the byte is, or the news that it was lost,   *)
(* while the keyboard has not taken it.                                    *)
(* That the driver implements KeyEvents, with at most one bit of noise,    *)
(* needs TurnInv and StreamInv: the bytes that are unread, read in turn,   *)
(* lead from what the program has been told to what the user has done.     *)
(***************************************************************************)
EXTENDS Keyboard, SequenceTheorems, TLAPS

Shape ==
  /\ DOMAIN ctl = {"reg", "recvCnt", "hasData", "sendEna", "dataOutEna",
                   "sendCnt", "sendData", "sendAck"}
  /\ ctl.recvCnt \in FrameBits /\ ctl.sendCnt \in FrameBits
  /\ ctl.hasData \in BOOLEAN /\ ctl.sendEna \in BOOLEAN /\ ctl.dataOutEna \in BOOLEAN
  /\ DOMAIN line = {"at", "i", "low", "data"}
  /\ line.at \in {"idle", "sending", "receiving"}
  /\ line.i \in FrameBits /\ line.low \in BOOLEAN

AtLast == line.i = 10 /\ line.low
IdleInv ==
  line.at = "idle" =>
    ~line.low /\ ctl.recvCnt = 0 /\ (ctl.dataOutEna => ctl.sendCnt = 0)
SendingInv ==
  line.at = "sending" =>
    /\ ~ctl.dataOutEna
    /\ ctl.sendEna => ctl.recvCnt = 0
    /\ ~ctl.sendEna /\ ctl.hasData => AtLast /\ ctl.recvCnt = 0
    /\ ~ctl.sendEna /\ ~ctl.hasData => ctl.recvCnt = Edges % 11
ReceivingInv ==
  line.at = "receiving" =>
    /\ ctl.recvCnt = 0
    /\ \/ ctl.dataOutEna /\ ctl.sendCnt = Edges
       \/ AtLast /\ ~ctl.dataOutEna
SenderInv ==
  /\ ctl.dataOutEna => ctl.sendEna
  /\ ~ctl.dataOutEna => ctl.sendCnt = 0
FrameInv == Shape /\ IdleInv /\ SendingInv /\ ReceivingInv /\ SenderInv

(* Every operator of the controller keeps the fields that it does not name. *)
LEMMA SentBitFields ==
  ASSUME Shape, NEW bit, ctl' = SentBit(ctl, bit)
  PROVE  /\ DOMAIN ctl' = DOMAIN ctl
         /\ ctl'.recvCnt = ctl.recvCnt /\ ctl'.hasData = ctl.hasData
         /\ ctl.sendCnt < 10 => /\ ctl'.sendCnt = ctl.sendCnt + 1
                                /\ ctl'.sendEna = ctl.sendEna
                                /\ ctl'.dataOutEna = ctl.dataOutEna
         /\ ~(ctl.sendCnt < 10) => ctl'.sendCnt = 0 /\ ~ctl'.sendEna /\ ~ctl'.dataOutEna
         /\ ctl'.sendEna \in BOOLEAN /\ ctl'.dataOutEna \in BOOLEAN
  BY DEF Shape, SentBit, FrameBits

LEMMA ReceivedBitFields ==
  ASSUME Shape, NEW bit, ctl' = ReceivedBit(ctl, bit)
  PROVE  /\ DOMAIN ctl' = DOMAIN ctl
         /\ ctl'.sendCnt = ctl.sendCnt /\ ctl'.sendEna = ctl.sendEna
         /\ ctl'.dataOutEna = ctl.dataOutEna
         /\ ctl.recvCnt < 10 => ctl'.recvCnt = ctl.recvCnt + 1 /\ ctl'.hasData = ctl.hasData
         /\ ~(ctl.recvCnt < 10) => ctl'.recvCnt = 0 /\ ctl'.hasData = TRUE
  BY DEF Shape, ReceivedBit, FrameBits

LEMMA WriteStatusFields ==
  ASSUME Shape, NEW bit, ctl' = WriteStatus(ctl, bit)
  PROVE  /\ DOMAIN ctl' = DOMAIN ctl
         /\ ctl'.recvCnt = ctl.recvCnt /\ ctl'.sendCnt = ctl.sendCnt
         /\ ctl'.sendEna = ctl.sendEna /\ ctl'.dataOutEna = ctl.dataOutEna
         /\ ctl'.hasData = FALSE
  BY DEF Shape, WriteStatus

LEMMA WriteDataFields ==
  ASSUME Shape, NEW byte, NEW up, NEW bit, ctl' = WriteData(ctl, byte, up, bit)
  PROVE  /\ DOMAIN ctl' = DOMAIN ctl
         /\ ctl'.recvCnt = 0 /\ ctl'.sendCnt = ctl.sendCnt
         /\ ctl'.sendEna = TRUE /\ ctl'.dataOutEna = ctl.dataOutEna
         /\ ctl'.hasData = ctl.hasData
  BY DEF Shape, WriteData

---------------------------------------------------------------------------
(* The keyboard's steps. *)

LEMMA SendBeginsKeeps == ASSUME FrameInv, SendBegins PROVE FrameInv'
  <1>1. ~ctl.sendEna /\ ~ctl.hasData /\ ~ctl.dataOutEna /\ ctl.recvCnt = 0
    <2>1. line.at = "idle"
      BY DEF SendBegins, Idle, Line
    <2>2. ~PullsClk(ctl) /\ ~PullsData(ctl)
      BY DEF SendBegins, ClkLow
    <2>3. ASSUME ctl.dataOutEna PROVE FALSE
      BY <2>1, <2>2, <2>3 DEF FrameInv, IdleInv, PullsData, FrameBit
    <2> QED
      BY <2>1, <2>2, <2>3 DEF FrameInv, IdleInv, PullsClk, Shape
  <1>2. ctl' = ctl /\ line' = [at |-> "sending", i |-> 0, low |-> FALSE, data |-> 0]
    BY DEF SendBegins, Line
  <1> QED
    BY <1>1, <1>2 DEF FrameInv, Shape, IdleInv, SendingInv, ReceivingInv, SenderInv, Edges, FrameBits

LEMMA SendFallsKeeps == ASSUME FrameInv, SendFalls PROVE FrameInv'
  <1>1. line.at = "sending" /\ ~line.low /\ ~ctl.dataOutEna /\ ~(~ctl.sendEna /\ ctl.hasData)
    BY DEF SendFalls, FrameInv, SendingInv, AtLast
  <1>2. /\ DOMAIN line' = DOMAIN line /\ line'.at = line.at /\ line'.i = line.i
        /\ line'.low = TRUE
    BY DEF SendFalls, FrameInv, Shape
  <1>3. CASE ctl.sendEna
    <2>1. ctl' = ctl
      BY <1>1, <1>3 DEF SendFalls, PullsClk
    <2> QED
      BY <1>1, <1>2, <1>3, <2>1
      DEF FrameInv, Shape, IdleInv, SendingInv, ReceivingInv, SenderInv, FrameBits
  <1>4. CASE ~ctl.sendEna
    <2>1. ~PullsClk(ctl)
      BY <1>1, <1>4 DEF PullsClk
    <2>2. PICK flip \in Noisy :
            ctl' = ClkFalls(ctl, IF flip THEN 1 - line.data ELSE line.data)
      BY <2>1 DEF SendFalls
    <2>3. ctl' = ReceivedBit(ctl, IF flip THEN 1 - line.data ELSE line.data)
      BY <2>2, <1>4 DEF ClkFalls
    <2>4. ctl.recvCnt = line.i
      BY <1>1, <1>4 DEF FrameInv, SendingInv, Edges, Shape, FrameBits
    <2>5. /\ DOMAIN ctl' = DOMAIN ctl
          /\ ctl'.sendCnt = ctl.sendCnt /\ ctl'.sendEna = ctl.sendEna
          /\ ctl'.dataOutEna = ctl.dataOutEna
          /\ ctl.recvCnt < 10 => ctl'.recvCnt = ctl.recvCnt + 1 /\ ctl'.hasData = ctl.hasData
          /\ ~(ctl.recvCnt < 10) => ctl'.recvCnt = 0 /\ ctl'.hasData = TRUE
      BY <2>3, ReceivedBitFields DEF FrameInv
    <2>6. line.i \in 0 .. 10 /\ Edges' = line.i + 1
      BY <1>2 DEF FrameInv, Shape, Edges, FrameBits
    <2>7. Shape'
      <3>1. ctl'.recvCnt \in FrameBits
        BY <2>4, <2>5, <2>6 DEF FrameBits
      <3>2. ctl'.hasData \in BOOLEAN /\ line'.low \in BOOLEAN
        BY <1>2, <2>5 DEF FrameInv, Shape
      <3> QED
        BY <1>2, <2>5, <3>1, <3>2 DEF FrameInv, Shape
    <2>8. CASE line.i < 10
      <3>1. ctl'.recvCnt = Edges' % 11 /\ ~ctl'.hasData
        BY <1>1, <1>4, <2>4, <2>5, <2>6, <2>8
      <3> QED
        BY <1>1, <1>2, <1>4, <2>5, <2>7, <3>1
        DEF FrameInv, IdleInv, SendingInv, ReceivingInv, SenderInv
    <2>9. CASE line.i = 10
      BY <1>1, <1>2, <1>4, <2>4, <2>5, <2>7, <2>9
      DEF FrameInv, IdleInv, SendingInv, ReceivingInv, SenderInv, AtLast
    <2> QED
      BY <2>6, <2>8, <2>9
  <1> QED
    BY <1>3, <1>4

LEMMA SendRisesKeeps == ASSUME FrameInv, SendRises PROVE FrameInv'
  <1>1. ctl' = ctl /\ line.at = "sending" /\ line.low
    BY DEF SendRises
  <1>2. line' = Idle => FrameInv'
    <2>1. ASSUME line' = Idle PROVE ctl.recvCnt = 0
      <3>1. CASE line.i = 10
        BY <1>1, <3>1 DEF FrameInv, SendingInv, Edges, Shape
      <3>2. CASE line.i # 10
        <4>1. PullsClk(ctl)
          BY <2>1, <3>2 DEF SendRises, Idle, Line
        <4> QED
          BY <1>1, <3>2, <4>1 DEF FrameInv, SendingInv, AtLast, PullsClk
      <3> QED
        BY <3>1, <3>2
    <2> QED
      BY <1>1, <2>1
      DEF FrameInv, Shape, IdleInv, SendingInv, ReceivingInv, SenderInv, Idle, Line, FrameBits
  <1>3. CASE line' # Idle
    <2>1. /\ line.i # 10 /\ ~PullsClk(ctl)
          /\ line' = [at |-> "sending", i |-> line.i + 1, low |-> FALSE,
                      data |-> FrameBit(Head(queue), line.i + 1)]
      BY <1>3 DEF SendRises, Line
    <2>2. ~ctl.sendEna /\ ~ctl.hasData /\ ctl.recvCnt = line.i + 1
      BY <1>1, <2>1 DEF FrameInv, SendingInv, PullsClk, Edges, Shape, FrameBits
    <2> QED
      BY <1>1, <2>1, <2>2
      DEF FrameInv, Shape, IdleInv, SendingInv, ReceivingInv, SenderInv, Edges, FrameBits
  <1> QED
    BY <1>2, <1>3

LEMMA ReceiveBeginsKeeps == ASSUME FrameInv, ReceiveBegins PROVE FrameInv'
  <1>1. line.at = "idle" /\ ctl.dataOutEna
    BY DEF ReceiveBegins, Idle, Line, PullsData
  <1>2. ctl' = ctl /\ line' = [at |-> "receiving", i |-> 0, low |-> FALSE, data |-> 1]
    BY DEF ReceiveBegins, Line
  <1>3. ctl.recvCnt = 0 /\ ctl.sendCnt = 0 /\ Edges' = 0
    BY <1>1, <1>2 DEF FrameInv, IdleInv, Edges
  <1>4. Shape'
    BY <1>2 DEF FrameInv, Shape, FrameBits
  <1> QED
    BY <1>1, <1>2, <1>3, <1>4
    DEF FrameInv, IdleInv, SendingInv, ReceivingInv, SenderInv

LEMMA ReceiveFallsKeeps == ASSUME FrameInv, ReceiveFalls PROVE FrameInv'
  <1>1. line.at = "receiving" /\ ~line.low /\ ctl.sendEna /\ ctl.sendCnt = line.i /\ ctl.recvCnt = 0
    BY DEF ReceiveFalls, FrameInv, ReceivingInv, SenderInv, AtLast, Edges, Shape, FrameBits
  <1>2. /\ DOMAIN line' = DOMAIN line /\ line'.at = line.at /\ line'.i = line.i
        /\ line'.low = TRUE
    BY DEF ReceiveFalls, FrameInv, Shape
  <1>3. ctl' = SentBit(ctl, DataBit(ctl, line))
    BY <1>1 DEF ReceiveFalls, ClkFalls
  <1>4. /\ DOMAIN ctl' = DOMAIN ctl
        /\ ctl'.recvCnt = ctl.recvCnt /\ ctl'.hasData = ctl.hasData
        /\ ctl.sendCnt < 10 => /\ ctl'.sendCnt = ctl.sendCnt + 1
                               /\ ctl'.sendEna = ctl.sendEna
                               /\ ctl'.dataOutEna = ctl.dataOutEna
        /\ ~(ctl.sendCnt < 10) => ctl'.sendCnt = 0 /\ ~ctl'.sendEna /\ ~ctl'.dataOutEna
        /\ ctl'.sendEna \in BOOLEAN /\ ctl'.dataOutEna \in BOOLEAN
    BY <1>3, SentBitFields DEF FrameInv
  <1>5. ctl.dataOutEna
    BY <1>1 DEF FrameInv, ReceivingInv, AtLast
  <1>6. line.i \in 0 .. 10 /\ Edges' = line.i + 1
    BY <1>2 DEF FrameInv, Shape, Edges, FrameBits
  <1>7. Shape'
    <2>1. ctl'.sendCnt \in FrameBits /\ ctl'.recvCnt \in FrameBits
      <3>1. ctl'.recvCnt \in 0 .. 10
        BY <1>1, <1>4
      <3>2. CASE ctl.sendCnt < 10
        <4>1. ctl.sendCnt = line.i
          BY <1>1
        <4>2. ctl'.sendCnt = ctl.sendCnt + 1
          BY <1>4, <3>2
        <4> QED
          BY <1>6, <3>1, <3>2, <4>1, <4>2 DEF FrameBits
      <3>3. CASE ~(ctl.sendCnt < 10)
        BY <1>4, <3>1, <3>3 DEF FrameBits
      <3> QED
        BY <3>2, <3>3
    <2>2. ctl'.hasData \in BOOLEAN /\ ctl'.sendEna \in BOOLEAN /\ ctl'.dataOutEna \in BOOLEAN
      BY <1>4 DEF FrameInv, Shape
    <2>3. line'.low \in BOOLEAN
      BY <1>2
    <2> QED
      BY <1>2, <1>4, <2>1, <2>2, <2>3 DEF FrameInv, Shape
  <1>8. CASE line.i < 10
    BY <1>1, <1>2, <1>4, <1>5, <1>6, <1>7, <1>8
    DEF FrameInv, IdleInv, SendingInv, ReceivingInv, SenderInv
  <1>9. CASE line.i = 10
    BY <1>1, <1>2, <1>4, <1>7, <1>9
    DEF FrameInv, IdleInv, SendingInv, ReceivingInv, SenderInv, AtLast
  <1> QED
    BY <1>6, <1>8, <1>9

LEMMA ReceiveRisesKeeps == ASSUME FrameInv, ReceiveRises PROVE FrameInv'
  <1>1. ctl' = ctl /\ line.at = "receiving" /\ line.low
    BY DEF ReceiveRises
  <1>2. CASE line.i = 10
    <2>1. line' = [at |-> "idle", i |-> 0, low |-> FALSE, data |-> 1]
      BY <1>2 DEF ReceiveRises, Idle, Line
    <2>2. ctl.recvCnt = 0 /\ ~ctl.dataOutEna
      BY <1>1, <1>2 DEF FrameInv, ReceivingInv, Edges, Shape, FrameBits
    <2> QED
      BY <1>1, <2>1, <2>2
      DEF FrameInv, Shape, IdleInv, SendingInv, ReceivingInv, SenderInv, FrameBits
  <1>3. CASE line.i # 10
    <2>1. line' = [at |-> "receiving", i |-> line.i + 1, low |-> FALSE,
                   data |-> IF line.i = 9 THEN 0 ELSE 1]
      BY <1>3 DEF ReceiveRises, Line
    <2>2. ctl.recvCnt = 0 /\ ctl.dataOutEna /\ ctl.sendCnt = line.i + 1
      BY <1>1, <1>3 DEF FrameInv, ReceivingInv, Edges, AtLast
    <2> QED
      BY <1>1, <1>3, <2>1, <2>2
      DEF FrameInv, Shape, IdleInv, SendingInv, ReceivingInv, SenderInv, Edges, FrameBits
  <1> QED
    BY <1>2, <1>3

LEMMA TimerKeeps == ASSUME FrameInv, Timer PROVE FrameInv'
  <1>1. line' = line /\ line.at = "idle" /\ ctl.sendEna /\ ~ctl.dataOutEna
    BY DEF Timer, keyboard, Idle, Line
  <1>2. /\ DOMAIN ctl' = DOMAIN ctl /\ ctl'.recvCnt = ctl.recvCnt
        /\ ctl'.sendCnt = ctl.sendCnt /\ ctl'.sendEna = ctl.sendEna
        /\ ctl'.hasData = ctl.hasData /\ ctl'.dataOutEna = TRUE
    BY DEF Timer, RequestEnds, FrameInv, Shape
  <1> QED
    BY <1>1, <1>2 DEF FrameInv, Shape, IdleInv, SendingInv, ReceivingInv, SenderInv

---------------------------------------------------------------------------
(* The driver's accesses, which fall between any two edges. *)

LEMMA AsksKeeps ==
  ASSUME FrameInv, Rdy(ctl), NEW byte, Asks(byte), line' = line
  PROVE  FrameInv'
  <1>1. /\ DOMAIN ctl' = DOMAIN ctl
        /\ ctl'.recvCnt = 0 /\ ctl'.sendCnt = ctl.sendCnt
        /\ ctl'.sendEna = TRUE /\ ctl'.dataOutEna = ctl.dataOutEna
        /\ ctl'.hasData = ctl.hasData
    <2>1. PICK up, bit : ctl' = WriteData(ctl, byte, up, bit)
      BY DEF Asks
    <2> QED
      BY <2>1, WriteDataFields DEF FrameInv
  <1>2. ~ctl.sendEna
    BY DEF Rdy
  <1> QED
    BY <1>1, <1>2
    DEF FrameInv, Shape, IdleInv, SendingInv, ReceivingInv, SenderInv, Edges, AtLast, FrameBits

LEMMA ClearKeeps == ASSUME FrameInv, Clear PROVE FrameInv'
  <1>1. /\ DOMAIN ctl' = DOMAIN ctl
        /\ ctl'.recvCnt = ctl.recvCnt /\ ctl'.sendCnt = ctl.sendCnt
        /\ ctl'.sendEna = ctl.sendEna /\ ctl'.dataOutEna = ctl.dataOutEna
        /\ ctl'.hasData = FALSE
    BY WriteStatusFields DEF Clear, FrameInv
  <1>2. line' = line /\ ~ctl.sendEna /\ ctl.recvCnt = 0
    BY DEF Clear, Rdy, NotDriver, keyboard
  <1>3. line.at = "sending" => ctl.recvCnt = Edges % 11
    BY <1>2 DEF FrameInv, SendingInv, AtLast, Edges, Shape
  <1> QED
    BY <1>1, <1>2, <1>3
    DEF FrameInv, Shape, IdleInv, SendingInv, ReceivingInv, SenderInv, Edges, AtLast

LEMMA ElsewhereKeeps == ASSUME FrameInv, UNCHANGED << ctl, line >> PROVE FrameInv'
  BY DEF FrameInv, Shape, IdleInv, SendingInv, ReceivingInv, SenderInv, Edges, AtLast

---------------------------------------------------------------------------
LEMMA InitFrames == Init => FrameInv
  BY DEF Init, Reset, Idle, Line, FrameInv, Shape, IdleInv, SendingInv, ReceivingInv,
         SenderInv, FrameBits

LEMMA NextFrames == FrameInv /\ [Next]_vars => FrameInv'
  <1> SUFFICES ASSUME FrameInv, [Next]_vars PROVE FrameInv'
    OBVIOUS
  <1>1. CASE KeyboardSteps
    BY <1>1, SendBeginsKeeps, SendFallsKeeps, SendRisesKeeps, ReceiveBeginsKeeps,
       ReceiveFallsKeeps, ReceiveRisesKeeps DEF KeyboardSteps
  <1>2. CASE Timer
    BY <1>2, TimerKeeps
  <1>3. CASE PollRepeat
    BY <1>3, AsksKeeps DEF PollRepeat, NotDriver, keyboard
  <1>4. CASE SendStart
    BY <1>4, AsksKeeps DEF SendStart, NotDriver, keyboard
  <1>5. CASE SendAgain
    BY <1>5, AsksKeeps DEF SendAgain, NotDriver, keyboard
  <1>6. CASE Clear
    BY <1>6, ClearKeeps
  <1>7. CASE Press \/ SendCommand \/ PollStatus \/ PollData \/ SendCheck \/ SendAwait
             \/ SendAnswer \/ UNCHANGED vars
    <2>1. UNCHANGED << ctl, line >>
      BY <1>7 DEF Press, SendCommand, PollStatus, PollData, SendCheck, SendAwait,
                  SendAnswer, NotDriver, keyboard, vars
    <2> QED
      BY <2>1, ElsewhereKeeps
  <1> QED
    BY <1>1, <1>2, <1>3, <1>4, <1>5, <1>6, <1>7 DEF Next, DriverSteps

(* The controller's counters are where the keyboard is: no interleaving of *)
(* edges, accesses, resends and commands makes a byte of the bits of two   *)
(* frames.                                                                 *)
THEOREM CountersInStep == Spec => []InStep
  <1>1. FrameInv => InStep
    BY DEF FrameInv, SendingInv, ReceivingInv, InStep
  <1> QED
    BY <1>1, InitFrames, NextFrames, PTL DEF Spec

---------------------------------------------------------------------------
(* Bytes and their bits. *)

LEMMA BitsAt ==
  ASSUME NEW b \in Bytes
  PROVE  /\ BitAt(b, 0) = b % 2 /\ BitAt(b, 1) = (b \div 2) % 2
         /\ BitAt(b, 2) = (b \div 4) % 2 /\ BitAt(b, 3) = (b \div 8) % 2
         /\ BitAt(b, 4) = (b \div 16) % 2 /\ BitAt(b, 5) = (b \div 32) % 2
         /\ BitAt(b, 6) = (b \div 64) % 2 /\ BitAt(b, 7) = (b \div 128) % 2
  <1>1. b \div 1 = b
    BY DEF Bytes
  <1> QED BY <1>1 DEF BitAt

LEMMA Eight ==
  /\ \A j \in DataBits : j = 0 \/ j = 1 \/ j = 2 \/ j = 3 \/ j = 4 \/ j = 5 \/ j = 6 \/ j = 7
  /\ 0 \in DataBits /\ 1 \in DataBits /\ 2 \in DataBits /\ 3 \in DataBits
  /\ 4 \in DataBits /\ 5 \in DataBits /\ 6 \in DataBits /\ 7 \in DataBits
  BY DEF DataBits

LEMMA BitTypes ==
  ASSUME NEW b \in Bytes
  PROVE  /\ \A j \in DataBits : BitAt(b, j) \in Bits
         /\ OddParity(b) \in Bits
         /\ \A i \in FrameBits : FrameBit(b, i) \in Bits
  <1>1. \A j \in DataBits : BitAt(b, j) \in Bits
    <2>1. \A n \in Int : n % 2 \in Bits
      BY DEF Bits
    <2>2. /\ b \in Int /\ b \div 2 \in Int /\ b \div 4 \in Int /\ b \div 8 \in Int
          /\ b \div 16 \in Int /\ b \div 32 \in Int /\ b \div 64 \in Int /\ b \div 128 \in Int
      BY DEF Bytes
    <2> QED BY <2>1, <2>2, BitsAt, Eight
  <1>2. OddParity(b) \in Bits
    BY <1>1, Eight DEF OddParity, Odd, BitsOf, Bits
  <1>3. ASSUME NEW i \in FrameBits PROVE FrameBit(b, i) \in Bits
    <2>1. i = 0 \/ i \in 1 .. 8 \/ i = 9 \/ i = 10
      BY DEF FrameBits
    <2>2. i \in 1 .. 8 => i - 1 \in DataBits
      BY DEF DataBits
    <2>3. 0 \in Bits /\ 1 \in Bits
      BY DEF Bits
    <2> QED BY <1>1, <1>2, <2>1, <2>2, <2>3 DEF FrameBit
  <1> QED BY <1>1, <1>2, <1>3

LEMMA ByteOfTypes ==
  ASSUME NEW bits, \A j \in DataBits : bits[j] \in Bits
  PROVE  ByteOf(bits) \in Bytes
  BY Eight DEF ByteOf, Bits, Bytes

(* Taking a byte apart and putting it together, either way round. *)
LEMMA Together ==
  ASSUME NEW b \in Bytes, NEW bits, \A j \in DataBits : bits[j] = BitAt(b, j)
  PROVE  ByteOf(bits) = b
  <1> DEFINE q1 == b \div 2
             q2 == b \div 4
             q3 == b \div 8
             q4 == b \div 16
             q5 == b \div 32
             q6 == b \div 64
             q7 == b \div 128
  <1>1. b \in Int
    BY DEF Bytes
  <1>h0. b = 2 * q1 + (b % 2)
    BY <1>1
  <1>h1. q1 = 2 * q2 + (q1 % 2)
    BY <1>1
  <1>h2. q2 = 2 * q3 + (q2 % 2)
    BY <1>1
  <1>h3. q3 = 2 * q4 + (q3 % 2)
    BY <1>1
  <1>h4. q4 = 2 * q5 + (q4 % 2)
    BY <1>1
  <1>h5. q5 = 2 * q6 + (q5 % 2)
    BY <1>1
  <1>h6. q6 = 2 * q7 + (q6 % 2)
    BY <1>1
  <1>2. q7 = q7 % 2
    BY DEF Bytes
  <1>3. /\ bits[0] = b % 2 /\ bits[1] = q1 % 2 /\ bits[2] = q2 % 2 /\ bits[3] = q3 % 2
        /\ bits[4] = q4 % 2 /\ bits[5] = q5 % 2 /\ bits[6] = q6 % 2 /\ bits[7] = q7 % 2
    BY BitsAt, Eight
  <1>4. /\ b \in Int /\ q1 \in Int /\ q2 \in Int /\ q3 \in Int
        /\ q4 \in Int /\ q5 \in Int /\ q6 \in Int /\ q7 \in Int
        /\ b % 2 \in Int /\ q1 % 2 \in Int /\ q2 % 2 \in Int /\ q3 % 2 \in Int
        /\ q4 % 2 \in Int /\ q5 % 2 \in Int /\ q6 % 2 \in Int /\ q7 % 2 \in Int
    BY DEF Bytes
  <1> HIDE DEF q1, q2, q3, q4, q5, q6, q7
  <1> QED BY <1>h0, <1>h1, <1>h2, <1>h3, <1>h4, <1>h5, <1>h6, <1>2, <1>3, <1>4 DEF ByteOf

LEMMA Apart ==
  ASSUME NEW bits, \A j \in DataBits : bits[j] \in Bits
  PROVE  \A j \in DataBits : BitAt(ByteOf(bits), j) = bits[j]
  <1> DEFINE b == ByteOf(bits)
  <1>1. b \in Bytes
    BY ByteOfTypes
  <1>2. /\ b % 2 = bits[0] /\ (b \div 2) % 2 = bits[1]
        /\ (b \div 4) % 2 = bits[2] /\ (b \div 8) % 2 = bits[3]
    BY Eight DEF ByteOf, Bits
  <1>3. /\ (b \div 16) % 2 = bits[4] /\ (b \div 32) % 2 = bits[5]
        /\ (b \div 64) % 2 = bits[6] /\ (b \div 128) % 2 = bits[7]
    BY Eight DEF ByteOf, Bits
  <1> HIDE DEF b
  <1>4. \A j \in DataBits : BitAt(b, j) = bits[j]
    BY <1>1, <1>2, <1>3, BitsAt, Eight
  <1> QED BY <1>4 DEF b

LEMMA ParityOf ==
  ASSUME NEW bits, \A j \in DataBits : bits[j] \in Bits
  PROVE  OddParity(ByteOf(bits)) = Odd(bits)
  <1>1. \A j \in DataBits : BitsOf(ByteOf(bits))[j] = bits[j]
    BY Apart DEF BitsOf
  <1> QED BY <1>1, Eight DEF OddParity, Odd

LEMMA SumOf ==
  ASSUME NEW h, h[0] \in Int, h[1] \in Int, h[2] \in Int, h[3] \in Int,
         h[4] \in Int, h[5] \in Int, h[6] \in Int, h[7] \in Int
  PROVE  LET s == h[0] + h[1] + h[2] + h[3] + h[4] + h[5] + h[6] + h[7]
         IN  s \in Int /\ Odd(h) = (1 + s) % 2
  <1>1. 1 + h[0] + h[1] + h[2] + h[3] + h[4] + h[5] + h[6] + h[7]
          = 1 + (h[0] + h[1] + h[2] + h[3] + h[4] + h[5] + h[6] + h[7])
    OBVIOUS
  <1> QED BY <1>1 DEF Odd

(* Parity finds one bit that was turned over. *)
LEMMA OneFlip ==
  ASSUME NEW g, NEW h, \A j \in 0 .. 8 : h[j] \in Bits, h[8] = Odd(h),
         NEW e \in 0 .. 8, \A j \in 0 .. 8 : g[j] = IF j = e THEN 1 - h[j] ELSE h[j]
  PROVE  g[8] # Odd(g)
  <1> DEFINE s == h[0] + h[1] + h[2] + h[3] + h[4] + h[5] + h[6] + h[7]
             t == g[0] + g[1] + g[2] + g[3] + g[4] + g[5] + g[6] + g[7]
  <1>1. /\ h[0] \in Bits /\ h[1] \in Bits /\ h[2] \in Bits /\ h[3] \in Bits /\ h[4] \in Bits
        /\ h[5] \in Bits /\ h[6] \in Bits /\ h[7] \in Bits /\ h[8] \in Bits
    OBVIOUS
  <1>2. s \in Int /\ Odd(h) = (1 + s) % 2
    <2>1. /\ h[0] \in Int /\ h[1] \in Int /\ h[2] \in Int /\ h[3] \in Int
          /\ h[4] \in Int /\ h[5] \in Int /\ h[6] \in Int /\ h[7] \in Int
      BY <1>1 DEF Bits
    <2> QED BY <2>1, SumOf
  <1>3. \A j \in 0 .. 8 : g[j] \in Bits
    <2> TAKE j \in 0 .. 8
    <2>1. h[j] = 0 \/ h[j] = 1
      BY DEF Bits
    <2>2. g[j] = 1 - h[j] \/ g[j] = h[j]
      OBVIOUS
    <2> QED BY <2>1, <2>2 DEF Bits
  <1>4. t \in Int /\ Odd(g) = (1 + t) % 2
    <2>1. g[0] \in Int /\ g[1] \in Int /\ g[2] \in Int /\ g[3] \in Int
          /\ g[4] \in Int /\ g[5] \in Int /\ g[6] \in Int /\ g[7] \in Int
      <3>1. \A j \in 0 .. 8 : g[j] \in Int
        BY <1>3 DEF Bits
      <3> QED BY <3>1
    <2> QED BY <2>1, SumOf
  <1>5. CASE e = 8
    <2>1. t = s /\ g[8] = 1 - h[8]
      BY <1>5
    <2> HIDE DEF s, t
    <2> QED BY <1>1, <1>2, <1>4, <2>1 DEF Bits
  <1>6. CASE e # 8
    <2>1. g[8] = h[8]
      BY <1>6
    <2>2. t = s + 1 \/ t = s - 1
      <3>1. e = 0 \/ e = 1 \/ e = 2 \/ e = 3 \/ e = 4 \/ e = 5 \/ e = 6 \/ e = 7
        BY <1>6
      <3>2. h[e] = 0 \/ h[e] = 1
        BY DEF Bits
      <3> QED BY <1>1, <3>1, <3>2 DEF Bits
    <2> HIDE DEF s, t
    <2>3. (1 + t) % 2 # (1 + s) % 2
      BY <1>2, <1>4, <2>2
    <2> QED BY <1>2, <1>4, <2>1, <2>3
  <1> QED BY <1>5, <1>6

---------------------------------------------------------------------------
(* Types. *)

LEMMA ShiftedTypes ==
  ASSUME NEW c \in Controller, NEW bit \in Bits
  PROVE  Shifted(c, bit) \in [FrameBits -> Bits]
  <1>1. c.reg \in [FrameBits -> Bits]
    BY DEF Controller
  <1>2. \A i \in FrameBits : i # 10 => i + 1 \in FrameBits
    BY DEF FrameBits
  <1> QED BY <1>1, <1>2 DEF Shifted

LEMMA ControllerTypes ==
  ASSUME NEW c \in Controller, NEW bit \in Bits
  PROVE  /\ ClkFalls(c, bit) \in Controller
         /\ WriteStatus(c, bit) \in Controller
         /\ RequestEnds(c) \in Controller
         /\ \A up : \A byte \in Bytes : WriteData(c, byte, up, bit) \in Controller
         /\ RecvByte(c) \in Bytes
  <1>1. Shifted(c, bit) \in [FrameBits -> Bits]
    BY ShiftedTypes
  <1>2. \A n \in FrameBits : n < 10 => n + 1 \in FrameBits
    BY DEF FrameBits
  <1>3. 0 \in FrameBits
    BY DEF FrameBits
  <1>4. SentBit(c, bit) \in Controller
    BY <1>1, <1>2, <1>3 DEF SentBit, Controller
  <1>5. ReceivedBit(c, bit) \in Controller
    BY <1>1, <1>2, <1>3 DEF ReceivedBit, Controller
  <1>6. WriteStatus(c, bit) \in Controller
    <2>1. [c EXCEPT !.hasData = FALSE] \in Controller
      BY DEF Controller
    <2>2. Shifted([c EXCEPT !.hasData = FALSE], bit) \in [FrameBits -> Bits]
      BY <2>1, ShiftedTypes
    <2> QED BY <2>2 DEF WriteStatus, Controller
  <1>7. RequestEnds(c) \in Controller
    BY DEF RequestEnds, Controller
  <1>8. ASSUME NEW byte \in Bytes, NEW up
        PROVE  WriteData(c, byte, up, bit) \in Controller
    BY <1>1, <1>3 DEF WriteData, Controller
  <1>9. RecvByte(c) \in Bytes
    <2> DEFINE bits == [i \in DataBits |-> c.reg[i + 1]]
    <2>1. \A j \in DataBits : j + 1 \in FrameBits
      BY DEF DataBits, FrameBits
    <2>2. \A j \in DataBits : bits[j] \in Bits
      BY <2>1 DEF Controller
    <2> HIDE DEF bits
    <2>3. ByteOf(bits) \in Bytes
      BY <2>2, ByteOfTypes
    <2> QED BY <2>3 DEF bits, RecvByte
  <1> QED BY <1>4, <1>5, <1>6, <1>7, <1>8, <1>9 DEF ClkFalls

(* What the driver is at says whether a command is out, whether it has     *)
(* asked, and whether a byte waits; a frame under way is the first byte of *)
(* the keyboard's queue.                                                   *)
Idles ==
  \/ pc \in {"main", "read", "repeat"}
  \/ pc = "clear" /\ after \in {"main", "event"}
DriverInv ==
  /\ todo = << >> <=> Idles
  /\ ctl.sendEna => pc = "await" \/ (pc = "clear" /\ after \in {"main", "await"})
  /\ pc \in {"read", "repeat", "answer", "again", "clear"} => ctl.hasData
LineInv ==
  /\ line.at = "sending" =>
       /\ queue # << >> /\ line.data = FrameBit(Head(queue), line.i)
       /\ ctl.sendEna => line.i = 0 \/ AtLast
  /\ line.at = "receiving" /\ line.i <= 9 => line.data = 1
TypeInv == TypeOK /\ DriverInv /\ LineInv
IInv == FrameInv /\ TypeInv

LEMMA DataBitTypes == ASSUME TypeOK PROVE DataBit(ctl, line) \in Bits
  BY DEF TypeOK, DataBit, Bits

(* The two ends of the queue. *)
LEMMA QueueTypes ==
  ASSUME NEW q \in Seq(Bytes), NEW s \in Seq(Bytes)
  PROVE  /\ q # << >> => Head(q) \in Bytes /\ Tail(q) \in Seq(Bytes)
         /\ q \o s \in Seq(Bytes)
         /\ q # << >> => q \o s # << >> /\ Head(q \o s) = Head(q)
  OBVIOUS

LEMMA CodesTypes ==
  ASSUME NEW a, a.key \in Keys PROVE Codes(a) \in Seq(Bytes)
  <1>1. a.key.code \in Bytes /\ 224 \in Bytes /\ RELEASE \in Bytes
    BY KeysAssumption DEF Bytes, RELEASE
  <1>2. << 224 >> \in Seq(Bytes) /\ << RELEASE >> \in Seq(Bytes)
        /\ << a.key.code >> \in Seq(Bytes) /\ << >> \in Seq(Bytes)
    BY <1>1
  <1>3. /\ (IF a.key.ext THEN << 224 >> ELSE << >>) \in Seq(Bytes)
        /\ (IF a.up THEN << RELEASE >> ELSE << >>) \in Seq(Bytes)
    BY <1>2
  <1> QED BY <1>2, <1>3 DEF Codes

LEMMA FlipTypes ==
  ASSUME TypeOK, NEW flip \in Noisy, flips' = IF flip THEN flips + 1 ELSE flips
  PROVE  flips' \in 0 .. MaxFlips
  <1>1. flips \in 0 .. MaxFlips /\ MaxFlips \in Nat
    BY BoundsAssumption DEF TypeOK
  <1>2. flip => flips < MaxFlips
    BY DEF Noisy
  <1> QED BY <1>1, <1>2

LEMMA PressTypes == ASSUME IInv, Press PROVE TypeInv'
  <1>1. PICK key \in Keys, up \in BOOLEAN :
          /\ up => key \in down
          /\ down' = IF up THEN down \ {key} ELSE down \cup {key}
          /\ queue' = queue \o Codes([key |-> key, up |-> up])
    BY DEF Press
  <1>2. UNCHANGED << ctl, line, last, got, driver, calm, took, commands, flips >>
    BY DEF Press
  <1>3. Codes([key |-> key, up |-> up]) \in Seq(Bytes)
    BY CodesTypes
  <1>4. queue' \in Seq(Bytes) /\ (queue # << >> => queue' # << >> /\ Head(queue') = Head(queue))
    BY <1>1, <1>3, QueueTypes DEF IInv, TypeInv, TypeOK
  <1>5. down' \subseteq Keys
    BY <1>1 DEF IInv, TypeInv, TypeOK
  <1>6. TypeOK'
    BY <1>2, <1>4, <1>5 DEF IInv, TypeInv, TypeOK, driver
  <1>7. DriverInv'
    BY <1>2 DEF IInv, TypeInv, DriverInv, Idles, driver
  <1>8. LineInv'
    BY <1>2, <1>4 DEF IInv, TypeInv, LineInv, AtLast
  <1> QED BY <1>6, <1>7, <1>8 DEF TypeInv

LEMMA SendBeginsTypes == ASSUME IInv, SendBegins PROVE TypeInv'
  <1>1. /\ line = Idle /\ queue # << >> /\ ~PullsClk(ctl)
        /\ line' = [at |-> "sending", i |-> 0, low |-> FALSE, data |-> 0]
        /\ UNCHANGED << ctl, queue, last, got, driver, user, took, commands, flips >>
    BY DEF SendBegins, ClkLow, Line
  <1>2. TypeOK'
    BY <1>1 DEF IInv, TypeInv, TypeOK, driver, user, FrameBits, Bits
  <1>3. DriverInv'
    BY <1>1 DEF IInv, TypeInv, DriverInv, Idles, driver
  <1>4. LineInv'
    BY <1>1 DEF LineInv, FrameBit
  <1> QED BY <1>2, <1>3, <1>4 DEF TypeInv

LEMMA SendFallsTypes == ASSUME IInv, SendFalls PROVE TypeInv'
  <1>1. /\ line.at = "sending" /\ ~line.low /\ line' = [line EXCEPT !.low = TRUE]
        /\ UNCHANGED << queue, last, got, driver, user, took, commands >>
    BY DEF SendFalls
  <1>2. PICK flip \in Noisy :
          /\ ctl' = IF PullsClk(ctl) THEN ctl
                    ELSE ClkFalls(ctl, IF flip THEN 1 - line.data ELSE line.data)
          /\ flips' = IF flip THEN flips + 1 ELSE flips
    BY DEF SendFalls
  <1>3. flips' \in 0 .. MaxFlips
    BY <1>2, FlipTypes DEF IInv, TypeInv
  <1>4. (IF flip THEN 1 - line.data ELSE line.data) \in Bits
    BY DEF IInv, TypeInv, TypeOK, Bits
  <1>5. ctl' \in Controller
    BY <1>2, <1>4, ControllerTypes DEF IInv, TypeInv, TypeOK
  <1>6. TypeOK'
    BY <1>1, <1>3, <1>5 DEF IInv, TypeInv, TypeOK, driver, user
  <1>7. ctl'.sendEna = ctl.sendEna /\ (ctl.hasData => ctl'.hasData)
    <2>1. CASE PullsClk(ctl)
      BY <1>2, <2>1
    <2>2. CASE ~PullsClk(ctl)
      <3>1. ~ctl.sendEna
        BY <1>1, <2>2 DEF IInv, FrameInv, SendingInv, PullsClk
      <3>2. ctl' = ReceivedBit(ctl, IF flip THEN 1 - line.data ELSE line.data)
        BY <1>2, <2>2, <3>1 DEF ClkFalls
      <3> QED BY <3>2, ReceivedBitFields DEF IInv, FrameInv
    <2> QED BY <2>1, <2>2
  <1>8. DriverInv'
    BY <1>1, <1>7 DEF IInv, TypeInv, DriverInv, Idles, driver
  <1>9. LineInv'
    <2>1. line'.at = "sending" /\ line'.i = line.i /\ line'.data = line.data /\ line'.low = TRUE
      BY <1>1 DEF IInv, TypeInv, TypeOK
    <2> QED BY <1>1, <1>7, <2>1 DEF IInv, TypeInv, LineInv, AtLast
  <1> QED BY <1>6, <1>8, <1>9 DEF TypeInv

LEMMA SendRisesTypes == ASSUME IInv, SendRises PROVE TypeInv'
  <1>1. /\ line.at = "sending" /\ line.low
        /\ UNCHANGED << ctl, got, driver, user, took, commands, flips >>
        /\ queue # << >> /\ Head(queue) \in Bytes /\ Tail(queue) \in Seq(Bytes)
    BY QueueTypes DEF SendRises, IInv, TypeInv, LineInv, TypeOK
  <1>2. DriverInv'
    BY <1>1 DEF IInv, TypeInv, DriverInv, Idles, driver
  <1>3. CASE line' = Idle
    <2>1. queue' \in Seq(Bytes) /\ last' \in Bytes
      BY <1>1 DEF SendRises, IInv, TypeInv, TypeOK
    <2>2. TypeOK'
      BY <1>1, <1>3, <2>1 DEF IInv, TypeInv, TypeOK, driver, user, Idle, Line, FrameBits, Bits
    <2>3. LineInv'
      BY <1>3 DEF LineInv, Idle, Line
    <2> QED BY <1>2, <2>2, <2>3 DEF TypeInv
  <1>4. CASE line' # Idle
    <2>1. /\ line.i # 10 /\ ~PullsClk(ctl) /\ UNCHANGED << queue, last >>
          /\ line' = [at |-> "sending", i |-> line.i + 1, low |-> FALSE,
                      data |-> FrameBit(Head(queue), line.i + 1)]
      BY <1>4 DEF SendRises, Line
    <2>2. line.i + 1 \in FrameBits
      BY <2>1 DEF IInv, TypeInv, TypeOK, FrameBits
    <2>3. FrameBit(Head(queue), line.i + 1) \in Bits
      BY <1>1, <2>2, BitTypes
    <2>4. TypeOK'
      BY <1>1, <2>1, <2>2, <2>3 DEF IInv, TypeInv, TypeOK, driver, user
    <2>5. ~ctl.sendEna
      BY <1>1, <2>1 DEF IInv, FrameInv, SendingInv, PullsClk
    <2>6. LineInv'
      BY <1>1, <2>1, <2>5 DEF LineInv
    <2> QED BY <1>2, <2>4, <2>6 DEF TypeInv
  <1> QED BY <1>3, <1>4

LEMMA ReceiveBeginsTypes == ASSUME IInv, ReceiveBegins PROVE TypeInv'
  <1>1. /\ line' = [at |-> "receiving", i |-> 0, low |-> FALSE, data |-> 1]
        /\ got' = Nothing
        /\ UNCHANGED << ctl, queue, last, driver, user, took, commands, flips >>
    BY DEF ReceiveBegins, Line
  <1>2. TypeOK'
    BY <1>1 DEF IInv, TypeInv, TypeOK, driver, user, FrameBits, Bits, Nothing
  <1>3. DriverInv'
    BY <1>1 DEF IInv, TypeInv, DriverInv, Idles, driver
  <1>4. LineInv'
    BY <1>1 DEF LineInv
  <1> QED BY <1>2, <1>3, <1>4 DEF TypeInv

LEMMA ReceiveFallsTypes == ASSUME IInv, ReceiveFalls PROVE TypeInv'
  <1>1. /\ line.at = "receiving" /\ ~line.low /\ line' = [line EXCEPT !.low = TRUE]
        /\ ctl' = ClkFalls(ctl, DataBit(ctl, line))
        /\ UNCHANGED << queue, last, got, driver, user, took, commands, flips >>
    BY DEF ReceiveFalls
  <1>2. ctl' \in Controller
    BY <1>1, DataBitTypes, ControllerTypes DEF IInv, TypeInv, TypeOK
  <1>3. TypeOK'
    BY <1>1, <1>2 DEF IInv, TypeInv, TypeOK, driver, user
  <1>4. ctl.sendEna
    BY <1>1 DEF IInv, FrameInv, ReceivingInv, SenderInv, AtLast
  <1>5. ctl' = SentBit(ctl, DataBit(ctl, line))
    BY <1>1, <1>4 DEF ClkFalls
  <1>6. ctl'.hasData = ctl.hasData
    BY <1>5, SentBitFields DEF IInv, FrameInv
  <1>7. DriverInv'
    BY <1>1, <1>4, <1>6 DEF IInv, TypeInv, DriverInv, Idles, driver
  <1>8. LineInv'
    <2>1. line'.at = "receiving" /\ line'.i = line.i /\ line'.data = line.data
      BY <1>1 DEF IInv, TypeInv, TypeOK
    <2> QED BY <1>1, <2>1 DEF IInv, TypeInv, LineInv
  <1> QED BY <1>3, <1>7, <1>8 DEF TypeInv

LEMMA ReceiveRisesTypes == ASSUME IInv, ReceiveRises PROVE TypeInv'
  <1>1. /\ line.at = "receiving" /\ line.low
        /\ line' = IF line.i = 10 THEN [at |-> "idle", i |-> 0, low |-> FALSE, data |-> 1]
                   ELSE [at |-> "receiving", i |-> line.i + 1, low |-> FALSE,
                         data |-> IF line.i = 9 THEN 0 ELSE 1]
        /\ queue' = IF line.i = 10 THEN Answered(got) \o queue ELSE queue
        /\ took' \in BOOLEAN
        /\ UNCHANGED << ctl, last, driver, user, commands >>
    BY DEF ReceiveRises, Line, Idle
  <1>2. PICK flip \in Noisy :
          /\ flips' = IF flip THEN flips + 1 ELSE flips
          /\ got' = IF line.i > 8 THEN got
                    ELSE [got EXCEPT ![line.i] = IF flip THEN 1 - DataBit(ctl, line)
                                                 ELSE DataBit(ctl, line)]
    BY DEF ReceiveRises
  <1>3. flips' \in 0 .. MaxFlips
    BY <1>2, FlipTypes DEF IInv, TypeInv
  <1>4. got' \in [0 .. 8 -> Bits]
    <2>1. (IF flip THEN 1 - DataBit(ctl, line) ELSE DataBit(ctl, line)) \in Bits
      BY DataBitTypes DEF IInv, TypeInv, Bits
    <2> QED BY <1>2, <2>1 DEF IInv, TypeInv, TypeOK
  <1>5. queue' \in Seq(Bytes)
    <2>1. << RESEND >> \in Seq(Bytes) /\ << ACK >> \in Seq(Bytes) /\ << last >> \in Seq(Bytes)
      BY DEF IInv, TypeInv, TypeOK, RESEND, ACK, Bytes
    <2>2. Answered(got) \in Seq(Bytes)
      BY <2>1 DEF Answered
    <2> QED BY <1>1, <2>2, QueueTypes DEF IInv, TypeInv, TypeOK
  <1>6. line.i \in FrameBits /\ (line.i # 10 => line.i + 1 \in FrameBits)
    BY DEF IInv, TypeInv, TypeOK, FrameBits
  <1>7. line' \in [at : {"idle", "sending", "receiving"}, i : FrameBits, low : BOOLEAN,
                   data : Bits]
    BY <1>1, <1>6 DEF FrameBits, Bits
  <1>8. TypeOK'
    BY <1>1, <1>3, <1>4, <1>5, <1>7 DEF IInv, TypeInv, TypeOK, driver, user
  <1>9. DriverInv'
    BY <1>1 DEF IInv, TypeInv, DriverInv, Idles, driver
  <1>10. LineInv'
    BY <1>1, <1>6 DEF LineInv, FrameBits
  <1> QED BY <1>8, <1>9, <1>10 DEF TypeInv

LEMMA TimerTypes == ASSUME IInv, Timer PROVE TypeInv'
  <1>1. /\ ctl' = RequestEnds(ctl) /\ line = Idle
        /\ UNCHANGED << keyboard, driver, user, took, commands, flips >>
    BY DEF Timer
  <1>2. ctl' \in Controller
    <2>1. 0 \in Bits
      BY DEF Bits
    <2> QED BY <1>1, <2>1, ControllerTypes DEF IInv, TypeInv, TypeOK
  <1>3. ctl'.sendEna = ctl.sendEna /\ ctl'.hasData = ctl.hasData
    BY <1>1 DEF RequestEnds, IInv, TypeInv, TypeOK, Controller
  <1>4. TypeOK'
    BY <1>1, <1>2 DEF IInv, TypeInv, TypeOK, keyboard, driver, user
  <1>5. DriverInv'
    BY <1>1, <1>3 DEF IInv, TypeInv, DriverInv, Idles, driver
  <1>6. LineInv'
    BY <1>1 DEF LineInv, Idle, Line, keyboard
  <1> QED BY <1>4, <1>5, <1>6 DEF TypeInv

LEMMA AsksTypes ==
  ASSUME IInv, Rdy(ctl), NEW byte \in Bytes, Asks(byte), UNCHANGED keyboard
  PROVE  /\ ctl' \in Controller /\ LineInv'
         /\ ctl'.hasData = ctl.hasData /\ ctl'.sendEna = TRUE
         /\ ctl'.dataOutEna = ctl.dataOutEna /\ ctl'.sendData = byte
  <1>1. DataBit(ctl, line) \in Bits
    BY DataBitTypes DEF IInv, TypeInv
  <1>2. ctl' \in Controller
    BY <1>1, ControllerTypes DEF Asks, IInv, TypeInv, TypeOK
  <1>3. /\ ctl'.hasData = ctl.hasData /\ ctl'.sendEna = TRUE
        /\ ctl'.dataOutEna = ctl.dataOutEna /\ ctl'.sendData = byte
    <2>1. DOMAIN ctl = {"reg", "recvCnt", "hasData", "sendEna", "dataOutEna", "sendCnt",
                        "sendData", "sendAck"}
      BY DEF IInv, FrameInv, Shape
    <2> QED BY <2>1 DEF Asks, WriteData
  <1>4. line.at = "sending" => line.i = 0 \/ AtLast
    <2>1. ASSUME line.at = "sending", ~ctl.hasData PROVE line.i = 0 \/ AtLast
      <3>1. Edges % 11 = 0 /\ line.i \in 0 .. 10
        BY <2>1 DEF Rdy, IInv, FrameInv, SendingInv, Shape, FrameBits
      <3> QED BY <3>1 DEF Edges, AtLast, IInv, FrameInv, Shape
    <2> QED BY <2>1 DEF Rdy, IInv, FrameInv, SendingInv
  <1>5. LineInv'
    BY <1>4 DEF IInv, TypeInv, LineInv, AtLast, keyboard
  <1> QED BY <1>2, <1>3, <1>5

LEMMA TodoTypes ==
  ASSUME IInv
  PROVE  ~Idles => todo # << >> /\ Head(todo) \in Bytes /\ Tail(todo) \in Seq(Bytes)
  BY QueueTypes DEF IInv, TypeInv, TypeOK, DriverInv

LEMMA PollTypes == ASSUME IInv, PollStatus \/ PollData \/ PollRepeat PROVE TypeInv'
  <1>1. CASE PollStatus
    <2>1. /\ pc = "main" /\ pc' \in {"read", "repeat"} /\ ctl.hasData /\ ~ctl.sendEna
          /\ UNCHANGED << ctl, after, data, todo, Decoding, NotDriver, took, commands >>
      BY <1>1 DEF PollStatus, Goes, Rdy
    <2>2. TypeOK'
      BY <2>1 DEF IInv, TypeInv, TypeOK, Decoding, NotDriver, keyboard, user
    <2>3. DriverInv' /\ LineInv'
      BY <2>1 DEF IInv, TypeInv, DriverInv, LineInv, Idles, NotDriver, keyboard, AtLast
    <2> QED BY <2>2, <2>3 DEF TypeInv
  <1>2. CASE PollData
    <2>1. /\ pc = "read" /\ pc' = "clear" /\ after' = "event" /\ ~ctl.sendEna
          /\ data' = RecvByte(ctl)
          /\ UNCHANGED << ctl, todo, Decoding, NotDriver, took, commands >>
      BY <1>2 DEF PollData, Goes, Rdy
    <2>2. data' \in Bytes
      <3>1. 0 \in Bits
        BY DEF Bits
      <3> QED BY <2>1, <3>1, ControllerTypes DEF IInv, TypeInv, TypeOK
    <2>3. TypeOK'
      BY <2>1, <2>2 DEF IInv, TypeInv, TypeOK, Decoding, NotDriver, keyboard, user
    <2>4. DriverInv' /\ LineInv'
      BY <2>1 DEF IInv, TypeInv, DriverInv, LineInv, Idles, NotDriver, keyboard, AtLast
    <2> QED BY <2>3, <2>4 DEF TypeInv
  <1>3. CASE PollRepeat
    <2>1. /\ pc = "repeat" /\ pc' = "clear" /\ after' = "main" /\ Rdy(ctl) /\ Asks(RESEND)
          /\ UNCHANGED << data, todo, Decoding, NotDriver, took, commands >>
      BY <1>3 DEF PollRepeat, Goes
    <2>2. RESEND \in Bytes
      BY DEF RESEND, Bytes
    <2>3. ctl' \in Controller /\ LineInv' /\ ctl'.hasData = ctl.hasData
      BY <2>1, <2>2, AsksTypes DEF NotDriver
    <2>4. TypeOK'
      BY <2>1, <2>3 DEF IInv, TypeInv, TypeOK, Decoding, NotDriver, keyboard, user
    <2>5. DriverInv'
      BY <2>1, <2>3 DEF IInv, TypeInv, DriverInv, Idles
    <2> QED BY <2>3, <2>4, <2>5 DEF TypeInv
  <1> QED BY <1>1, <1>2, <1>3

LEMMA SendCommandTypes == ASSUME IInv, SendCommand PROVE TypeInv'
  <1>1. /\ commands < MaxCommands /\ commands' = commands + 1
        /\ pc = "main" /\ pc' = "check" /\ todo' \in Commands
        /\ UNCHANGED << ctl, after, data, Decoding, NotDriver, took >>
    BY DEF SendCommand, Goes
  <1>2. todo' \in Seq(Bytes) /\ todo' # << >>
    BY <1>1, CommandsAssumption
  <1>3. commands' \in 0 .. MaxCommands
    BY <1>1, BoundsAssumption DEF IInv, TypeInv, TypeOK
  <1>4. TypeOK'
    BY <1>1, <1>2, <1>3 DEF IInv, TypeInv, TypeOK, Decoding, NotDriver, keyboard, user
  <1>5. DriverInv' /\ LineInv'
    BY <1>1, <1>2 DEF IInv, TypeInv, DriverInv, LineInv, Idles, NotDriver, keyboard, AtLast
  <1> QED BY <1>4, <1>5 DEF TypeInv

LEMMA ReturnsTypes ==
  ASSUME IInv, ~Idles, Returns(Tail(todo))
  PROVE  /\ todo' \in Seq(Bytes) /\ pc' \in {"main", "check"}
         /\ todo' = << >> <=> pc' = "main"
  BY TodoTypes DEF Returns

LEMMA SendCheckTypes == ASSUME IInv, SendCheck PROVE TypeInv'
  <1>1. /\ pc = "check" /\ ~ctl.sendEna /\ took' = FALSE
        /\ IF ctl.hasData THEN Returns(Tail(todo)) ELSE pc' = "start" /\ UNCHANGED todo
        /\ UNCHANGED << ctl, after, data, Decoding, NotDriver, commands >>
    BY DEF SendCheck, Rdy
  <1>2. ~Idles
    BY <1>1 DEF Idles
  <1>3. /\ todo' \in Seq(Bytes) /\ pc' \in {"main", "check", "start"}
        /\ todo' = << >> <=> pc' = "main"
    <2>1. CASE ctl.hasData
      BY <1>1, <1>2, <2>1, ReturnsTypes
    <2>2. CASE ~ctl.hasData
      BY <1>1, <1>2, <2>2 DEF IInv, TypeInv, TypeOK, DriverInv
    <2> QED BY <2>1, <2>2
  <1>4. TypeOK'
    BY <1>1, <1>3 DEF IInv, TypeInv, TypeOK, Decoding, NotDriver, keyboard, user
  <1>5. DriverInv' /\ LineInv'
    BY <1>1, <1>3 DEF IInv, TypeInv, DriverInv, LineInv, Idles, NotDriver, keyboard, AtLast
  <1> QED BY <1>4, <1>5 DEF TypeInv

LEMMA SendStartTypes == ASSUME IInv, SendStart PROVE TypeInv'
  <1>1. /\ pc = "start" /\ pc' = "await" /\ Rdy(ctl) /\ Asks(Head(todo))
        /\ UNCHANGED << after, data, todo, Decoding, NotDriver, took, commands >>
    BY DEF SendStart, Goes
  <1>2. ~Idles
    BY <1>1 DEF Idles
  <1>3. ctl' \in Controller /\ LineInv'
    BY <1>1, <1>2, TodoTypes, AsksTypes DEF NotDriver
  <1>4. TypeOK'
    BY <1>1, <1>3 DEF IInv, TypeInv, TypeOK, Decoding, NotDriver, keyboard, user
  <1>5. DriverInv'
    BY <1>1, <1>2 DEF IInv, TypeInv, DriverInv, Idles
  <1> QED BY <1>3, <1>4, <1>5 DEF TypeInv

LEMMA AnswerTypes == ASSUME IInv, SendAwait \/ SendAnswer PROVE TypeInv'
  <1>1. CASE SendAwait
    <2>1. /\ pc = "await" /\ pc' \in {"answer", "again"} /\ ctl.hasData /\ ~ctl.sendEna
          /\ UNCHANGED << ctl, after, data, todo, Decoding, NotDriver, took, commands >>
      BY <1>1 DEF SendAwait, Goes, Rdy
    <2>2. TypeOK'
      BY <2>1 DEF IInv, TypeInv, TypeOK, Decoding, NotDriver, keyboard, user
    <2>3. DriverInv' /\ LineInv'
      BY <2>1 DEF IInv, TypeInv, DriverInv, LineInv, Idles, NotDriver, keyboard, AtLast
    <2> QED BY <2>2, <2>3 DEF TypeInv
  <1>2. CASE SendAnswer
    <2>1. /\ pc = "answer" /\ pc' = "clear" /\ after' \in {"end", "start"} /\ ~ctl.sendEna
          /\ data' = RecvByte(ctl)
          /\ UNCHANGED << ctl, todo, Decoding, NotDriver, took, commands >>
      BY <1>2 DEF SendAnswer, Goes, Rdy
    <2>2. data' \in Bytes
      <3>1. 0 \in Bits
        BY DEF Bits
      <3> QED BY <2>1, <3>1, ControllerTypes DEF IInv, TypeInv, TypeOK
    <2>3. TypeOK'
      BY <2>1, <2>2 DEF IInv, TypeInv, TypeOK, Decoding, NotDriver, keyboard, user
    <2>4. DriverInv' /\ LineInv'
      BY <2>1 DEF IInv, TypeInv, DriverInv, LineInv, Idles, NotDriver, keyboard, AtLast
    <2> QED BY <2>3, <2>4 DEF TypeInv
  <1> QED BY <1>1, <1>2

LEMMA SendAgainTypes == ASSUME IInv, SendAgain PROVE TypeInv'
  <1>1. /\ pc = "again" /\ pc' = "clear" /\ after' = "await" /\ Rdy(ctl) /\ Asks(RESEND)
        /\ UNCHANGED << data, todo, Decoding, NotDriver, took, commands >>
    BY DEF SendAgain, Goes
  <1>2. RESEND \in Bytes
    BY DEF RESEND, Bytes
  <1>3. ctl' \in Controller /\ LineInv' /\ ctl'.hasData = ctl.hasData
    BY <1>1, <1>2, AsksTypes DEF NotDriver
  <1>4. TypeOK'
    BY <1>1, <1>3 DEF IInv, TypeInv, TypeOK, Decoding, NotDriver, keyboard, user
  <1>5. DriverInv'
    BY <1>1, <1>3 DEF IInv, TypeInv, DriverInv, Idles
  <1> QED BY <1>3, <1>4, <1>5 DEF TypeInv

LEMMA DecodedTypes ==
  ASSUME TypeOK, Decoded
  PROVE  /\ extended' \in BOOLEAN /\ release' \in BOOLEAN
         /\ modifiers' \subseteq UNION { key.mask : key \in Keys }
  <1>1. CASE data \in {BAT_PASSED, BUFFER_OVERRUN} \/ data = RELEASE \/ data \in EXTENDED
    BY <1>1 DEF Decoded, TypeOK
  <1>2. CASE ~(data \in {BAT_PASSED, BUFFER_OVERRUN} \/ data = RELEASE \/ data \in EXTENDED)
    <2>1. IF KeysOf(data, extended) = {} THEN UNCHANGED Decoding
          ELSE \E key \in KeysOf(data, extended) : KeyTold(key)
      BY <1>2 DEF Decoded
    <2>2. CASE UNCHANGED Decoding
      BY <2>2 DEF Decoding, TypeOK
    <2>3. CASE \E key \in Keys : KeyTold(key)
      <3>1. PICK key \in Keys : KeyTold(key)
        BY <2>3
      <3>2. modifiers' = IF release THEN modifiers \ key.mask ELSE modifiers \cup key.mask
        BY <3>1 DEF KeyTold, KeyEvent
      <3>3. key.mask \subseteq UNION { k.mask : k \in Keys }
        OBVIOUS
      <3> QED BY <3>1, <3>2, <3>3 DEF KeyTold, TypeOK
    <2> QED BY <2>1, <2>2, <2>3 DEF KeysOf
  <1> QED BY <1>1, <1>2

LEMMA ClearTypes == ASSUME IInv, Clear PROVE TypeInv'
  <1>1. /\ pc = "clear" /\ ctl' = WriteStatus(ctl, line.data) /\ ~ctl.sendEna
        /\ UNCHANGED << after, data, NotDriver, took, commands >>
    BY DEF Clear, Rdy
  <1>2. ctl' \in Controller
    BY <1>1, ControllerTypes DEF IInv, TypeInv, TypeOK
  <1>3. ~ctl'.sendEna
    BY <1>1, WriteStatusFields DEF IInv, FrameInv
  <1>4. /\ todo' \in Seq(Bytes) /\ pc' \in {"main", "check", "start", "await"}
        /\ todo' = << >> <=> pc' = "main"
        /\ extended' \in BOOLEAN /\ release' \in BOOLEAN
        /\ modifiers' \subseteq UNION { key.mask : key \in Keys }
    <2>1. CASE after = "event"
      <3>1. pc' = "main" /\ Decoded /\ UNCHANGED todo
        BY <2>1 DEF Clear
      <3>2. todo = << >>
        BY <1>1, <2>1 DEF IInv, TypeInv, DriverInv, Idles
      <3> QED BY <3>1, <3>2, DecodedTypes DEF IInv, TypeInv, TypeOK
    <2>2. CASE after = "end"
      <3>1. Returns(Tail(todo)) /\ UNCHANGED Decoding
        BY <2>2 DEF Clear
      <3>2. ~Idles
        BY <1>1, <2>2 DEF Idles
      <3> QED BY <3>1, <3>2, ReturnsTypes DEF Decoding, IInv, TypeInv, TypeOK
    <2>3. CASE after \in {"main", "start", "await"}
      <3>1. pc' = after /\ UNCHANGED << todo, Decoding >>
        BY <2>3 DEF Clear
      <3>2. todo = << >> <=> after = "main"
        BY <1>1, <2>3 DEF IInv, TypeInv, DriverInv, Idles
      <3> QED BY <2>3, <3>1, <3>2 DEF Decoding, IInv, TypeInv, TypeOK
    <2> QED BY <2>1, <2>2, <2>3 DEF IInv, TypeInv, TypeOK
  <1>5. TypeOK'
    BY <1>1, <1>2, <1>4 DEF IInv, TypeInv, TypeOK, NotDriver, keyboard, user
  <1>6. DriverInv'
    BY <1>3, <1>4 DEF DriverInv, Idles
  <1>7. LineInv'
    BY <1>1, <1>3 DEF IInv, TypeInv, LineInv, NotDriver, keyboard, AtLast
  <1> QED BY <1>5, <1>6, <1>7 DEF TypeInv

LEMMA InitTypes == Init => IInv
  <1> SUFFICES ASSUME Init PROVE IInv
    OBVIOUS
  <1>1. Reset \in Controller
    BY DEF Reset, Controller, FrameBits, Bits, Bytes
  <1>2. << BAT_PASSED >> \in Seq(Bytes) /\ BAT_PASSED \in Bytes /\ << >> \in Seq(Bytes)
    BY DEF BAT_PASSED, Bytes
  <1>3. Idle \in [at : {"idle", "sending", "receiving"}, i : FrameBits, low : BOOLEAN,
                  data : Bits]
    BY DEF Idle, Line, FrameBits, Bits
  <1>4. Nothing \in [0 .. 8 -> Bits]
    BY DEF Nothing, Bits
  <1>5. TypeOK
    <2>1. ctl \in Controller /\ got \in [0 .. 8 -> Bits]
      BY <1>1, <1>4 DEF Init
    <2>2. /\ line \in [at : {"idle", "sending", "receiving"}, i : FrameBits, low : BOOLEAN,
                       data : Bits]
          /\ queue \in Seq(Bytes) /\ last \in Bytes /\ todo \in Seq(Bytes) /\ data \in Bytes
      BY <1>2, <1>3 DEF Init, Bytes
    <2>3. flips \in 0 .. MaxFlips /\ commands \in 0 .. MaxCommands
      BY BoundsAssumption DEF Init
    <2> QED BY <2>1, <2>2, <2>3 DEF Init, TypeOK
  <1>6. DriverInv /\ LineInv
    BY DEF Init, DriverInv, LineInv, Idles, Reset, Idle, Line
  <1> QED BY <1>5, <1>6, InitFrames DEF IInv, TypeInv

LEMMA NextTypes == IInv /\ [Next]_vars => IInv'
  <1> SUFFICES ASSUME IInv, [Next]_vars PROVE TypeInv'
    BY NextFrames DEF IInv
  <1>2. CASE KeyboardSteps
    BY <1>2, SendBeginsTypes, SendFallsTypes, SendRisesTypes, ReceiveBeginsTypes,
       ReceiveFallsTypes, ReceiveRisesTypes DEF KeyboardSteps
  <1>3. CASE DriverSteps
    BY <1>3, PollTypes, SendCheckTypes, SendStartTypes, AnswerTypes, SendAgainTypes, ClearTypes
    DEF DriverSteps
  <1>4. CASE UNCHANGED vars
    BY <1>4 DEF vars, keyboard, driver, user, IInv, TypeInv, TypeOK, DriverInv, LineInv, Idles,
                AtLast
  <1> QED BY <1>2, <1>3, <1>4, PressTypes, SendCommandTypes, TimerTypes DEF Next

(* Every variable has its type, whatever the user, noise and the driver do: *)
(* the queue is never empty in the middle of a frame, and send_byte always  *)
(* has a byte to send.                                                      *)
THEOREM TypeCorrect == Spec => []TypeOK
  <1>1. IInv => TypeOK
    BY DEF IInv, TypeInv
  <1> QED BY <1>1, InitTypes, NextTypes, PTL DEF Spec

---------------------------------------------------------------------------
(* Whose turn it is.  If keys are left alone, exactly one thing is under   *)
(* way between the first byte of a command and its end: a byte to the      *)
(* keyboard, its answer on the way, or the answer in the register.         *)

Asking == ctl.sendEna \/ line.at = "receiving"
Pending == IF line.at = "sending" /\ AtLast THEN Tail(queue) ELSE queue
Still == ~Asking /\ Pending = << >>
OneUnderway == IF Asking THEN Pending = << >> ELSE Len(Pending) = 1
TurnInv ==
  calm /\ todo # << >> =>
    /\ pc \in {"check", "start"} => Still /\ ~ctl.hasData
    /\ pc = "await" => IF ctl.hasData THEN Still ELSE OneUnderway
    /\ pc \in {"answer", "again"} \/ (pc = "clear" /\ after \in {"end", "start"}) => Still
    /\ pc = "clear" /\ after = "await" => OneUnderway
    /\ ctl.sendEna /\ line.at = "receiving" => ctl.dataOutEna

LEMMA SameTurn ==
  ASSUME TurnInv, UNCHANGED << pc, after, todo, calm >>,
         Asking' <=> Asking, Pending' = Pending, ctl'.hasData = ctl.hasData,
         ctl'.sendEna /\ line'.at = "receiving" => ctl'.dataOutEna
  PROVE  TurnInv'
  BY DEF TurnInv, Still, OneUnderway

LEMMA SendBeginsTurn == ASSUME IInv, TurnInv, SendBegins PROVE TurnInv'
  <1>1. /\ line.at = "idle" /\ line'.at = "sending" /\ line'.i = 0
        /\ UNCHANGED << ctl, queue, pc, after, todo, calm >>
    BY DEF SendBegins, Idle, Line, driver, user
  <1>2. (Asking' <=> Asking) /\ Pending' = Pending
    BY <1>1 DEF Asking, Pending, AtLast
  <1> QED BY <1>1, <1>2, SameTurn

(* The bit that completes a frame turns a byte on its way into one that    *)
(* waits.                                                                  *)
LEMMA SendFallsTurn == ASSUME IInv, TurnInv, SendFalls PROVE TurnInv'
  <1>1. /\ line.at = "sending" /\ ~line.low /\ line' = [line EXCEPT !.low = TRUE]
        /\ UNCHANGED << queue, pc, after, todo, calm >>
    BY DEF SendFalls, driver, user
  <1>2. line'.at = "sending" /\ line'.i = line.i /\ line'.low = TRUE /\ line.i \in 0 .. 10
    BY <1>1 DEF IInv, TypeInv, TypeOK, FrameBits
  <1>3. CASE ctl.sendEna
    <2>1. PullsClk(ctl) /\ line.i = 0
      BY <1>1, <1>3 DEF IInv, FrameInv, SendingInv, PullsClk, TypeInv, LineInv, AtLast
    <2>2. ctl' = ctl
      BY <2>1 DEF SendFalls
    <2>3. (Asking' <=> Asking) /\ Pending' = Pending
      BY <1>1, <1>2, <2>1, <2>2 DEF Asking, Pending, AtLast
    <2> QED BY <1>1, <1>2, <2>2, <2>3, SameTurn
  <1>4. CASE ~ctl.sendEna
    <2>1. ~ctl.hasData /\ ~PullsClk(ctl)
      BY <1>1, <1>4 DEF IInv, FrameInv, SendingInv, PullsClk, AtLast
    <2>2. PICK bit : ctl' = ReceivedBit(ctl, bit)
      BY <2>1, <1>4 DEF SendFalls, ClkFalls
    <2>3. /\ ctl'.sendEna = ctl.sendEna
          /\ ctl.recvCnt < 10 => ctl'.hasData = ctl.hasData
          /\ ~(ctl.recvCnt < 10) => ctl'.hasData = TRUE
      BY <2>2, ReceivedBitFields DEF IInv, FrameInv
    <2>4. ctl.recvCnt = line.i
      BY <1>1, <1>2, <1>4, <2>1 DEF IInv, FrameInv, SendingInv, Edges
    <2>5. CASE line.i < 10
      <3>1. (Asking' <=> Asking) /\ Pending' = Pending
        BY <1>1, <1>2, <2>3, <2>5 DEF Asking, Pending, AtLast
      <3> QED BY <1>1, <1>2, <2>3, <2>4, <2>5, <3>1, SameTurn
    <2>6. CASE line.i = 10
      <3>1. ctl'.hasData = TRUE /\ ~Asking' /\ ~Asking
        BY <1>1, <1>2, <1>4, <2>3, <2>4, <2>6 DEF Asking
      <3>2. Pending = queue /\ Pending' = Tail(queue) /\ queue # << >>
        BY <1>1, <1>2, <2>6 DEF Pending, AtLast, IInv, TypeInv, LineInv
      <3>3. ASSUME Len(queue) = 1 PROVE Tail(queue) = << >>
        <4>1. queue \in Seq(Bytes)
          BY DEF IInv, TypeInv, TypeOK
        <4>2. Tail(queue) \in Seq(Bytes) /\ Len(Tail(queue)) = 0
          BY <3>2, <3>3, <4>1
        <4>3. \A s \in Seq(Bytes) : Len(s) = 0 => s = << >>
          <5> SUFFICES ASSUME NEW s \in Seq(Bytes), Len(s) = 0 PROVE s = << >>
            OBVIOUS
          <5> QED BY EmptySeq
        <4> QED BY <4>2, <4>3, Zenon
      <3>4. SUFFICES ASSUME calm, todo # << >> PROVE TurnInv'
        BY <1>1 DEF TurnInv
      <3>5. pc = "await"
        <4>1. ~(pc \in {"answer", "again", "clear"})
          BY <2>1 DEF IInv, TypeInv, DriverInv
        <4>2. ~(pc \in {"check", "start"})
          BY <3>2, <3>4 DEF TurnInv, Still
        <4>3. ~(pc \in {"main", "read", "repeat"})
          BY <3>4 DEF IInv, TypeInv, DriverInv, Idles
        <4> QED BY <4>1, <4>2, <4>3 DEF IInv, TypeInv, TypeOK
      <3>6. Pending' = << >>
        BY <2>1, <3>1, <3>2, <3>3, <3>4, <3>5 DEF TurnInv, OneUnderway
      <3> QED BY <1>1, <1>2, <3>1, <3>5, <3>6 DEF TurnInv, Still
    <2> QED BY <1>2, <2>5, <2>6
  <1> QED BY <1>3, <1>4

LEMMA SendRisesTurn == ASSUME IInv, TurnInv, SendRises PROVE TurnInv'
  <1>1. /\ line.at = "sending" /\ line.low /\ line'.at \in {"idle", "sending"}
        /\ line'.at = "sending" => ~line'.low
        /\ UNCHANGED << ctl, pc, after, todo, calm >>
        /\ line.i = 10 => line'.at = "idle" /\ queue' = Tail(queue)
        /\ line.i # 10 => queue' = queue
    BY DEF SendRises, Idle, Line, driver, user
  <1>2. (Asking' <=> Asking) /\ Pending' = Pending
    BY <1>1 DEF Asking, Pending, AtLast
  <1> QED BY <1>1, <1>2, SameTurn

LEMMA ReceiveBeginsTurn == ASSUME IInv, TurnInv, ReceiveBegins PROVE TurnInv'
  <1>1. /\ line.at = "idle" /\ line'.at = "receiving" /\ ctl.dataOutEna
        /\ UNCHANGED << ctl, queue, pc, after, todo, calm >>
    BY DEF ReceiveBegins, Idle, Line, driver, user, PullsData
  <1>2. (Asking' <=> Asking) /\ Pending' = Pending
    BY <1>1 DEF Asking, Pending, IInv, FrameInv, SenderInv
  <1> QED BY <1>1, <1>2, SameTurn

LEMMA ReceiveFallsTurn == ASSUME IInv, TurnInv, ReceiveFalls PROVE TurnInv'
  <1>1. /\ line.at = "receiving" /\ ~line.low /\ line' = [line EXCEPT !.low = TRUE]
        /\ UNCHANGED << queue, pc, after, todo, calm >>
        /\ ctl' = ClkFalls(ctl, DataBit(ctl, line))
    BY DEF ReceiveFalls, driver, user
  <1>2. line'.at = "receiving"
    BY <1>1 DEF IInv, TypeInv, TypeOK
  <1>3. ctl.sendEna /\ ctl.dataOutEna
    BY <1>1 DEF IInv, FrameInv, ReceivingInv, SenderInv, AtLast
  <1>4. ctl' = SentBit(ctl, DataBit(ctl, line))
    BY <1>1, <1>3 DEF ClkFalls
  <1>5. ctl'.hasData = ctl.hasData /\ (ctl'.sendEna => ctl'.dataOutEna)
    BY <1>3, <1>4, SentBitFields DEF IInv, FrameInv
  <1>6. (Asking' <=> Asking) /\ Pending' = Pending
    BY <1>1, <1>2 DEF Asking, Pending
  <1> QED BY <1>1, <1>5, <1>6, SameTurn

LEMMA ReceiveRisesTurn == ASSUME IInv, TurnInv, ReceiveRises PROVE TurnInv'
  <1>1. /\ line.at = "receiving" /\ line.low
        /\ UNCHANGED << ctl, last, pc, after, todo, calm >>
        /\ queue' = IF line.i = 10 THEN Answered(got) \o queue ELSE queue
        /\ line.i = 10 => line'.at = "idle"
        /\ line.i # 10 => line'.at = "receiving"
    BY DEF ReceiveRises, Idle, Line, driver, user
  <1>2. CASE line.i # 10
    <2>1. ctl.dataOutEna
      BY <1>1, <1>2 DEF IInv, FrameInv, ReceivingInv, AtLast
    <2>2. (Asking' <=> Asking) /\ Pending' = Pending
      BY <1>1, <1>2 DEF Asking, Pending
    <2> QED BY <1>1, <2>1, <2>2, SameTurn
  <1>3. CASE line.i = 10
    <2>1. SUFFICES ASSUME calm, todo # << >> PROVE TurnInv'
      BY <1>1 DEF TurnInv
    <2>2. ~ctl.dataOutEna
      BY <1>1, <1>3 DEF IInv, FrameInv, ReceivingInv, Edges, Shape, FrameBits
    <2>3. ~ctl.sendEna /\ Asking
      BY <1>1, <2>1, <2>2 DEF TurnInv, Asking
    <2>4. ~Asking' /\ Pending' = queue' /\ Pending = queue
      BY <1>1, <1>3, <2>3 DEF Asking, Pending
    <2>5. ~Still
      BY <2>3 DEF Still
    <2>6. OneUnderway => Len(queue') = 1
      <3>1. Len(Answered(got)) = 1
        BY DEF Answered
      <3>2. Answered(got) \o << >> = Answered(got)
        BY DEF Answered
      <3> QED BY <1>1, <1>3, <2>3, <2>4, <3>1, <3>2 DEF OneUnderway
    <2>7. OneUnderway => OneUnderway'
      BY <2>4, <2>6 DEF OneUnderway
    <2> QED BY <1>1, <1>3, <2>1, <2>3, <2>5, <2>7 DEF TurnInv
  <1> QED BY <1>2, <1>3

LEMMA TimerTurn == ASSUME IInv, TurnInv, Timer PROVE TurnInv'
  <1>1. /\ UNCHANGED << line, queue, pc, after, todo, calm >> /\ line.at = "idle"
        /\ ctl'.sendEna = ctl.sendEna /\ ctl'.hasData = ctl.hasData
    BY DEF Timer, RequestEnds, Idle, Line, keyboard, driver, user, IInv, FrameInv, Shape
  <1>2. (Asking' <=> Asking) /\ Pending' = Pending
    BY <1>1 DEF Asking, Pending
  <1> QED BY <1>1, <1>2, SameTurn

LEMMA UserTurn == ASSUME IInv, TurnInv, Press \/ SendCommand PROVE TurnInv'
  <1>1. CASE Press
    BY <1>1 DEF Press, TurnInv, driver
  <1>2. CASE SendCommand
    <2>1. /\ pc = "main" /\ pc' = "check"
          /\ UNCHANGED << ctl, line, queue, calm >>
          /\ calm => line = Idle /\ queue = << >> /\ ~ctl.hasData
      BY <1>2 DEF SendCommand, Goes, NotDriver, keyboard, user
    <2>2. ~ctl.sendEna
      BY <2>1 DEF IInv, TypeInv, DriverInv
    <2> QED BY <2>1, <2>2 DEF TurnInv, Still, Asking, Pending, Idle, Line
  <1> QED BY <1>1, <1>2

LEMMA PollTurn == ASSUME IInv, TurnInv, PollStatus \/ PollData \/ PollRepeat PROVE TurnInv'
  <1>1. todo = << >>
    BY DEF PollStatus, PollData, PollRepeat, Goes, IInv, TypeInv, DriverInv, Idles
  <1>2. todo' = todo
    BY DEF PollStatus, PollData, PollRepeat
  <1> QED BY <1>1, <1>2 DEF TurnInv

LEMMA SendTurn ==
  ASSUME IInv, TurnInv, SendCheck \/ SendAwait \/ SendAnswer PROVE TurnInv'
  <1>1. UNCHANGED << ctl, line, queue, calm >> /\ ~ctl.sendEna
    BY DEF SendCheck, SendAwait, SendAnswer, NotDriver, keyboard, user, Rdy
  <1>2. (Asking' <=> Asking) /\ (Still' <=> Still)
    BY <1>1 DEF Asking, Still, Pending, AtLast
  <1>3. CASE SendCheck
    <2>1. pc = "check" /\ (ctl.hasData \/ (pc' = "start" /\ todo' = todo))
      BY <1>3 DEF SendCheck
    <2>2. todo # << >>
      BY <2>1 DEF IInv, TypeInv, DriverInv, Idles
    <2> QED BY <1>1, <1>2, <2>1, <2>2 DEF TurnInv
  <1>4. CASE SendAwait
    <2>1. pc = "await" /\ pc' \in {"answer", "again"} /\ ctl.hasData /\ todo' = todo
      BY <1>4 DEF SendAwait, Goes
    <2> QED BY <1>1, <1>2, <2>1 DEF TurnInv
  <1>5. CASE SendAnswer
    <2>1. pc = "answer" /\ pc' = "clear" /\ after' \in {"end", "start"} /\ todo' = todo
      BY <1>5 DEF SendAnswer, Goes
    <2> QED BY <1>1, <1>2, <2>1 DEF TurnInv
  <1> QED BY <1>3, <1>4, <1>5

LEMMA AskTurn == ASSUME IInv, TurnInv, SendStart \/ SendAgain PROVE TurnInv'
  <1>1. PICK byte \in Bytes : Asks(byte)
    <2>1. CASE SendStart
      BY <2>1, TodoTypes DEF SendStart, Goes, Idles
    <2>2. CASE SendAgain
      BY <2>2 DEF SendAgain, RESEND, Bytes
    <2> QED BY <2>1, <2>2
  <1>2. /\ UNCHANGED << line, queue, calm, todo >> /\ UNCHANGED keyboard /\ Rdy(ctl)
        /\ \/ pc = "start" /\ pc' = "await"
           \/ pc = "again" /\ pc' = "clear" /\ after' = "await"
    BY DEF SendStart, SendAgain, Goes, NotDriver, keyboard, user
  <1>3. ctl'.sendEna = TRUE /\ ctl'.hasData = ctl.hasData
    BY <1>1, <1>2, AsksTypes
  <1>4. SUFFICES ASSUME calm, todo # << >> PROVE TurnInv'
    BY <1>2 DEF TurnInv
  <1>5. Still /\ (pc = "start" => ~ctl.hasData)
    BY <1>2, <1>4 DEF TurnInv
  <1>6. Asking' /\ Pending' = << >> /\ line'.at # "receiving"
    BY <1>2, <1>3, <1>5 DEF Still, Asking, Pending, AtLast
  <1> QED BY <1>2, <1>3, <1>5, <1>6 DEF TurnInv, OneUnderway

LEMMA ClearTurn == ASSUME IInv, TurnInv, Clear PROVE TurnInv'
  <1>1. /\ pc = "clear" /\ ~ctl.sendEna /\ UNCHANGED << line, queue, calm, after >>
        /\ ctl' = WriteStatus(ctl, line.data)
    BY DEF Clear, Rdy, NotDriver, keyboard, user
  <1>2. ~ctl'.sendEna /\ ~ctl'.hasData
    BY <1>1, WriteStatusFields DEF IInv, FrameInv
  <1>3. (Asking' <=> Asking) /\ (Still' <=> Still) /\ (OneUnderway' <=> OneUnderway)
    BY <1>1, <1>2 DEF Asking, Still, OneUnderway, Pending, AtLast
  <1>4. CASE after \in {"event", "main"}
    <2>1. todo = << >> /\ todo' = todo
      BY <1>1, <1>4 DEF Clear, IInv, TypeInv, DriverInv, Idles
    <2> QED BY <2>1 DEF TurnInv
  <1>5. CASE after = "end"
    <2>1. pc' \in {"main", "check"} /\ todo # << >> /\ (pc' = "main" => todo' = << >>)
      BY <1>1, <1>5 DEF Clear, Returns, IInv, TypeInv, DriverInv, Idles
    <2> QED BY <1>1, <1>2, <1>3, <1>5, <2>1 DEF TurnInv
  <1>6. CASE after \in {"start", "await"}
    <2>1. pc' = after /\ todo' = todo
      BY <1>6 DEF Clear
    <2> QED BY <1>1, <1>2, <1>3, <1>6, <2>1 DEF TurnInv
  <1> QED BY <1>1, <1>4, <1>5, <1>6 DEF IInv, TypeInv, TypeOK

LEMMA NextTurn == ASSUME IInv, TurnInv, [Next]_vars PROVE TurnInv'
  <1>1. CASE UNCHANGED vars
    <2>1. UNCHANGED << ctl, line, queue, pc, after, todo, calm >>
      BY <1>1 DEF vars, keyboard, driver, user
    <2> QED BY <2>1 DEF TurnInv, Still, OneUnderway, Asking, Pending, AtLast
  <1> QED
    BY <1>1, SendBeginsTurn, SendFallsTurn, SendRisesTurn, ReceiveBeginsTurn, ReceiveFallsTurn,
       ReceiveRisesTurn, TimerTurn, UserTurn, PollTurn, SendTurn, AskTurn, ClearTurn
    DEF Next, KeyboardSteps, DriverSteps

---------------------------------------------------------------------------
(* What the keyboard has heard of the byte being sent: its bits up to      *)
(* line.i, but for the one that noise turned over, e (9 is none).          *)

HeardBit(e, j) ==
  IF j = e THEN 1 - FrameBit(ctl.sendData, j + 1) ELSE FrameBit(ctl.sendData, j + 1)
Heard(e) ==
  /\ e < 9 => e < line.i /\ flips = 1
  /\ \A j \in 0 .. 8 : j < line.i => got[j] = HeardBit(e, j)
HeardInv ==
  Clean /\ line.at = "receiving" /\ ctl.dataOutEna => \E e \in 0 .. 9 : Heard(e)

(* Noise only adds up. *)
LEMMA CleanBefore ==
  ASSUME TypeOK, calm' = calm, NEW flip \in BOOLEAN,
         flips' = IF flip THEN flips + 1 ELSE flips, Clean'
  PROVE  /\ Clean
         /\ flip => flips = 0 /\ flips' = 1
  BY DEF Clean, TypeOK

LEMMA ReceiveRisesHeard == ASSUME IInv, HeardInv, ReceiveRises PROVE HeardInv'
  <1>1. PICK flip \in Noisy :
          /\ flip => line.i <= 8
          /\ flips' = IF flip THEN flips + 1 ELSE flips
          /\ got' = IF line.i > 8 THEN got
                    ELSE [got EXCEPT ![line.i] = IF flip THEN 1 - DataBit(ctl, line)
                                                 ELSE DataBit(ctl, line)]
    BY DEF ReceiveRises
  <1>2. /\ line.at = "receiving" /\ line.low /\ ctl' = ctl /\ calm' = calm
        /\ line.i = 10 => line'.at = "idle"
        /\ line.i # 10 => line'.i = line.i + 1
        /\ line.i \in 0 .. 10 /\ flip \in BOOLEAN
    BY DEF ReceiveRises, Idle, Line, user, IInv, TypeInv, TypeOK, FrameBits, Noisy
  <1>3. SUFFICES ASSUME Clean', line.i # 10, ctl.dataOutEna PROVE \E e \in 0 .. 9 : Heard(e)'
    BY <1>2 DEF HeardInv
  <1>4. Clean /\ (flip => flips = 0 /\ flips' = 1)
    BY <1>1, <1>2, <1>3, CleanBefore DEF IInv, TypeInv
  <1>5. PICK e \in 0 .. 9 : Heard(e)
    BY <1>2, <1>3, <1>4 DEF HeardInv
  <1>6. \A f, j : HeardBit(f, j)' = HeardBit(f, j)
    BY <1>2 DEF HeardBit
  <1>7. CASE line.i = 9
    <2>1. ~flip /\ flips' = flips /\ got' = got
      BY <1>1, <1>2, <1>7
    <2>2. Heard(e)'
      BY <1>2, <1>5, <1>6, <1>7, <2>1 DEF Heard
    <2> QED BY <2>2
  <1>8. CASE line.i <= 8
    <2>1. DataBit(ctl, line) = FrameBit(ctl.sendData, line.i + 1)
      <3>1. ctl.sendCnt = line.i + 1 /\ line.data = 1
        BY <1>2, <1>3, <1>8 DEF IInv, FrameInv, ReceivingInv, Edges, AtLast, TypeInv, LineInv
      <3>2. FrameBit(ctl.sendData, line.i + 1) \in Bits
        <4>1. line.i + 1 \in FrameBits /\ ctl.sendData \in Bytes
          BY <1>2, <1>8 DEF FrameBits, IInv, TypeInv, TypeOK, Controller
        <4> QED BY <4>1, BitTypes
      <3> QED BY <1>3, <3>1, <3>2 DEF DataBit, PullsData, Bits
    <2>2. /\ got'[line.i] = IF flip THEN 1 - FrameBit(ctl.sendData, line.i + 1)
                            ELSE FrameBit(ctl.sendData, line.i + 1)
          /\ \A j \in 0 .. 8 : j < line.i => got'[j] = got[j]
      <3>1. got \in [0 .. 8 -> Bits] /\ line.i \in 0 .. 8
        BY <1>2, <1>8 DEF IInv, TypeInv, TypeOK
      <3> QED BY <1>1, <1>8, <2>1, <3>1
    <2>3. \A j \in 0 .. 8 : j < line'.i => j < line.i \/ j = line.i
      BY <1>2, <1>8
    <2>4. CASE flip
      <3>1. e = 9
        BY <1>4, <1>5, <2>4 DEF Heard
      <3>2. PICK f \in 0 .. 8 : f = line.i
        BY <1>2, <1>8
      <3>3. \A j \in 0 .. 8 : j < line.i => HeardBit(e, j) = HeardBit(f, j)
        BY <1>2, <3>1, <3>2 DEF HeardBit
      <3>4. got'[f] = HeardBit(f, f)
        BY <2>2, <2>4, <3>2 DEF HeardBit
      <3>5. \A j \in 0 .. 8 : j < line'.i => got'[j] = HeardBit(f, j)'
        BY <1>5, <1>6, <2>2, <2>3, <3>2, <3>3, <3>4 DEF Heard
      <3>6. f < line'.i /\ flips' = 1 /\ f \in 0 .. 9
        BY <1>2, <1>3, <1>4, <2>4, <3>2
      <3>7. Heard(f)'
        BY <3>5, <3>6 DEF Heard
      <3> QED BY <3>6, <3>7
    <2>5. CASE ~flip
      <3>1. flips' = flips /\ e # line.i
        BY <1>1, <1>2, <1>5, <1>8, <2>5 DEF Heard
      <3>2. got'[line.i] = HeardBit(e, line.i)
        BY <2>2, <2>5, <3>1 DEF HeardBit
      <3>3. \A j \in 0 .. 8 : j < line'.i => got'[j] = HeardBit(e, j)'
        BY <1>5, <1>6, <2>2, <2>3, <3>2 DEF Heard
      <3>4. e < line.i => e < line'.i
        BY <1>2, <1>3
      <3>5. Heard(e)'
        BY <1>5, <3>1, <3>3, <3>4 DEF Heard
      <3> QED BY <3>5
    <2> QED BY <1>2, <2>4, <2>5
  <1> QED BY <1>2, <1>3, <1>7, <1>8

LEMMA ElsewhereHeard ==
  ASSUME IInv, HeardInv, Next, ~ReceiveRises
  PROVE  HeardInv'
  <1>1. CASE ReceiveBegins
    <2>1. line'.i = 0
      BY <1>1 DEF ReceiveBegins, Line
    <2>2. Heard(9)'
      BY <2>1 DEF Heard
    <2> QED BY <2>2 DEF HeardInv
  <1>2. CASE SendBegins \/ SendFalls \/ SendRises \/ Timer
    <2>1. line'.at # "receiving"
      BY <1>2 DEF SendBegins, SendFalls, SendRises, Timer, Idle, Line, keyboard, IInv, TypeInv,
                  TypeOK
    <2> QED BY <2>1 DEF HeardInv
  <1>3. CASE ReceiveFalls
    <2>1. /\ line.at = "receiving" /\ ctl.sendEna /\ ctl.dataOutEna
          /\ ctl' = ClkFalls(ctl, DataBit(ctl, line))
          /\ line' = [line EXCEPT !.low = TRUE]
          /\ UNCHANGED << got, flips, calm >>
      BY <1>3 DEF ReceiveFalls, IInv, FrameInv, ReceivingInv, SenderInv, AtLast, user
    <2>2. line'.i = line.i
      BY <2>1 DEF IInv, TypeInv, TypeOK
    <2>3. ctl'.sendData = ctl.sendData
      BY <2>1 DEF ClkFalls, SentBit, IInv, FrameInv, Shape
    <2>4. \A e : Heard(e)' <=> Heard(e)
      BY <2>1, <2>2, <2>3 DEF Heard, HeardBit
    <2> QED BY <2>1, <2>4 DEF HeardInv, Clean
  <1>4. CASE PollRepeat \/ SendStart \/ SendAgain \/ Clear
    <2>1. ~ctl.dataOutEna
      BY <1>4 DEF PollRepeat, SendStart, SendAgain, Clear, Rdy, IInv, FrameInv, SenderInv
    <2>2. CASE Clear
      <3>1. ~ctl'.dataOutEna
        BY <2>1, <2>2, WriteStatusFields DEF Clear, IInv, FrameInv
      <3> QED BY <3>1 DEF HeardInv
    <2>3. CASE PollRepeat \/ SendStart \/ SendAgain
      <3>1. PICK byte, up, bit : ctl' = WriteData(ctl, byte, up, bit)
        BY <2>3 DEF PollRepeat, SendStart, SendAgain, Asks
      <3>2. ~ctl'.dataOutEna
        BY <2>1, <3>1, WriteDataFields DEF IInv, FrameInv
      <3> QED BY <3>2 DEF HeardInv
    <2> QED BY <1>4, <2>2, <2>3
  <1>5. CASE Press \/ SendCommand \/ PollStatus \/ PollData \/ SendCheck \/ SendAwait
             \/ SendAnswer
    <2>1. UNCHANGED << ctl, line, got, flips, calm >>
      BY <1>5 DEF Press, SendCommand, PollStatus, PollData, SendCheck, SendAwait, SendAnswer,
                  NotDriver, keyboard, user
    <2>2. \A e : Heard(e)' <=> Heard(e)
      BY <2>1 DEF Heard, HeardBit
    <2> QED BY <2>1, <2>2 DEF HeardInv, Clean
  <1> QED BY <1>1, <1>2, <1>3, <1>4, <1>5 DEF Next, KeyboardSteps, DriverSteps

LEMMA NextHeard == ASSUME IInv, HeardInv, [Next]_vars PROVE HeardInv'
  <1>1. CASE UNCHANGED vars
    <2>1. UNCHANGED << ctl, line, got, flips, calm >>
      BY <1>1 DEF vars, keyboard, user
    <2>2. \A e : Heard(e)' <=> Heard(e)
      BY <2>1 DEF Heard, HeardBit
    <2> QED BY <2>1, <2>2 DEF HeardInv, Clean
  <1> QED BY <1>1, ReceiveRisesHeard, ElsewhereHeard

(* A whole byte, heard as it was sent, is intact; with one bit turned over *)
(* it is not.                                                              *)
LEMMA HeardWhole ==
  ASSUME NEW b \in Bytes, NEW g \in [0 .. 8 -> Bits], NEW e \in 0 .. 9,
         \A j \in 0 .. 8 : g[j] = IF j = e THEN 1 - FrameBit(b, j + 1) ELSE FrameBit(b, j + 1)
  PROVE  /\ e = 9 => Intact(g) /\ ByteOf(g) = b
         /\ e < 9 => ~Intact(g)
  <1> DEFINE h == [j \in 0 .. 8 |-> FrameBit(b, j + 1)]
  <1>2. \A j \in DataBits : h[j] = BitAt(b, j)
    <2>1. \A j \in DataBits : j \in 0 .. 8 /\ j + 1 \in 1 .. 8 /\ (j + 1) - 1 = j /\ j + 1 # 0
      BY DEF DataBits
    <2> QED BY <2>1 DEF FrameBit
  <1>3. h[8] = OddParity(b)
    BY DEF FrameBit
  <1>4. \A j \in 0 .. 8 : h[j] \in Bits
    <2>1. \A j \in 0 .. 8 : j + 1 \in FrameBits
      BY DEF FrameBits
    <2> QED BY <2>1, BitTypes
  <1>5. \A j \in 0 .. 8 : g[j] = IF j = e THEN 1 - h[j] ELSE h[j]
    OBVIOUS
  <1> HIDE DEF h
  <1>6. \A j \in DataBits : j \in 0 .. 8
    BY DEF DataBits
  <1>7. ByteOf(h) = b
    BY <1>2, Together
  <1>8. h[8] = Odd(h)
    BY <1>3, <1>4, <1>6, <1>7, ParityOf
  <1>9. ASSUME e = 9 PROVE Intact(g) /\ ByteOf(g) = b
    <2>1. \A j \in 0 .. 8 : g[j] = h[j]
      BY <1>5, <1>9
    <2>2. ByteOf(g) = b
      BY <1>2, <1>6, <2>1, Together
    <2> QED BY <1>3, <2>1, <2>2 DEF Intact
  <1>10. ASSUME e < 9 PROVE ~Intact(g)
    <2>1. g[8] # Odd(g)
      <3>1. e \in 0 .. 8
        BY <1>10
      <3> QED BY <1>4, <1>5, <1>8, <3>1, OneFlip
    <2>2. OddParity(ByteOf(g)) = Odd(g)
      BY <1>6, ParityOf
    <2> QED BY <2>1, <2>2 DEF Intact
  <1> QED BY <1>9, <1>10

---------------------------------------------------------------------------
(* What became of the byte while the keyboard has not taken it.            *)

Holds(byte) == \A j \in FrameBits : ctl.reg[j] = FrameBit(byte, j)
Clocked(byte) == \A j \in FrameBits : j < Edges => ctl.reg[11 - Edges + j] = FrameBit(byte, j)
Repeating == calm /\ flips = 1
OnItsWay ==       \* the byte
  /\ ctl.sendEna /\ ctl.sendData = Head(todo)
  /\ line.at = "receiving" /\ ctl.dataOutEna /\ line.i >= 9 => ~Intact(got) /\ flips = 1
HeardWrong ==
  Repeating /\ ~ctl.sendEna /\ line.at = "receiving" /\ ~Intact(got)
ComesBack ==      \* RESEND
  /\ Repeating /\ ~Asking /\ ~ctl.hasData /\ queue = << RESEND >>
  /\ line.at = "sending" => ~AtLast /\ Clocked(RESEND)
CameBack ==
  Repeating /\ ~ctl.sendEna /\ ctl.hasData /\ Holds(RESEND)
TakenInv ==
  Clean /\ ~took =>
    /\ pc # "again" /\ ~(pc = "clear" /\ after \in {"end", "await"})
    /\ pc = "answer" => Repeating /\ Holds(RESEND)
    /\ pc = "await" => OnItsWay \/ HeardWrong \/ ComesBack \/ CameBack
FullInv == IInv /\ TurnInv /\ HeardInv /\ TakenInv

(* In a state that is not clean, or where the byte was taken, nothing is   *)
(* left to show.                                                           *)
LEMMA KeyboardStepTaken ==
  ASSUME TakenInv, UNCHANGED << pc, after, todo >>, Clean' => Clean, ~took' => ~took,
         Clean' /\ ~took' /\ pc = "answer" => Repeating' /\ Holds(RESEND)',
         Clean' /\ ~took' /\ pc = "await" =>
           OnItsWay' \/ HeardWrong' \/ ComesBack' \/ CameBack'
  PROVE  TakenInv'
  BY DEF TakenInv

LEMMA SendBeginsTaken == ASSUME FullInv, SendBegins PROVE TakenInv'
  <1>1. /\ line.at = "idle" /\ line'.at = "sending" /\ line'.i = 0 /\ line'.low = FALSE
        /\ UNCHANGED << ctl, queue, got, pc, after, todo, calm, took, flips >>
        /\ ~PullsClk(ctl) /\ ~PullsData(ctl)
    BY DEF SendBegins, Idle, Line, driver, user, ClkLow
  <1>2. ~ctl.sendEna
    <2>1. ~ctl.dataOutEna
      BY <1>1 DEF FullInv, IInv, FrameInv, IdleInv, PullsData, FrameBit
    <2> QED BY <1>1, <2>1 DEF PullsClk
  <1>3. (Clean' <=> Clean) /\ (Repeating' <=> Repeating) /\ (Holds(RESEND)' <=> Holds(RESEND))
    BY <1>1 DEF Clean, Repeating, Holds
  <1>4. Edges' = 0 /\ ~AtLast'
    BY <1>1 DEF Edges, AtLast
  <1>5. Clocked(RESEND)'
    BY <1>4 DEF Clocked, FrameBits
  <1>6. ~OnItsWay /\ ~HeardWrong
    BY <1>1, <1>2 DEF OnItsWay, HeardWrong
  <1>7. ComesBack => ComesBack'
    BY <1>1, <1>3, <1>4, <1>5 DEF ComesBack, Asking
  <1>8. CameBack => CameBack'
    BY <1>1, <1>3 DEF CameBack
  <1> QED BY <1>1, <1>3, <1>6, <1>7, <1>8, KeyboardStepTaken DEF FullInv, TakenInv

(* The register takes the bits of the RESEND one by one. *)
LEMMA ClockedOn ==
  ASSUME TypeOK, NEW byte, ~ctl.hasData, Clocked(byte), Edges = line.i, line.i \in 0 .. 10,
         ctl'.reg = Shifted(ctl, FrameBit(byte, line.i)), Edges' = line.i + 1
  PROVE  Clocked(byte)' /\ (line.i = 10 => Holds(byte)')
  <1>1. \A k \in FrameBits : ctl'.reg[k] = IF k = 10 THEN FrameBit(byte, line.i)
                                           ELSE ctl.reg[k + 1]
    BY DEF Shifted
  <1>2. ASSUME NEW j \in FrameBits, j < line.i + 1
        PROVE  ctl'.reg[11 - (line.i + 1) + j] = FrameBit(byte, j)
    <2>1. CASE j = line.i
      <3>1. 11 - (line.i + 1) + j = 10 /\ 10 \in FrameBits
        BY <2>1 DEF FrameBits
      <3> QED BY <1>1, <2>1, <3>1
    <2>2. CASE j < line.i
      <3>1. /\ 11 - (line.i + 1) + j \in FrameBits /\ 11 - (line.i + 1) + j # 10
            /\ (11 - (line.i + 1) + j) + 1 = 11 - Edges + j
        BY <2>2 DEF FrameBits
      <3>2. ctl.reg[11 - Edges + j] = FrameBit(byte, j)
        BY <2>2 DEF Clocked
      <3> QED BY <1>1, <3>1, <3>2
    <2> QED BY <1>2, <2>1, <2>2 DEF FrameBits
  <1>3. Clocked(byte)'
    BY <1>2 DEF Clocked
  <1>4. ASSUME line.i = 10 PROVE Holds(byte)'
    <2>1. \A j \in FrameBits : j < line.i + 1 /\ 11 - (line.i + 1) + j = j
      BY <1>4 DEF FrameBits
    <2> QED BY <1>2, <2>1 DEF Holds
  <1> QED BY <1>3, <1>4

LEMMA SendFallsTaken == ASSUME FullInv, SendFalls PROVE TakenInv'
  <1>1. PICK flip \in Noisy :
          /\ ctl' = IF PullsClk(ctl) THEN ctl
                    ELSE ClkFalls(ctl, IF flip THEN 1 - line.data ELSE line.data)
          /\ flips' = IF flip THEN flips + 1 ELSE flips
    BY DEF SendFalls
  <1>2. /\ line.at = "sending" /\ ~line.low /\ line' = [line EXCEPT !.low = TRUE]
        /\ UNCHANGED << queue, got, pc, after, todo, calm, took >> /\ flip \in BOOLEAN
    BY DEF SendFalls, driver, user, Noisy
  <1>3. /\ line'.at = "sending" /\ line'.i = line.i /\ line'.low = TRUE /\ line.i \in 0 .. 10
    BY <1>2 DEF FullInv, IInv, TypeInv, TypeOK, FrameBits
  <1>4. Clean' => Clean /\ (flip => flips = 0 /\ flips' = 1)
    BY <1>1, <1>2, CleanBefore DEF FullInv, IInv, TypeInv
  <1>5. ASSUME Clean', Repeating PROVE ~flip /\ flips' = flips /\ Repeating'
    BY <1>1, <1>2, <1>4, <1>5 DEF Repeating
  <1>6. ~ctl.sendEna => ~ctl.hasData
    BY <1>2 DEF FullInv, IInv, FrameInv, SendingInv, AtLast
  <1>7. pc # "answer"
    BY <1>6 DEF FullInv, IInv, TypeInv, DriverInv
  <1>8. ~HeardWrong /\ ~CameBack
    BY <1>2, <1>6 DEF HeardWrong, CameBack
  <1>9. ASSUME OnItsWay PROVE OnItsWay'
    <2>1. PullsClk(ctl)
      BY <1>2, <1>9 DEF OnItsWay, FullInv, IInv, FrameInv, SendingInv, PullsClk
    <2> QED BY <1>1, <1>2, <1>3, <1>9, <2>1 DEF OnItsWay
  <1>10. ASSUME ComesBack, Clean' PROVE ComesBack' \/ CameBack'
    <2>1. Repeating /\ ~ctl.sendEna /\ ~ctl.hasData /\ queue = << RESEND >> /\ Clocked(RESEND)
      BY <1>2, <1>10 DEF ComesBack, Asking
    <2>2. ~flip /\ Repeating'
      BY <1>5, <1>10, <2>1
    <2>3. ctl' = ReceivedBit(ctl, line.data)
      BY <1>1, <2>1, <2>2 DEF PullsClk, ClkFalls
    <2>4. /\ ctl'.sendEna = ctl.sendEna
          /\ ctl.recvCnt < 10 => ctl'.hasData = ctl.hasData
          /\ ~(ctl.recvCnt < 10) => ctl'.hasData = TRUE
      BY <2>3, ReceivedBitFields DEF FullInv, IInv, FrameInv
    <2>5. ctl'.reg = Shifted(ctl, line.data)
      BY <2>3 DEF ReceivedBit, FullInv, IInv, FrameInv, Shape
    <2>6. line.data = FrameBit(RESEND, line.i)
      BY <1>2, <2>1 DEF FullInv, IInv, TypeInv, LineInv
    <2>7. ctl.recvCnt = line.i /\ Edges = line.i /\ Edges' = line.i + 1
      BY <1>2, <1>3, <2>1 DEF FullInv, IInv, FrameInv, SendingInv, Edges
    <2>8. Clocked(RESEND)' /\ (line.i = 10 => Holds(RESEND)')
      BY <1>3, <2>1, <2>5, <2>6, <2>7, ClockedOn DEF FullInv, IInv, TypeInv
    <2>9. CASE line.i = 10
      BY <2>1, <2>2, <2>4, <2>7, <2>8, <2>9 DEF CameBack
    <2>10. CASE line.i < 10
      BY <1>2, <1>3, <2>1, <2>2, <2>4, <2>7, <2>8, <2>10 DEF ComesBack, Asking, AtLast
    <2> QED BY <1>3, <2>9, <2>10
  <1> QED BY <1>2, <1>4, <1>7, <1>8, <1>9, <1>10, KeyboardStepTaken DEF FullInv, TakenInv

LEMMA SendRisesTaken == ASSUME FullInv, SendRises PROVE TakenInv'
  <1>1. /\ line.at = "sending" /\ line.low /\ line'.at \in {"idle", "sending"}
        /\ UNCHANGED << ctl, got, pc, after, todo, calm, took, flips >>
    BY DEF SendRises, Idle, Line, driver, user
  <1>2. (Clean' <=> Clean) /\ (Repeating' <=> Repeating) /\ (Holds(RESEND)' <=> Holds(RESEND))
    BY <1>1 DEF Clean, Repeating, Holds
  <1>3. ~HeardWrong
    BY <1>1 DEF HeardWrong
  <1>4. OnItsWay => OnItsWay'
    BY <1>1 DEF OnItsWay
  <1>5. CameBack => CameBack'
    BY <1>1, <1>2 DEF CameBack
  <1>6. ASSUME ComesBack PROVE ComesBack'
    <2>1. line.i # 10 /\ ~PullsClk(ctl)
      BY <1>1, <1>6 DEF ComesBack, AtLast, Asking, PullsClk
    <2>2. queue' = queue /\ line'.at = "sending" /\ line'.i = line.i + 1 /\ line'.low = FALSE
      BY <2>1 DEF SendRises, Line
    <2>3. Edges' = Edges
      BY <1>1, <2>2 DEF Edges, FullInv, IInv, TypeInv, TypeOK, FrameBits
    <2>4. Clocked(RESEND)' <=> Clocked(RESEND)
      BY <1>1, <2>3 DEF Clocked
    <2> QED BY <1>1, <1>2, <1>6, <2>2, <2>4 DEF ComesBack, Asking, AtLast
  <1> QED BY <1>1, <1>2, <1>3, <1>4, <1>5, <1>6, KeyboardStepTaken DEF FullInv, TakenInv

LEMMA ReceiveBeginsTaken == ASSUME FullInv, ReceiveBegins PROVE TakenInv'
  <1>1. /\ line'.at = "receiving" /\ line'.i = 0 /\ ctl.dataOutEna
        /\ UNCHANGED << ctl, pc, after, todo, calm, took, flips >>
    BY DEF ReceiveBegins, Line, driver, user, PullsData
  <1>2. ctl.sendEna
    BY <1>1 DEF FullInv, IInv, FrameInv, SenderInv
  <1>3. (Clean' <=> Clean) /\ (Repeating' <=> Repeating) /\ (Holds(RESEND)' <=> Holds(RESEND))
    BY <1>1 DEF Clean, Repeating, Holds
  <1>4. ~HeardWrong /\ ~ComesBack /\ ~CameBack
    BY <1>2 DEF HeardWrong, ComesBack, CameBack, Asking
  <1>5. OnItsWay => OnItsWay'
    BY <1>1 DEF OnItsWay
  <1> QED BY <1>1, <1>3, <1>4, <1>5, KeyboardStepTaken DEF FullInv, TakenInv

LEMMA ReceiveFallsTaken == ASSUME FullInv, ReceiveFalls PROVE TakenInv'
  <1>1. /\ line.at = "receiving" /\ ~line.low /\ line' = [line EXCEPT !.low = TRUE]
        /\ ctl' = ClkFalls(ctl, DataBit(ctl, line))
        /\ UNCHANGED << queue, got, pc, after, todo, calm, took, flips >>
    BY DEF ReceiveFalls, driver, user
  <1>2. line'.at = "receiving" /\ line'.i = line.i /\ line.i \in 0 .. 10
    BY <1>1 DEF FullInv, IInv, TypeInv, TypeOK, FrameBits
  <1>3. ctl.sendEna /\ ctl.dataOutEna /\ ctl.sendCnt = line.i
    BY <1>1, <1>2 DEF FullInv, IInv, FrameInv, ReceivingInv, SenderInv, AtLast, Edges
  <1>4. ctl' = SentBit(ctl, DataBit(ctl, line))
    BY <1>1, <1>3 DEF ClkFalls
  <1>5. /\ ctl.sendCnt < 10 => ctl'.sendEna = ctl.sendEna
        /\ ~(ctl.sendCnt < 10) => ~ctl'.sendEna
    BY <1>4, SentBitFields DEF FullInv, IInv, FrameInv
  <1>6. ctl'.sendData = ctl.sendData
    BY <1>4 DEF SentBit, FullInv, IInv, FrameInv, Shape
  <1>7. (Clean' <=> Clean) /\ (Repeating' <=> Repeating) /\ (Intact(got)' <=> Intact(got))
    BY <1>1 DEF Clean, Repeating, Intact
  <1>8. ~HeardWrong /\ ~ComesBack /\ ~CameBack
    BY <1>3 DEF HeardWrong, ComesBack, CameBack, Asking
  <1>9. ~(pc = "answer")
    BY <1>3 DEF FullInv, IInv, TypeInv, DriverInv
  <1>10. ASSUME OnItsWay, Clean PROVE OnItsWay' \/ HeardWrong'
    <2>1. CASE line.i < 10
      BY <1>1, <1>2, <1>3, <1>5, <1>6, <1>7, <1>10, <2>1 DEF OnItsWay
    <2>2. CASE line.i = 10
      <3>1. ~Intact(got) /\ flips = 1 /\ ~ctl'.sendEna
        BY <1>1, <1>3, <1>5, <1>10, <2>2 DEF OnItsWay
      <3>2. Repeating
        BY <1>10, <3>1 DEF Repeating, Clean
      <3> QED BY <1>2, <1>7, <3>1, <3>2 DEF HeardWrong
    <2> QED BY <1>2, <2>1, <2>2
  <1> QED BY <1>1, <1>7, <1>8, <1>9, <1>10, KeyboardStepTaken DEF FullInv, TakenInv

LEMMA ReceiveRisesTaken == ASSUME FullInv, HeardInv', TypeOK', ReceiveRises PROVE TakenInv'
  <1>1. PICK flip \in Noisy :
          /\ flip => line.i <= 8
          /\ flips' = IF flip THEN flips + 1 ELSE flips
          /\ line.i > 8 => got' = got
    BY DEF ReceiveRises
  <1>2. /\ line.at = "receiving" /\ line.low
        /\ line' = IF line.i = 10 THEN Idle
                   ELSE Line("receiving", line.i + 1, FALSE, IF line.i = 9 THEN 0 ELSE 1)
        /\ queue' = IF line.i = 10 THEN Answered(got) \o queue ELSE queue
        /\ took' = (took \/ (/\ line.i = 8 /\ Intact(got') /\ todo # << >>
                             /\ ByteOf(got') = Head(todo)))
        /\ UNCHANGED << ctl, pc, after, todo, calm >>
        /\ line.i \in 0 .. 10 /\ flip \in BOOLEAN
    BY DEF ReceiveRises, driver, user, Noisy, FullInv, IInv, TypeInv, TypeOK, FrameBits
  <1>3. /\ line.i = 10 => line'.at = "idle"
        /\ line.i # 10 => line'.at = "receiving" /\ line'.i = line.i + 1
    BY <1>2 DEF Idle, Line
  <1>4. Clean' => Clean /\ (flip => flips = 0 /\ flips' = 1)
    BY <1>1, <1>2, CleanBefore DEF FullInv, IInv, TypeInv
  <1>5. SUFFICES ASSUME Clean', ~took' PROVE TakenInv'
    BY DEF TakenInv
  <1>6. Clean /\ ~took
    BY <1>2, <1>4, <1>5
  <1>7. Asking
    BY <1>2 DEF Asking
  <1>8. ASSUME Repeating, pc \in {"answer", "await"} PROVE pc = "await" /\ ~ctl.hasData /\ queue = << >>
    <2>1. calm /\ todo # << >>
      BY <1>8 DEF Repeating, FullInv, IInv, TypeInv, DriverInv, Idles
    <2>2. Pending = queue /\ ~Still
      BY <1>2, <1>7 DEF Pending, Still
    <2> QED BY <1>7, <1>8, <2>1, <2>2 DEF FullInv, TurnInv, OneUnderway
  <1>9. pc # "answer" /\ (pc = "await" => OnItsWay \/ HeardWrong)
    BY <1>6, <1>7, <1>8 DEF FullInv, TakenInv, ComesBack, CameBack
  <1>10. ASSUME pc = "await", OnItsWay PROVE OnItsWay'
    <2>1. ctl'.sendEna /\ ctl'.sendData = Head(todo')
      BY <1>2, <1>10 DEF OnItsWay
    <2>2. SUFFICES ASSUME line'.at = "receiving", ctl.dataOutEna, line'.i >= 9
                   PROVE  ~Intact(got') /\ flips' = 1
      BY <1>2, <2>1 DEF OnItsWay
    <2>3. line.i = 8 \/ line.i = 9
      <3>1. line.i # 10 /\ line'.i = line.i + 1
        BY <1>3, <2>2
      <3>2. line.i \in 0 .. 10
        BY <1>2
      <3> QED BY <2>2, <3>1, <3>2
    <2>4. CASE line.i = 9
      BY <1>1, <1>2, <1>10, <2>2, <2>4 DEF OnItsWay
    <2>5. CASE line.i = 8
      <3>1. PICK e \in 0 .. 9 : Heard(e)'
        BY <1>2, <1>5, <2>2 DEF HeardInv
      <3>2. \A j \in 0 .. 8 : j < line'.i
        BY <1>3, <2>5
      <3>3. \A j \in 0 .. 8 : got'[j] = HeardBit(e, j)'
        BY <3>1, <3>2 DEF Heard
      <3>4. /\ e = 9 => Intact(got') /\ ByteOf(got') = ctl.sendData
            /\ e < 9 => ~Intact(got')
        <4>1. ctl.sendData \in Bytes /\ got' \in [0 .. 8 -> Bits]
          BY DEF FullInv, IInv, TypeInv, TypeOK, Controller
        <4>2. \A j \in 0 .. 8 :
                got'[j] = IF j = e THEN 1 - FrameBit(ctl.sendData, j + 1)
                          ELSE FrameBit(ctl.sendData, j + 1)
          BY <1>2, <3>3 DEF HeardBit
        <4> QED BY <4>1, <4>2, HeardWhole
      <3>5. e # 9
        <4>1. todo # << >>
          BY <1>10 DEF FullInv, IInv, TypeInv, DriverInv, Idles
        <4>2. ctl.sendData = Head(todo)
          BY <1>10 DEF OnItsWay
        <4> QED BY <1>2, <1>5, <2>5, <3>4, <4>1, <4>2
      <3>6. flips' = 1
        BY <3>1, <3>5 DEF Heard
      <3> QED BY <3>4, <3>5, <3>6
    <2> QED BY <2>3, <2>4, <2>5
  <1>11. ASSUME pc = "await", HeardWrong PROVE ComesBack'
    <2>1. line.i = 10 /\ ~Intact(got) /\ Repeating /\ ~ctl.sendEna
      BY <1>2, <1>11 DEF HeardWrong, FullInv, IInv, FrameInv, ReceivingInv, SenderInv, AtLast
    <2>2. ~ctl.hasData /\ queue = << >>
      BY <1>8, <1>11, <2>1
    <2>3. queue' = << RESEND >>
      <3>1. Answered(got) = << RESEND >>
        BY <2>1 DEF Answered
      <3> QED BY <1>2, <2>1, <2>2, <3>1
    <2>4. flips' = flips /\ Repeating'
      BY <1>1, <1>2, <2>1 DEF Repeating
    <2> QED BY <1>2, <1>3, <2>1, <2>2, <2>3, <2>4 DEF ComesBack, Asking
  <1> QED BY <1>2, <1>6, <1>9, <1>10, <1>11 DEF FullInv, TakenInv

LEMMA TimerTaken == ASSUME FullInv, Timer PROVE TakenInv'
  <1>1. /\ UNCHANGED << line, queue, got, pc, after, todo, calm, took, flips >> /\ line.at = "idle"
        /\ ctl'.sendEna = ctl.sendEna /\ ctl'.sendData = ctl.sendData /\ ctl.sendEna
    BY DEF Timer, RequestEnds, Idle, Line, keyboard, driver, user, FullInv, IInv, FrameInv, Shape
  <1>2. (Clean' <=> Clean) /\ pc # "answer"
    BY <1>1 DEF Clean, FullInv, IInv, TypeInv, DriverInv
  <1>3. ~HeardWrong /\ ~ComesBack /\ ~CameBack
    BY <1>1 DEF HeardWrong, ComesBack, CameBack, Asking
  <1>4. OnItsWay => OnItsWay'
    BY <1>1 DEF OnItsWay
  <1> QED BY <1>1, <1>2, <1>3, <1>4, KeyboardStepTaken DEF FullInv, TakenInv

(* While a command is out keys are left alone, or there is no noise. *)
LEMMA PressTaken == ASSUME FullInv, Press PROVE TakenInv'
  <1>1. /\ UNCHANGED << ctl, line, got, pc, after, todo, calm, took, flips >>
        /\ calm => todo = << >>
    BY DEF Press, driver
  <1>2. pc \in {"answer", "await"} => ~Repeating
    BY <1>1 DEF Repeating, FullInv, IInv, TypeInv, DriverInv, Idles
  <1>3. Clean' <=> Clean
    BY <1>1 DEF Clean
  <1>4. OnItsWay => OnItsWay'
    BY <1>1 DEF OnItsWay
  <1> QED BY <1>1, <1>2, <1>3, <1>4, KeyboardStepTaken
          DEF FullInv, TakenInv, HeardWrong, ComesBack, CameBack

(* A register that holds a RESEND is valid, and its byte no ACK. *)
LEMMA ResendHeld ==
  ASSUME TypeOK, Holds(RESEND) PROVE RecvByte(ctl) = RESEND /\ RecvValid(ctl)
  <1> DEFINE bits == [i \in DataBits |-> ctl.reg[i + 1]]
  <1>1. RESEND \in Bytes
    BY DEF RESEND, Bytes
  <1>2. \A j \in DataBits : bits[j] = BitAt(RESEND, j)
    <2>1. \A j \in DataBits :
              j + 1 \in FrameBits /\ j + 1 \in 1 .. 8 /\ j + 1 # 0 /\ (j + 1) - 1 = j
      BY DEF DataBits, FrameBits
    <2> QED BY <2>1 DEF Holds, FrameBit
  <1> HIDE DEF bits
  <1>3. ByteOf(bits) = RESEND
    BY <1>1, <1>2, Together
  <1>4. RecvByte(ctl) = RESEND
    BY <1>3 DEF bits, RecvByte
  <1>5. ctl.reg[9] = OddParity(RESEND)
    BY DEF Holds, FrameBit, FrameBits
  <1> QED BY <1>4, <1>5 DEF RecvValid

LEMMA DriverTaken == ASSUME FullInv, DriverSteps \/ SendCommand PROVE TakenInv'
  <1>1. CASE PollStatus \/ PollData \/ PollRepeat \/ SendCommand \/ SendCheck
    <2>1. /\ pc' \notin {"answer", "again", "await"}
          /\ pc' = "clear" => after' \in {"event", "main"}
      BY <1>1 DEF PollStatus, PollData, PollRepeat, SendCommand, SendCheck, Goes, Returns
    <2> QED BY <2>1 DEF TakenInv
  <1>2. CASE SendStart
    <2>1. /\ pc = "start" /\ pc' = "await" /\ Rdy(ctl) /\ Asks(Head(todo)) /\ todo' = todo
          /\ UNCHANGED keyboard /\ Head(todo) \in Bytes
      BY <1>2, TodoTypes DEF SendStart, Goes, NotDriver, Idles, FullInv
    <2>2. ctl'.sendEna = TRUE /\ ctl'.dataOutEna = ctl.dataOutEna /\ ctl'.sendData = Head(todo)
      BY <2>1, AsksTypes DEF FullInv
    <2>3. ~ctl.dataOutEna
      BY <2>1 DEF Rdy, FullInv, IInv, FrameInv, SenderInv
    <2>4. OnItsWay'
      BY <2>1, <2>2, <2>3 DEF OnItsWay
    <2> QED BY <2>1, <2>4 DEF TakenInv
  <1>3. CASE SendAwait
    <2>1. /\ pc = "await" /\ pc' = (IF RecvValid(ctl) THEN "answer" ELSE "again")
          /\ ctl.hasData /\ ~ctl.sendEna
          /\ UNCHANGED << ctl, line, calm, took, flips, todo, after >>
      BY <1>3 DEF SendAwait, Goes, Rdy, NotDriver, keyboard, user
    <2>2. SUFFICES ASSUME Clean', ~took' PROVE TakenInv'
      BY DEF TakenInv
    <2>3. Clean /\ ~took
      BY <2>1, <2>2 DEF Clean
    <2>4. ~OnItsWay /\ ~ComesBack
      BY <2>1 DEF OnItsWay, ComesBack
    <2>5. ~HeardWrong
      <3>1. ASSUME calm PROVE Still
        BY <2>1, <3>1 DEF FullInv, TurnInv, IInv, TypeInv, DriverInv, Idles
      <3> QED BY <3>1 DEF HeardWrong, Repeating, Still, Asking
    <2>6. Repeating /\ Holds(RESEND)
      BY <2>1, <2>3, <2>4, <2>5 DEF FullInv, TakenInv, CameBack
    <2>7. RecvValid(ctl)
      BY <2>6, ResendHeld DEF FullInv, IInv, TypeInv
    <2> QED BY <2>1, <2>6, <2>7 DEF TakenInv, Repeating, Holds
  <1>4. CASE SendAnswer
    <2>1. /\ pc = "answer" /\ pc' = "clear" /\ data' = RecvByte(ctl)
          /\ after' = IF data' = ACK THEN "end" ELSE "start"
          /\ UNCHANGED << calm, took, flips >>
      BY <1>4 DEF SendAnswer, Goes, NotDriver, user
    <2>2. Clean' /\ ~took' => RecvByte(ctl) = RESEND
      BY <2>1, ResendHeld DEF FullInv, TakenInv, IInv, TypeInv, Clean
    <2> QED BY <2>1, <2>2 DEF TakenInv, RESEND, ACK
  <1>5. CASE SendAgain
    <2>1. pc = "again" /\ UNCHANGED << calm, took, flips >>
      BY <1>5 DEF SendAgain, Goes, NotDriver, user
    <2> QED BY <2>1 DEF FullInv, TakenInv, Clean
  <1>6. CASE Clear
    <2>1. pc = "clear" /\ UNCHANGED << calm, took, flips, after >>
      BY <1>6 DEF Clear, NotDriver, user
    <2>2. pc' \in {"main", "check", "start"} \/ after = "await"
      BY <1>6, <2>1 DEF Clear, Returns, FullInv, IInv, TypeInv, TypeOK
    <2> QED BY <2>1, <2>2 DEF FullInv, TakenInv, Clean
  <1> QED BY <1>1, <1>2, <1>3, <1>4, <1>5, <1>6 DEF DriverSteps

LEMMA NextTaken == FullInv /\ [Next]_vars => FullInv'
  <1> SUFFICES ASSUME FullInv, [Next]_vars PROVE FullInv'
    OBVIOUS
  <1>1. IInv' /\ TurnInv' /\ HeardInv'
    BY NextTypes, NextTurn, NextHeard DEF FullInv
  <1>2. TakenInv'
    <2>1. CASE UNCHANGED vars
      <3>1. UNCHANGED << ctl, line, queue, got, pc, after, todo, calm, took, flips >>
        BY <2>1 DEF vars, keyboard, driver, user
      <3> QED BY <3>1 DEF FullInv, TakenInv, Clean, OnItsWay, HeardWrong, ComesBack, CameBack,
                          Repeating, Asking, AtLast, Holds, Clocked, Edges, Intact
    <2>2. CASE ReceiveRises
      BY <1>1, <2>2, ReceiveRisesTaken DEF IInv, TypeInv
    <2> QED
      BY <2>1, <2>2, SendBeginsTaken, SendFallsTaken, SendRisesTaken, ReceiveBeginsTaken,
         ReceiveFallsTaken, TimerTaken, PressTaken, DriverTaken
      DEF Next, KeyboardSteps
  <1> QED BY <1>1, <1>2 DEF FullInv

(* send_byte returns success only for a byte that the keyboard has received *)
(* whole, if keys are left alone and at most one bit is turned over, or if  *)
(* there is no noise: an answer is never taken for another byte's.          *)
THEOREM CommandsTaken == Spec => []Taken
  <1>1. Init => FullInv
    <2>1. Init => TurnInv /\ HeardInv /\ TakenInv
      BY DEF Init, TurnInv, HeardInv, TakenInv, Idle, Line
    <2> QED BY <2>1, InitTypes DEF FullInv
  <1>2. FullInv => Taken
    BY DEF FullInv, TakenInv, Taken
  <1> QED BY <1>1, <1>2, NextTaken, PTL DEF Spec

---------------------------------------------------------------------------
(* What the program has not been told yet, as the driver will read it.  A  *)
(* reader has told n of the actions P, and has seen E0 and F0 of the next. *)

Reader == [n : Nat, ext : BOOLEAN, rel : BOOLEAN]
Told(n) == [n |-> n, ext |-> FALSE, rel |-> FALSE]
ReadsKey(a, p, b, q) ==
  \/ b = 224 /\ a.key.ext /\ ~p.ext /\ ~p.rel /\ q = [n |-> p.n, ext |-> TRUE, rel |-> p.rel]
  \/ /\ b = RELEASE /\ a.up /\ ~p.rel /\ (p.ext <=> a.key.ext)
     /\ q = [n |-> p.n, ext |-> p.ext, rel |-> TRUE]
  \/ b = a.key.code /\ (p.ext <=> a.key.ext) /\ (p.rel <=> a.up) /\ q = Told(p.n + 1)
Reads(P, p, b, q) ==
  \/ b = BAT_PASSED /\ ~p.ext /\ ~p.rel /\ q = p
  \/ p.n < Len(P) /\ ReadsKey(P[p.n + 1], p, b, q)
Follows(P, s, p, q) ==
  \E f \in [0 .. Len(s) -> Reader] :
    f[0] = p /\ f[Len(s)] = q /\ \A j \in 1 .. Len(s) : Reads(P, f[j - 1], s[j], f[j])

LEMMA FollowsNone ==
  ASSUME NEW P, NEW p, NEW q
  PROVE  /\ Follows(P, << >>, p, q) => p = q
         /\ p \in Reader => Follows(P, << >>, p, p)
  <1>1. Len(<< >>) = 0
    OBVIOUS
  <1>2. ASSUME p \in Reader PROVE Follows(P, << >>, p, p)
    <2> DEFINE f == [j \in 0 .. 0 |-> p]
    <2>1. f \in [0 .. Len(<< >>) -> Reader] /\ f[0] = p
      BY <1>1, <1>2
    <2> HIDE DEF f
    <2> QED BY <1>1, <2>1 DEF Follows
  <1> QED BY <1>1, <1>2 DEF Follows

LEMMA FollowsOne ==
  ASSUME NEW P, NEW b, NEW p \in Reader, NEW q \in Reader, Reads(P, p, b, q)
  PROVE  Follows(P, << b >>, p, q)
  <1> DEFINE f == [j \in 0 .. 1 |-> IF j = 0 THEN p ELSE q]
  <1>1. Len(<< b >>) = 1 /\ << b >>[1] = b
    OBVIOUS
  <1>2. f \in [0 .. 1 -> Reader] /\ f[0] = p /\ f[1] = q
    OBVIOUS
  <1> HIDE DEF f
  <1>3. \A j \in 1 .. 1 : Reads(P, f[j - 1], << b >>[j], f[j])
    <2> TAKE j \in 1 .. 1
    <2>1. j = 1 /\ j - 1 = 0
      OBVIOUS
    <2> QED BY <1>1, <1>2, <2>1
  <1> QED BY <1>1, <1>2, <1>3 DEF Follows

LEMMA FollowsFirst ==
  ASSUME NEW P, NEW s \in Seq(Bytes), s # << >>, NEW p, NEW q, Follows(P, s, p, q)
  PROVE  p \in Reader /\ \E r \in Reader : Reads(P, p, Head(s), r) /\ Follows(P, Tail(s), r, q)
  <1>1. PICK f \in [0 .. Len(s) -> Reader] :
          f[0] = p /\ f[Len(s)] = q /\ \A j \in 1 .. Len(s) : Reads(P, f[j - 1], s[j], f[j])
    BY DEF Follows
  <1>2. /\ Len(s) \in Nat \ {0} /\ Len(Tail(s)) = Len(s) - 1 /\ Head(s) = s[1]
        /\ \A j \in 1 .. Len(s) - 1 : Tail(s)[j] = s[j + 1]
    OBVIOUS
  <1>3. f[0] \in Reader /\ f[1] \in Reader /\ Reads(P, p, Head(s), f[1])
    <2>1. 1 \in 1 .. Len(s) /\ 1 - 1 = 0 /\ 0 \in 0 .. Len(s) /\ 1 \in 0 .. Len(s)
      BY <1>2
    <2> QED BY <1>1, <1>2, <2>1
  <1>4. Follows(P, Tail(s), f[1], q)
    <2> DEFINE g == [j \in 0 .. Len(s) - 1 |-> f[j + 1]]
    <2>1. g \in [0 .. Len(Tail(s)) -> Reader] /\ g[0] = f[1] /\ g[Len(Tail(s))] = q
      BY <1>1, <1>2
    <2>2. \A j \in 1 .. Len(Tail(s)) : Reads(P, g[j - 1], Tail(s)[j], g[j])
      <3> TAKE j \in 1 .. Len(Tail(s))
      <3>1. /\ j + 1 \in 1 .. Len(s) /\ (j + 1) - 1 = j /\ j - 1 \in 0 .. Len(s) - 1
            /\ j \in 0 .. Len(s) - 1 /\ (j - 1) + 1 = j /\ j \in 1 .. Len(s) - 1
        BY <1>2
      <3>2. g[j - 1] = f[j] /\ g[j] = f[j + 1] /\ Tail(s)[j] = s[j + 1]
        BY <1>2, <3>1
      <3> HIDE DEF g
      <3>3. Reads(P, f[(j + 1) - 1], s[j + 1], f[j + 1])
        BY <1>1, <3>1
      <3> QED BY <3>1, <3>2, <3>3
    <2> HIDE DEF g
    <2> QED BY <2>1, <2>2 DEF Follows
  <1> QED BY <1>1, <1>3, <1>4

LEMMA FollowsBoth ==
  ASSUME NEW P, NEW s \in Seq(Bytes), NEW t \in Seq(Bytes), NEW p, NEW q, NEW r,
         Follows(P, s, p, q), Follows(P, t, q, r)
  PROVE  Follows(P, s \o t, p, r)
  <1>1. PICK f \in [0 .. Len(s) -> Reader] :
          f[0] = p /\ f[Len(s)] = q /\ \A j \in 1 .. Len(s) : Reads(P, f[j - 1], s[j], f[j])
    BY DEF Follows
  <1>2. PICK g \in [0 .. Len(t) -> Reader] :
          g[0] = q /\ g[Len(t)] = r /\ \A j \in 1 .. Len(t) : Reads(P, g[j - 1], t[j], g[j])
    BY DEF Follows
  <1>3. /\ Len(s) \in Nat /\ Len(t) \in Nat /\ Len(s \o t) = Len(s) + Len(t)
        /\ \A j \in 1 .. Len(s) : (s \o t)[j] = s[j]
        /\ \A j \in Len(s) + 1 .. Len(s) + Len(t) : (s \o t)[j] = t[j - Len(s)]
    OBVIOUS
  <1> DEFINE m == Len(s)
             k == Len(t)
             h == [j \in 0 .. m + k |-> IF j <= m THEN f[j] ELSE g[j - m]]
             u == s \o t
  <1>4. m \in Nat /\ k \in Nat
    BY <1>3
  <1>5. /\ \A j \in 0 .. m : h[j] = f[j] /\ h[j] \in Reader
        /\ \A j \in 0 .. k : h[m + j] = g[j] /\ h[m + j] \in Reader
    <2>1. \A j \in 0 .. m : h[j] = f[j]
      BY <1>4
    <2>2. ASSUME NEW j \in 0 .. k PROVE h[m + j] = g[j]
      <3>1. m + j \in 0 .. m + k /\ (m + j) - m = j /\ (m + j <= m => j = 0 /\ m + j = m)
        BY <1>4
      <3> QED BY <1>1, <1>2, <3>1
    <2> HIDE DEF h
    <2> QED BY <2>1, <2>2
  <1>6. DOMAIN h = 0 .. m + k /\ h = [j \in 0 .. m + k |-> h[j]]
    OBVIOUS
  <1> HIDE DEF h
  <1>7. \A j \in 1 .. m + k : Reads(P, h[j - 1], u[j], h[j])
    <2> SUFFICES ASSUME NEW j \in 1 .. m + k PROVE Reads(P, h[j - 1], u[j], h[j])
      OBVIOUS
    <2>1. CASE j <= m
      <3>1. j \in 1 .. m /\ j - 1 \in 0 .. m /\ j \in 0 .. m
        BY <1>4, <2>1
      <3> QED BY <1>1, <1>3, <1>5, <3>1
    <2>2. CASE j > m
      <3> DEFINE i == j - m
      <3>1. i \in 1 .. k /\ i - 1 \in 0 .. k /\ i \in 0 .. k /\ j = m + i /\ j - 1 = m + (i - 1)
            /\ j \in m + 1 .. m + k
        BY <1>4, <2>2
      <3>2. u[j] = t[i]
        BY <1>3, <3>1
      <3> HIDE DEF i
      <3>3. Reads(P, g[i - 1], t[i], g[i])
        BY <1>2, <3>1
      <3>4. h[j - 1] = g[i - 1] /\ h[j] = g[i]
        BY <1>5, <3>1
      <3> QED BY <3>2, <3>3, <3>4
    <2> QED BY <1>4, <2>1, <2>2
  <1>8. h \in [0 .. m + k -> Reader]
    <2>1. ASSUME NEW j \in 0 .. m + k PROVE h[j] \in Reader
      <3>1. CASE j <= m
        BY <1>4, <1>5, <3>1
      <3>2. CASE j > m
        <4>1. j - m \in 0 .. k /\ j = m + (j - m)
          BY <1>4, <3>2
        <4> QED BY <1>5, <4>1
      <3> QED BY <1>4, <3>1, <3>2
    <2> QED BY <1>6, <2>1
  <1>9. h[0] = p /\ h[m + k] = r
    BY <1>1, <1>2, <1>4, <1>5
  <1> QED BY <1>3, <1>7, <1>8, <1>9 DEF Follows

(* What is done later changes nothing of what is to be read before it. *)
LEMMA FollowsLonger ==
  ASSUME NEW A, NEW P \in Seq(A), NEW a \in A, NEW s, NEW p, NEW q, Follows(P, s, p, q)
  PROVE  Follows(Append(P, a), s, p, q)
  <1>1. PICK f \in [0 .. Len(s) -> Reader] :
          f[0] = p /\ f[Len(s)] = q /\ \A j \in 1 .. Len(s) : Reads(P, f[j - 1], s[j], f[j])
    BY DEF Follows
  <1>2. \A x \in Reader : \A b, y : Reads(P, x, b, y) => Reads(Append(P, a), x, b, y)
    <2> TAKE x \in Reader
    <2>1. x.n \in Nat
      BY DEF Reader
    <2>2. x.n < Len(P) => x.n < Len(Append(P, a)) /\ Append(P, a)[x.n + 1] = P[x.n + 1]
      BY <2>1
    <2> QED BY <2>2 DEF Reads
  <1>3. \A j \in 1 .. Len(s) : Reads(Append(P, a), f[j - 1], s[j], f[j])
    <2> TAKE j \in 1 .. Len(s)
    <2>1. CASE Len(s) \in Nat
      <3>1. j - 1 \in 0 .. Len(s)
        BY <2>1
      <3> QED BY <1>1, <1>2, <3>1
    <2> QED BY <1>1, <1>2
  <1> QED BY <1>1, <1>3 DEF Follows

Acts == [key : Keys, up : BOOLEAN]
Here == [n |-> Len(events), ext |-> extended, rel |-> release]

(* The modifiers after one more event. *)
LEMMA HeldOn ==
  ASSUME NEW es \in Seq(Acts), NEW e \in Acts
  PROVE  Promise!Held(Append(es, e)) =
           IF e.up THEN Promise!Held(es) \ e.key.mask ELSE Promise!Held(es) \cup e.key.mask
  <1> DEFINE fs == Append(es, e)
             N == Len(es)
  <1>1. /\ N \in Nat /\ Len(fs) = N + 1 /\ fs[N + 1] = e
        /\ \A n \in 1 .. N : fs[n] = es[n]
        /\ DOMAIN es = 1 .. N /\ DOMAIN fs = 1 .. N + 1
    OBVIOUS
  <1> HIDE DEF fs, N
  <1>3. ASSUME NEW m, m \in Promise!Held(es), m \notin e.key.mask PROVE m \in Promise!Held(fs)
    <2>1. PICK n \in 1 .. N : /\ ~es[n].up /\ m \in es[n].key.mask
                              /\ \A later \in n + 1 .. N : m \notin es[later].key.mask
      BY <1>1, <1>3 DEF Promise!Held, N
    <2>2. n \in 1 .. N + 1 /\ fs[n] = es[n]
      BY <1>1
    <2>3. \A later \in n + 1 .. N + 1 : m \notin fs[later].key.mask
      <3> TAKE later \in n + 1 .. N + 1
      <3>1. later = N + 1 \/ (later \in n + 1 .. N /\ later \in 1 .. N)
        BY <1>1
      <3> QED BY <1>1, <1>3, <2>1, <3>1
    <2> QED BY <1>1, <2>1, <2>2, <2>3 DEF Promise!Held
  <1>4. ASSUME ~e.up, NEW m \in e.key.mask PROVE m \in Promise!Held(fs)
    <2>1. N + 1 \in 1 .. N + 1 /\ ~fs[N + 1].up /\ m \in fs[N + 1].key.mask
      BY <1>1, <1>4
    <2>2. \A later \in (N + 1) + 1 .. N + 1 : m \notin fs[later].key.mask
      BY <1>1
    <2> QED BY <1>1, <2>1, <2>2 DEF Promise!Held
  <1>5. ASSUME NEW m, m \in Promise!Held(fs)
        PROVE  IF m \in e.key.mask THEN ~e.up ELSE m \in Promise!Held(es)
    <2>1. PICK n \in 1 .. N + 1 : /\ ~fs[n].up /\ m \in fs[n].key.mask
                                  /\ \A later \in n + 1 .. N + 1 : m \notin fs[later].key.mask
      BY <1>1, <1>5 DEF Promise!Held
    <2>2. CASE n = N + 1
      BY <1>1, <2>1, <2>2
    <2>3. CASE n # N + 1
      <3>1. n \in 1 .. N /\ N + 1 \in n + 1 .. N + 1
        BY <1>1, <2>3
      <3>2. m \notin e.key.mask
        BY <1>1, <2>1, <3>1
      <3>3. ~es[n].up /\ m \in es[n].key.mask
        BY <1>1, <2>1, <3>1
      <3>4. \A later \in n + 1 .. N : m \notin es[later].key.mask
        <4> TAKE later \in n + 1 .. N
        <4>1. later \in n + 1 .. N + 1 /\ later \in 1 .. N
          BY <1>1, <3>1
        <4> QED BY <1>1, <2>1, <4>1
      <3>5. m \in Promise!Held(es)
        BY <1>1, <3>1, <3>3, <3>4 DEF Promise!Held, N
      <3> QED BY <3>2, <3>5
    <2> QED BY <2>2, <2>3
  <1>6. e.up \in BOOLEAN
    BY DEF Acts
  <1>7. CASE e.up
    BY <1>3, <1>5, <1>7 DEF fs
  <1>8. CASE ~e.up
    <2>1. \A m : m \in Promise!Held(fs) <=> m \in Promise!Held(es) \/ m \in e.key.mask
      BY <1>3, <1>4, <1>5, <1>8
    <2> QED BY <1>8, <2>1 DEF fs
  <1> QED BY <1>7, <1>8

(* Where no two keys share a modifier (as the two shift keys do), those    *)
(* held are the modifiers of the keys that are down.                       *)
DownAfter(es) ==
  { key \in Keys : \E n \in DOMAIN es :
      ~es[n].up /\ es[n].key = key /\ \A later \in n + 1 .. Len(es) : es[later].key # key }

LEMMA HeldApart ==
  ASSUME NEW es \in Seq(Acts),
         \A key, other \in Keys : key # other => key.mask \cap other.mask = {}
  PROVE  Promise!Held(es) = UNION { key.mask : key \in DownAfter(es) }
  <1>1. Len(es) \in Nat /\ DOMAIN es = 1 .. Len(es) /\ \A n \in 1 .. Len(es) : es[n].key \in Keys
    <2>1. \A n \in 1 .. Len(es) : es[n] \in Acts
      OBVIOUS
    <2> QED BY <2>1 DEF Acts
  <1>2. \A key, other \in Keys : \A m \in key.mask : m \in other.mask <=> other = key
    OBVIOUS
  <1>3. ASSUME NEW n \in 1 .. Len(es), NEW later \in n + 1 .. Len(es)
        PROVE  later \in 1 .. Len(es)
    BY <1>1
  <1>4. ASSUME NEW m \in Promise!Held(es) PROVE m \in UNION { key.mask : key \in DownAfter(es) }
    <2>1. PICK n \in 1 .. Len(es) :
            /\ ~es[n].up /\ m \in es[n].key.mask
            /\ \A later \in n + 1 .. Len(es) : m \notin es[later].key.mask
      BY <1>1, <1>4 DEF Promise!Held
    <2>2. \A later \in n + 1 .. Len(es) : es[later].key # es[n].key
      BY <2>1
    <2>3. es[n].key \in DownAfter(es)
      BY <1>1, <2>1, <2>2 DEF DownAfter
    <2> QED BY <2>1, <2>3
  <1>5. ASSUME NEW key \in DownAfter(es), NEW m \in key.mask PROVE m \in Promise!Held(es)
    <2>1. PICK n \in 1 .. Len(es) :
            ~es[n].up /\ es[n].key = key /\ \A later \in n + 1 .. Len(es) : es[later].key # key
      BY <1>1 DEF DownAfter
    <2>2. \A later \in n + 1 .. Len(es) : m \notin es[later].key.mask
      BY <1>1, <1>2, <1>3, <2>1
    <2> QED BY <1>1, <2>1, <2>2 DEF Promise!Held
  <1> QED BY <1>4, <1>5

(* What the driver makes of the next byte. *)
LEMMA DecodesNext ==
  ASSUME IInv, pressed \in Seq(Acts), events \in Seq(Acts), modifiers = Promise!Held(events),
         NEW r \in Reader, Reads(pressed, Here, data, r), Decoded
  PROVE  /\ Here' = r /\ events' \in Seq(Acts) /\ modifiers' = Promise!Held(events')
         /\ \/ UNCHANGED << events, modifiers >>
            \/ Len(events) < Len(pressed) /\ events' = Append(events, pressed[Len(events) + 1])
  <1>1. /\ extended \in BOOLEAN /\ release \in BOOLEAN /\ data \in Bytes
        /\ Len(events) \in Nat /\ Len(pressed) \in Nat
    BY DEF IInv, TypeInv, TypeOK
  <1>2. Here.n = Len(events) /\ Here.ext = extended /\ Here.rel = release
    BY DEF Here
  <1>3. CASE data = BAT_PASSED /\ ~Here.ext /\ ~Here.rel /\ r = Here
    <2>1. extended' = FALSE /\ release' = FALSE /\ UNCHANGED << modifiers, events >>
      BY <1>3 DEF Decoded, BAT_PASSED, BUFFER_OVERRUN, RELEASE, EXTENDED
    <2>2. extended = FALSE /\ release = FALSE
      BY <1>1, <1>2, <1>3
    <2>3. Here' = Here
      BY <2>1, <2>2 DEF Here
    <2> QED BY <1>3, <2>1, <2>3
  <1>4. CASE Here.n < Len(pressed) /\ ReadsKey(pressed[Here.n + 1], Here, data, r)
    <2> DEFINE a == pressed[Here.n + 1]
    <2>1. a \in Acts
      BY <1>1, <1>2, <1>4
    <2> HIDE DEF a
    <2>2. /\ a.key \in Keys /\ a.up \in BOOLEAN /\ a = [key |-> a.key, up |-> a.up]
      BY <2>1 DEF Acts
    <2>3. /\ a.key.ext \in BOOLEAN
          /\ a.key.code \in Bytes \ ({BAT_PASSED, BUFFER_OVERRUN, RELEASE} \cup EXTENDED)
      BY <2>2, KeysAssumption
    <2>4. ReadsKey(a, Here, data, r)
      BY <1>4 DEF a
    <2>5. CASE data = 224 /\ r = [n |-> Here.n, ext |-> TRUE, rel |-> Here.rel]
      <3>1. extended' = TRUE /\ UNCHANGED << release, modifiers, events >>
        BY <2>5 DEF Decoded, BAT_PASSED, BUFFER_OVERRUN, RELEASE, EXTENDED
      <3> QED BY <2>5, <3>1 DEF Here
    <2>6. CASE data = RELEASE /\ r = [n |-> Here.n, ext |-> Here.ext, rel |-> TRUE]
      <3>1. release' = TRUE /\ UNCHANGED << extended, modifiers, events >>
        BY <2>6 DEF Decoded, BAT_PASSED, BUFFER_OVERRUN, RELEASE, EXTENDED
      <3> QED BY <2>6, <3>1 DEF Here
    <2>7. CASE /\ data = a.key.code /\ (Here.ext <=> a.key.ext) /\ (Here.rel <=> a.up)
               /\ r = Told(Here.n + 1)
      <3>1. KeysOf(data, extended) = {a.key}
        <4>1. a.key \in KeysOf(data, extended)
          <5>1. a.key.ext = extended
            BY <1>1, <1>2, <2>3, <2>7
          <5> QED BY <2>2, <2>7, <5>1 DEF KeysOf
        <4>2. \A key \in KeysOf(data, extended) : key = a.key
          BY <2>2, <4>1, KeysAssumption DEF KeysOf
        <4> QED BY <4>1, <4>2
      <3>2. \E key \in KeysOf(data, extended) : KeyTold(key)
        <4>1. /\ data \notin {BAT_PASSED, BUFFER_OVERRUN} /\ data # RELEASE /\ data \notin EXTENDED
          BY <2>3, <2>7
        <4> QED BY <3>1, <4>1 DEF Decoded
      <3>3. KeyTold(a.key)
        BY <3>1, <3>2
      <3>4. release = a.up
        BY <1>1, <1>2, <2>2, <2>7
      <3>5. /\ events' = Append(events, a) /\ extended' = FALSE /\ release' = FALSE
            /\ modifiers' = IF a.up THEN modifiers \ a.key.mask ELSE modifiers \cup a.key.mask
        BY <2>2, <3>3, <3>4 DEF KeyTold, KeyEvent
      <3>6. Len(events') = Len(events) + 1 /\ events' \in Seq(Acts)
        BY <2>1, <3>5
      <3>7. modifiers' = Promise!Held(events')
        BY <2>1, <3>5, HeldOn
      <3>8. Here' = r
        BY <1>2, <2>7, <3>5, <3>6 DEF Here, Told
      <3>9. events' = Append(events, pressed[Len(events) + 1])
        BY <1>2, <3>5 DEF a
      <3> QED BY <1>2, <1>4, <3>6, <3>7, <3>8, <3>9
    <2> QED BY <2>4, <2>5, <2>6, <2>7 DEF ReadsKey
  <1> QED BY <1>3, <1>4 DEF Reads

(* The codes of a key that is pressed or let go. *)
LEMMA FollowsCodes ==
  ASSUME NEW P \in Seq(Acts), NEW a \in Acts
  PROVE  Follows(Append(P, a), Codes(a), Told(Len(P)), Told(Len(P) + 1))
  <1> DEFINE Q == Append(P, a)
             N == Len(P)
             p0 == [n |-> N, ext |-> FALSE, rel |-> FALSE]
             p1 == [n |-> N, ext |-> a.key.ext, rel |-> FALSE]
             p2 == [n |-> N, ext |-> a.key.ext, rel |-> a.up]
             p3 == [n |-> N + 1, ext |-> FALSE, rel |-> FALSE]
             s1 == IF a.key.ext THEN << 224 >> ELSE << >>
             s2 == IF a.up THEN << RELEASE >> ELSE << >>
             s3 == << a.key.code >>
  <1>1. N \in Nat /\ Len(Q) = N + 1 /\ Q[N + 1] = a
    OBVIOUS
  <1>2. /\ a.key \in Keys /\ a.up \in BOOLEAN /\ a.key.ext \in BOOLEAN /\ a.key.code \in Bytes
    BY KeysAssumption DEF Acts
  <1>3. p0 = Told(N) /\ p3 = Told(N + 1)
    BY DEF Told
  <1>4. (a.key.ext => a.key.ext = TRUE) /\ (~a.key.ext => a.key.ext = FALSE)
    BY <1>2
  <1>5. (a.up => a.up = TRUE) /\ (~a.up => a.up = FALSE)
    BY <1>2
  <1>6. p0 \in Reader /\ p1 \in Reader /\ p2 \in Reader /\ p3 \in Reader
    BY <1>1, <1>2 DEF Reader
  <1>7. s1 \in Seq(Bytes) /\ s2 \in Seq(Bytes) /\ s3 \in Seq(Bytes)
    <2>1. 224 \in Bytes /\ RELEASE \in Bytes
      BY DEF Bytes, RELEASE
    <2> QED BY <1>2, <2>1
  <1>8. \A p, b, q : p.n = N /\ ReadsKey(a, p, b, q) => Reads(Q, p, b, q)
    BY <1>1 DEF Reads
  <1> HIDE DEF Q, N
  <1>9. Follows(Q, s1, p0, p1)
    <2>1. CASE a.key.ext
      <3>1. /\ p0.n = N /\ p0.ext = FALSE /\ p0.rel = FALSE
            /\ p1 = [n |-> N, ext |-> TRUE, rel |-> FALSE]
        <4>1. a.key.ext = TRUE
          BY <1>4, <2>1
        <4> QED BY <4>1
      <3> HIDE DEF p0, p1
      <3>2. ReadsKey(a, p0, 224, p1)
        BY <2>1, <3>1, Zenon DEF ReadsKey
      <3>3. Reads(Q, p0, 224, p1)
        BY <1>8, <3>1, <3>2
      <3> QED BY <1>6, <2>1, <3>3, FollowsOne
    <2>2. CASE ~a.key.ext
      <3>1. p1 = p0
        BY <1>4, <2>2
      <3> QED BY <1>6, <2>2, <3>1, FollowsNone
    <2> QED BY <2>1, <2>2
  <1>10. Follows(Q, s2, p1, p2)
    <2>1. CASE a.up
      <3>1. /\ p1.n = N /\ p1.ext = a.key.ext /\ p1.rel = FALSE
            /\ p2 = [n |-> N, ext |-> a.key.ext, rel |-> TRUE]
        <4>1. a.up = TRUE
          BY <1>5, <2>1
        <4> QED BY <4>1
      <3> HIDE DEF p1, p2
      <3>2. ReadsKey(a, p1, RELEASE, p2)
        BY <2>1, <3>1, Zenon DEF ReadsKey
      <3>3. Reads(Q, p1, RELEASE, p2)
        BY <1>8, <3>1, <3>2
      <3> QED BY <1>6, <2>1, <3>3, FollowsOne
    <2>2. CASE ~a.up
      <3>1. p2 = p1
        BY <1>5, <2>2
      <3> QED BY <1>6, <2>2, <3>1, FollowsNone
    <2> QED BY <2>1, <2>2
  <1>11. Follows(Q, s3, p2, p3)
    <2>1. ReadsKey(a, p2, a.key.code, p3)
      BY <1>3 DEF ReadsKey
    <2>2. Reads(Q, p2, a.key.code, p3)
      BY <1>8, <2>1
    <2> QED BY <1>6, <2>2, FollowsOne
  <1>12. s1 \o s2 \in Seq(Bytes)
    BY <1>7
  <1> HIDE DEF s1, s2, s3, p0, p1, p2, p3
  <1>13. Follows(Q, s1 \o s2, p0, p2)
    BY <1>7, <1>9, <1>10, FollowsBoth
  <1>14. Follows(Q, (s1 \o s2) \o s3, p0, p3)
    BY <1>7, <1>11, <1>12, <1>13, FollowsBoth
  <1>15. Codes(a) = (s1 \o s2) \o s3
    BY <1>7 DEF Codes, s1, s2, s3
  <1> QED BY <1>3, <1>14, <1>15 DEF Q, N

OneBit == MaxFlips <= 1

(* The byte that the controller received last, and what is unread of those *)
(* that the keyboard has: a byte that is asked for again is the next one.  *)
Latest == IF line.at = "sending" /\ AtLast THEN Head(queue) ELSE last
Repeated == pc = "clear" /\ after = "main"
Owed == IF Repeated THEN Asking ELSE ctl.hasData \/ Asking
Unread == IF todo # << >> THEN << >> ELSE IF Owed THEN << Latest >> \o Pending ELSE Pending

(* The bits of the byte that is being sent are in the register, but for    *)
(* the one that noise turned over, e (11 is none).                         *)
SentBitAt(byte, e, j) == IF j = e THEN 1 - FrameBit(byte, j) ELSE FrameBit(byte, j)
ClockedBut(byte, e) ==
  /\ e < 11 => e < Edges /\ flips = 1
  /\ \A j \in FrameBits : j < Edges => ctl.reg[11 - Edges + j] = SentBitAt(byte, e, j)
SentInv ==
  line.at = "sending" /\ ~ctl.sendEna /\ ~ctl.hasData /\ ~AtLast =>
    \E e \in 0 .. 11 : ClockedBut(Head(queue), e)

ReceivedAs(byte) ==
  /\ RecvValid(ctl) => RecvByte(ctl) = byte
  /\ ~RecvValid(ctl) => flips = 1
RegisterInv ==
  calm /\ todo = << >> =>
    /\ ctl.hasData /\ ~Repeated => ReceivedAs(Latest)
    /\ pc = "read" => RecvValid(ctl)
    /\ pc = "repeat" => ~RecvValid(ctl)
    /\ pc = "clear" /\ after = "event" => data = Latest

(* The keyboard hears the RESEND as it was sent: the noise has been.       *)
HeardResend ==
  line.at = "receiving" => \A j \in 0 .. 8 : j < line.i => got[j] = FrameBit(RESEND, j + 1)
AskingInv ==
  calm /\ todo = << >> /\ Asking =>
    /\ Repeated \/ (pc = "main" /\ ~ctl.hasData)
    /\ flips = 1 /\ ctl.sendData = RESEND /\ HeardResend
    /\ ctl.sendEna /\ line.at = "receiving" => ctl.dataOutEna

ToldInv ==
  /\ pressed \in Seq(Acts)
  /\ calm => /\ events \in Seq(Acts) /\ modifiers = Promise!Held(events)
             /\ Follows(pressed, Unread, Here, Told(Len(pressed)))

Base == IInv /\ TurnInv
StreamInv == SentInv /\ RegisterInv /\ AskingInv /\ ToldInv

(* What the controller makes of a whole frame. *)
LEMMA WholeFrame ==
  ASSUME NEW c \in Controller, NEW byte \in Bytes, NEW e \in 0 .. 11,
         \A j \in FrameBits : c.reg[j] = SentBitAt(byte, e, j)
  PROVE  /\ RecvValid(c) => RecvByte(c) = byte
         /\ ~RecvValid(c) => e < 11
  <1> DEFINE g == [j \in 0 .. 8 |-> c.reg[j + 1]]
             d == IF e \in 1 .. 9 THEN e - 1 ELSE 9
             bits == [i \in DataBits |-> c.reg[i + 1]]
  <1>1. g \in [0 .. 8 -> Bits]
    <2>1. \A j \in 0 .. 8 : j + 1 \in FrameBits
      BY DEF FrameBits
    <2> QED BY <2>1 DEF Controller
  <1>2. d \in 0 .. 9 /\ (e = 11 => d = 9)
    OBVIOUS
  <1>3. \A j \in 0 .. 8 : g[j] = IF j = d THEN 1 - FrameBit(byte, j + 1) ELSE FrameBit(byte, j + 1)
    <2> TAKE j \in 0 .. 8
    <2>1. j + 1 \in FrameBits /\ (j + 1 = e <=> j = d)
      BY DEF FrameBits
    <2> QED BY <2>1 DEF SentBitAt
  <1>4. g[8] = c.reg[9] /\ ByteOf(g) = ByteOf(bits)
    BY DEF ByteOf, DataBits
  <1>5. RecvByte(c) = ByteOf(bits)
    BY DEF RecvByte
  <1> HIDE DEF g, d, bits
  <1>6. /\ d = 9 => Intact(g) /\ ByteOf(g) = byte
        /\ d < 9 => ~Intact(g)
    BY <1>1, <1>2, <1>3, HeardWhole
  <1>7. RecvValid(c) <=> Intact(g)
    BY <1>4, <1>5 DEF RecvValid, Intact
  <1> QED BY <1>2, <1>4, <1>5, <1>6, <1>7

(* One bit more. *)
LEMMA ClockedButOn ==
  ASSUME TypeOK, OneBit, NEW byte, NEW e \in 0 .. 11, ClockedBut(byte, e), ~ctl.hasData,
         Edges = line.i, line.i \in 0 .. 10, Edges' = line.i + 1,
         NEW flip \in BOOLEAN, flip => flips < MaxFlips,
         flips' = IF flip THEN flips + 1 ELSE flips,
         ctl'.reg = Shifted(ctl, IF flip THEN 1 - FrameBit(byte, line.i)
                                 ELSE FrameBit(byte, line.i))
  PROVE  \E f \in 0 .. 11 : ClockedBut(byte, f)'
  <1>0. PICK f \in 0 .. 11 : f = IF flip THEN line.i ELSE e
    OBVIOUS
  <1> DEFINE bit == IF flip THEN 1 - FrameBit(byte, line.i) ELSE FrameBit(byte, line.i)
  <1>1. \A k \in FrameBits : ctl'.reg[k] = IF k = 10 THEN bit ELSE ctl.reg[k + 1]
    BY DEF Shifted
  <1>2. flips \in Nat /\ MaxFlips \in Nat
    BY BoundsAssumption DEF TypeOK
  <1>3. /\ flip => flips = 0 /\ flips' = 1 /\ e = 11
        /\ ~flip => flips' = flips /\ e # line.i
    BY <1>2 DEF OneBit, ClockedBut
  <1>4. f \in 0 .. 11 /\ (f < 11 => f < Edges' /\ flips' = 1)
    BY <1>0, <1>3 DEF ClockedBut
  <1>5. \A j \in FrameBits : j < line.i => SentBitAt(byte, e, j) = SentBitAt(byte, f, j)
    BY <1>0, <1>3 DEF SentBitAt, FrameBits
  <1>6. bit = SentBitAt(byte, f, line.i)
    BY <1>0, <1>3 DEF SentBitAt
  <1> HIDE DEF bit
  <1>7. ASSUME NEW j \in FrameBits, j < line.i + 1
        PROVE  ctl'.reg[11 - (line.i + 1) + j] = SentBitAt(byte, f, j)
    <2>1. CASE j = line.i
      <3>1. 11 - (line.i + 1) + j = 10 /\ 10 \in FrameBits
        BY <2>1 DEF FrameBits
      <3> QED BY <1>1, <1>6, <2>1, <3>1
    <2>2. CASE j < line.i
      <3>1. /\ 11 - (line.i + 1) + j \in FrameBits /\ 11 - (line.i + 1) + j # 10
            /\ (11 - (line.i + 1) + j) + 1 = 11 - Edges + j
        BY <2>2 DEF FrameBits
      <3>2. ctl.reg[11 - Edges + j] = SentBitAt(byte, e, j)
        BY <2>2 DEF ClockedBut
      <3> QED BY <1>1, <1>5, <2>2, <3>1, <3>2
    <2> QED BY <1>7, <2>1, <2>2 DEF FrameBits
  <1>8. \A j \in FrameBits : SentBitAt(byte, f, j)' = SentBitAt(byte, f, j)
    BY DEF SentBitAt
  <1>9. ClockedBut(byte, f)'
    BY <1>4, <1>7, <1>8 DEF ClockedBut
  <1> QED BY <1>4, <1>9

(* What stays where a step does not touch it. *)
LEMMA SameTold ==
  ASSUME ToldInv, UNCHANGED << extended, release, modifiers, pressed, events, calm >>,
         calm => Unread' = Unread
  PROVE  ToldInv'
  BY DEF ToldInv, Here

LEMMA SameUnread ==
  ASSUME UNCHANGED << pc, after, todo >>, Asking' <=> Asking, ctl'.hasData = ctl.hasData,
         Latest' = Latest, Pending' = Pending
  PROVE  Unread' = Unread
  BY DEF Unread, Owed, Repeated

LEMMA SameRegister ==
  ASSUME RegisterInv, UNCHANGED << pc, after, todo, data, calm >>, flips = 1 => flips' = 1,
         ctl'.reg = ctl.reg, ctl'.hasData = ctl.hasData, Latest' = Latest
  PROVE  RegisterInv'
  BY DEF RegisterInv, Repeated, ReceivedAs, RecvValid, RecvByte

LEMMA SameAsking ==
  ASSUME AskingInv, UNCHANGED << pc, after, todo, calm >>, flips = 1 => flips' = 1,
         Asking' => Asking, ctl'.hasData = ctl.hasData, ctl'.sendData = ctl.sendData,
         flips = 1 /\ ctl.sendData = RESEND /\ HeardResend => HeardResend',
         ctl'.sendEna /\ line'.at = "receiving" =>
           ctl.sendEna /\ line.at = "receiving" /\ ctl'.dataOutEna = ctl.dataOutEna
  PROVE  AskingInv'
  BY DEF AskingInv, Repeated

LEMMA SendBeginsStream == ASSUME Base, StreamInv, SendBegins PROVE StreamInv'
  <1>1. /\ line.at = "idle" /\ line'.at = "sending" /\ line'.i = 0 /\ line'.low = FALSE
        /\ UNCHANGED << ctl, queue, last, got, driver, user, flips >>
    BY DEF SendBegins, Idle, Line
  <1>2. (Asking' <=> Asking) /\ Pending' = Pending /\ Latest' = Latest
    BY <1>1 DEF Asking, Pending, Latest, AtLast
  <1>3. Edges' = 0
    BY <1>1 DEF Edges
  <1>4. ClockedBut(Head(queue), 11)'
    BY <1>3 DEF ClockedBut, FrameBits
  <1>5. SentInv'
    BY <1>1, <1>4 DEF SentInv
  <1>6. RegisterInv' /\ AskingInv'
    BY <1>1, <1>2, SameRegister, SameAsking DEF StreamInv, driver, user, HeardResend
  <1>7. ToldInv'
    BY <1>1, <1>2, SameUnread, SameTold DEF StreamInv, driver, user
  <1> QED BY <1>5, <1>6, <1>7 DEF StreamInv

LEMMA SendFallsStream == ASSUME OneBit, Base, StreamInv, TypeOK', SendFalls PROVE StreamInv'
  <1>1. PICK flip \in Noisy :
          /\ ctl' = IF PullsClk(ctl) THEN ctl
                    ELSE ClkFalls(ctl, IF flip THEN 1 - line.data ELSE line.data)
          /\ flips' = IF flip THEN flips + 1 ELSE flips
    BY DEF SendFalls
  <1>2. /\ line.at = "sending" /\ ~line.low /\ line' = [line EXCEPT !.low = TRUE]
        /\ UNCHANGED << queue, got, last, driver, user >> /\ flip \in BOOLEAN
        /\ flip => flips < MaxFlips
    BY DEF SendFalls, Noisy
  <1>3. /\ line'.at = "sending" /\ line'.i = line.i /\ line'.low = TRUE /\ line.i \in 0 .. 10
    BY <1>2 DEF Base, IInv, TypeInv, TypeOK, FrameBits
  <1>4. flips = 1 => flips' = 1
    <2>1. flips \in Nat /\ MaxFlips \in Nat
      BY BoundsAssumption DEF Base, IInv, TypeInv, TypeOK
    <2> QED BY <1>1, <1>2, <2>1 DEF OneBit
  <1>5. CASE ctl.sendEna
    <2>1. PullsClk(ctl) /\ line.i = 0
      BY <1>2, <1>5 DEF Base, IInv, FrameInv, SendingInv, PullsClk, TypeInv, LineInv, AtLast
    <2>2. ctl' = ctl
      BY <1>1, <2>1
    <2>3. (Asking' <=> Asking) /\ Pending' = Pending /\ Latest' = Latest
      BY <1>2, <1>3, <2>1, <2>2 DEF Asking, Pending, Latest, AtLast
    <2>4. SentInv'
      BY <1>5, <2>2 DEF SentInv
    <2>5. RegisterInv' /\ AskingInv'
      BY <1>2, <1>3, <1>4, <2>2, <2>3, SameRegister, SameAsking
      DEF StreamInv, driver, user, HeardResend
    <2>6. ToldInv'
      BY <1>2, <2>2, <2>3, SameUnread, SameTold DEF StreamInv, driver, user
    <2> QED BY <2>4, <2>5, <2>6 DEF StreamInv
  <1>6. CASE ~ctl.sendEna
    <2>1. ~ctl.hasData /\ ~PullsClk(ctl)
      BY <1>2, <1>6 DEF Base, IInv, FrameInv, SendingInv, PullsClk, AtLast
    <2> DEFINE bit == IF flip THEN 1 - line.data ELSE line.data
    <2>2. ctl' = ReceivedBit(ctl, bit)
      BY <1>1, <1>6, <2>1 DEF ClkFalls
    <2>3. /\ ctl'.sendEna = ctl.sendEna
          /\ ctl.recvCnt < 10 => ctl'.hasData = ctl.hasData
          /\ ~(ctl.recvCnt < 10) => ctl'.hasData = TRUE
      BY <2>2, ReceivedBitFields DEF Base, IInv, FrameInv
    <2>4. ctl'.reg = Shifted(ctl, bit)
      BY <2>2 DEF ReceivedBit, Base, IInv, FrameInv, Shape
    <2>5. line.data = FrameBit(Head(queue), line.i) /\ queue # << >> /\ Head(queue) \in Bytes
      BY <1>2, QueueTypes DEF Base, IInv, TypeInv, TypeOK, LineInv
    <2>6. ctl.recvCnt = line.i /\ Edges = line.i /\ Edges' = line.i + 1
      BY <1>2, <1>3, <1>6, <2>1 DEF Base, IInv, FrameInv, SendingInv, Edges
    <2>7. PICK e \in 0 .. 11 : ClockedBut(Head(queue), e)
      BY <1>2, <1>6, <2>1 DEF StreamInv, SentInv, AtLast
    <2>8. PICK byte \in Bytes : byte = Head(queue)
      BY <2>5
    <2>9. \E f \in 0 .. 11 : ClockedBut(byte, f)'
      <3>1. ClockedBut(byte, e) /\ TypeOK
        BY <2>7, <2>8 DEF Base, IInv, TypeInv
      <3>2. ctl'.reg = Shifted(ctl, IF flip THEN 1 - FrameBit(byte, line.i)
                                    ELSE FrameBit(byte, line.i))
        BY <2>4, <2>5, <2>8
      <3> QED BY <1>1, <1>2, <1>3, <2>1, <2>6, <3>1, <3>2, ClockedButOn
    <2>10. PICK f \in 0 .. 11 : ClockedBut(byte, f)'
      BY <2>9
    <2>11. ~Asking /\ ~Asking'
      BY <1>2, <1>3, <1>6, <2>3 DEF Asking
    <2>12. AskingInv'
      BY <2>11 DEF AskingInv
    <2>13. pc \notin {"read", "repeat", "clear"}
      BY <2>1 DEF Base, IInv, TypeInv, DriverInv
    <2>14. UNCHANGED << pc, after, todo, extended, release, modifiers, events, pressed, calm, data >>
      BY <1>2 DEF driver, user
    <2>15. CASE line.i < 10
      <3>1. ctl'.hasData = ctl.hasData /\ ~AtLast' /\ ~AtLast
        BY <1>2, <1>3, <2>3, <2>6, <2>15 DEF AtLast
      <3>2. SentInv'
        <4>1. Head(queue)' = byte
          BY <1>2, <2>8
        <4> QED BY <2>10, <4>1 DEF SentInv
      <3>3. RegisterInv'
        BY <2>1, <2>13, <2>14, <3>1 DEF RegisterInv
      <3>4. Pending' = Pending /\ Latest' = Latest
        BY <1>2, <3>1 DEF Pending, Latest
      <3>5. ToldInv'
        BY <2>11, <2>14, <3>1, <3>4, SameUnread, SameTold DEF StreamInv
      <3> QED BY <2>12, <3>2, <3>3, <3>5 DEF StreamInv
    <2>16. CASE line.i = 10
      <3>1. ctl'.hasData = TRUE /\ AtLast' /\ ~AtLast
        BY <1>2, <1>3, <2>3, <2>6, <2>16 DEF AtLast
      <3>2. SentInv'
        BY <3>1 DEF SentInv
      <3>3. Latest' = byte /\ Pending' = Tail(queue) /\ Pending = queue
        BY <1>2, <1>3, <2>8, <3>1 DEF Latest, Pending
      <3>4. RegisterInv'
        <4>1. ctl' \in Controller
          BY DEF TypeOK
        <4>2. \A j \in FrameBits : ctl'.reg[j] = SentBitAt(byte, f, j)
          <5>1. \A j \in FrameBits : j < 11 /\ 11 - 11 + j = j
            BY DEF FrameBits
          <5> QED BY <2>6, <2>10, <2>16, <5>1 DEF ClockedBut
        <4>3. /\ RecvValid(ctl') => RecvByte(ctl') = byte
              /\ ~RecvValid(ctl') => f < 11
          BY <4>1, <4>2, WholeFrame
        <4>4. f < 11 => flips' = 1
          BY <2>10 DEF ClockedBut
        <4>5. ReceivedAs(Latest)'
          BY <3>3, <4>3, <4>4 DEF ReceivedAs
        <4> QED BY <2>13, <2>14, <4>5 DEF RegisterInv
      <3>5. ToldInv'
        <4>1. ~Repeated /\ ~Owed /\ Owed'
          BY <2>1, <2>11, <2>13, <2>14, <3>1 DEF Owed, Repeated
        <4>2. << Head(queue) >> \o Tail(queue) = queue
          BY <2>5 DEF Base, IInv, TypeInv, TypeOK
        <4>3. Unread' = Unread
          BY <2>8, <2>14, <3>3, <4>1, <4>2 DEF Unread
        <4> QED BY <2>14, <4>3, SameTold DEF StreamInv
      <3> QED BY <2>12, <3>2, <3>4, <3>5 DEF StreamInv
    <2> QED BY <1>3, <2>15, <2>16
  <1> QED BY <1>5, <1>6

LEMMA SendRisesStream == ASSUME Base, StreamInv, SendRises PROVE StreamInv'
  <1>1. /\ line.at = "sending" /\ line.low /\ line'.at \in {"idle", "sending"}
        /\ line'.at = "sending" => ~line'.low /\ line'.i = line.i + 1 /\ ~PullsClk(ctl)
        /\ UNCHANGED << ctl, got, driver, user, flips >>
        /\ line.i = 10 => line'.at = "idle" /\ queue' = Tail(queue) /\ last' = Head(queue)
        /\ line.i # 10 => queue' = queue /\ last' = last
    BY DEF SendRises, Idle, Line
  <1>2. (Asking' <=> Asking) /\ Pending' = Pending /\ Latest' = Latest
    BY <1>1 DEF Asking, Pending, Latest, AtLast
  <1>3. ASSUME line'.at = "sending", ~ctl.sendEna, ~ctl.hasData PROVE SentInv'
    <2>1. line.i # 10 /\ queue' = queue /\ ~AtLast
      BY <1>1, <1>3 DEF AtLast
    <2>2. PICK e \in 0 .. 11 : ClockedBut(Head(queue), e)
      BY <1>1, <1>3, <2>1 DEF StreamInv, SentInv
    <2>3. Edges' = Edges
      BY <1>1, <1>3 DEF Edges, Base, IInv, TypeInv, TypeOK, FrameBits
    <2>4. ClockedBut(Head(queue), e)'
      BY <1>1, <2>1, <2>2, <2>3 DEF ClockedBut, SentBitAt
    <2> QED BY <2>4 DEF SentInv
  <1>4. SentInv'
    BY <1>1, <1>3 DEF SentInv
  <1>5. RegisterInv' /\ AskingInv'
    BY <1>1, <1>2, SameRegister, SameAsking DEF StreamInv, driver, user, HeardResend
  <1>6. ToldInv'
    BY <1>1, <1>2, SameUnread, SameTold DEF StreamInv, driver, user
  <1> QED BY <1>4, <1>5, <1>6 DEF StreamInv

LEMMA ReceiveBeginsStream == ASSUME Base, StreamInv, ReceiveBegins PROVE StreamInv'
  <1>1. /\ line.at = "idle" /\ line'.at = "receiving" /\ line'.i = 0 /\ ctl.dataOutEna
        /\ UNCHANGED << ctl, queue, last, driver, user, flips >>
    BY DEF ReceiveBegins, Idle, Line, PullsData
  <1>2. ctl.sendEna
    BY <1>1 DEF Base, IInv, FrameInv, SenderInv
  <1>3. Asking /\ Asking' /\ Pending' = Pending /\ Latest' = Latest
    BY <1>1, <1>2 DEF Asking, Pending, Latest
  <1>4. SentInv'
    BY <1>1 DEF SentInv
  <1>5. RegisterInv'
    BY <1>1, <1>3, SameRegister DEF StreamInv, driver, user
  <1>6. HeardResend'
    BY <1>1 DEF HeardResend
  <1>7. AskingInv'
    BY <1>1, <1>3, <1>6 DEF StreamInv, AskingInv, driver, user, Repeated
  <1>8. ToldInv'
    BY <1>1, <1>3, SameUnread, SameTold DEF StreamInv, driver, user
  <1> QED BY <1>4, <1>5, <1>7, <1>8 DEF StreamInv

LEMMA ReceiveFallsStream == ASSUME Base, StreamInv, ReceiveFalls PROVE StreamInv'
  <1>1. /\ line.at = "receiving" /\ ~line.low /\ line' = [line EXCEPT !.low = TRUE]
        /\ UNCHANGED << queue, last, got, driver, user, flips >>
        /\ ctl' = ClkFalls(ctl, DataBit(ctl, line))
    BY DEF ReceiveFalls
  <1>2. line'.at = "receiving" /\ line'.i = line.i
    BY <1>1 DEF Base, IInv, TypeInv, TypeOK
  <1>3. ctl.sendEna /\ ctl.dataOutEna
    BY <1>1 DEF Base, IInv, FrameInv, ReceivingInv, SenderInv, AtLast
  <1>4. ctl' = SentBit(ctl, DataBit(ctl, line))
    BY <1>1, <1>3 DEF ClkFalls
  <1>5. ctl'.hasData = ctl.hasData /\ (ctl'.sendEna => ctl'.dataOutEna)
    BY <1>3, <1>4, SentBitFields DEF Base, IInv, FrameInv
  <1>6. ctl'.sendData = ctl.sendData
    BY <1>4 DEF SentBit, Base, IInv, FrameInv, Shape
  <1>7. Asking /\ Asking' /\ Pending' = Pending /\ Latest' = Latest
    BY <1>1, <1>2 DEF Asking, Pending, Latest
  <1>8. SentInv'
    BY <1>2 DEF SentInv
  <1>9. UNCHANGED << pc, after, todo, extended, release, modifiers, events, pressed, calm, data >>
    BY <1>1 DEF driver, user
  <1>10. HeardResend => HeardResend'
    BY <1>1, <1>2 DEF HeardResend
  <1>11. AskingInv'
    BY <1>1, <1>5, <1>6, <1>7, <1>9, <1>10 DEF StreamInv, AskingInv, Repeated
  <1>12. RegisterInv'
    <2>1. ASSUME calm, todo = << >> PROVE Repeated \/ (pc = "main" /\ ~ctl.hasData)
      BY <1>7, <2>1 DEF StreamInv, AskingInv
    <2> QED BY <1>5, <1>9, <2>1 DEF RegisterInv, Repeated
  <1>13. ToldInv'
    BY <1>5, <1>7, <1>9, SameUnread, SameTold DEF StreamInv
  <1> QED BY <1>8, <1>11, <1>12, <1>13 DEF StreamInv

LEMMA TimerStream == ASSUME Base, StreamInv, Timer PROVE StreamInv'
  <1>1. /\ UNCHANGED << line, queue, last, got, driver, user, flips >> /\ line.at = "idle"
        /\ ctl'.sendEna = ctl.sendEna /\ ctl'.hasData = ctl.hasData
        /\ ctl'.reg = ctl.reg /\ ctl'.sendData = ctl.sendData
    BY DEF Timer, RequestEnds, Idle, Line, keyboard, Base, IInv, FrameInv, Shape
  <1>2. (Asking' <=> Asking) /\ Pending' = Pending /\ Latest' = Latest
    BY <1>1 DEF Asking, Pending, Latest
  <1>3. SentInv'
    BY <1>1 DEF SentInv
  <1>4. RegisterInv' /\ AskingInv'
    BY <1>1, <1>2, SameRegister, SameAsking DEF StreamInv, driver, user, HeardResend
  <1>5. ToldInv'
    BY <1>1, <1>2, SameUnread, SameTold DEF StreamInv, driver, user
  <1> QED BY <1>3, <1>4, <1>5 DEF StreamInv

LEMMA ReceiveRisesStream == ASSUME OneBit, Base, StreamInv, ReceiveRises PROVE StreamInv'
  <1>1. PICK flip \in Noisy :
          /\ flip => line.i <= 8
          /\ flips' = IF flip THEN flips + 1 ELSE flips
          /\ got' = IF line.i > 8 THEN got
                    ELSE [got EXCEPT ![line.i] = IF flip THEN 1 - DataBit(ctl, line)
                                                 ELSE DataBit(ctl, line)]
    BY DEF ReceiveRises
  <1>2. /\ line.at = "receiving" /\ line.low
        /\ line.i = 10 => line'.at = "idle"
        /\ line.i # 10 => line'.at = "receiving" /\ line'.i = line.i + 1
        /\ queue' = IF line.i = 10 THEN Answered(got) \o queue ELSE queue
        /\ UNCHANGED << ctl, last, driver, user >>
        /\ line.i \in 0 .. 10 /\ flip \in BOOLEAN /\ (flip => flips < MaxFlips)
    BY DEF ReceiveRises, Idle, Line, Noisy, Base, IInv, TypeInv, TypeOK, FrameBits
  <1>3. UNCHANGED << pc, after, todo, extended, release, modifiers, events, pressed, calm, data >>
    BY <1>2 DEF driver, user
  <1>4. Asking /\ Latest = last /\ Pending = queue /\ Latest' = last /\ Pending' = queue'
    BY <1>2 DEF Asking, Latest, Pending
  <1>5. SentInv'
    BY <1>2 DEF SentInv
  <1>6. RegisterInv'
    <2>1. ASSUME calm, todo = << >> PROVE Repeated \/ (pc = "main" /\ ~ctl.hasData)
      BY <1>4, <2>1 DEF StreamInv, AskingInv
    <2> QED BY <1>2, <1>3, <2>1 DEF RegisterInv, Repeated
  <1>7. CASE line.i # 10
    <2>1. ctl.dataOutEna /\ Asking'
      BY <1>2, <1>7 DEF Base, IInv, FrameInv, ReceivingInv, AtLast, Asking
    <2>2. ASSUME calm, todo = << >> PROVE flips' = 1 /\ HeardResend'
      <3>1. flips = 1 /\ ctl.sendData = RESEND /\ HeardResend
        BY <1>4, <2>2 DEF StreamInv, AskingInv
      <3>2. ~flip /\ flips' = 1
        <4>1. MaxFlips \in Nat
          BY BoundsAssumption
        <4> QED BY <1>1, <1>2, <3>1, <4>1 DEF OneBit
      <3>3. CASE line.i = 9
        BY <1>1, <1>2, <3>1, <3>3 DEF HeardResend
      <3>4. CASE line.i <= 8
        <4>1. DataBit(ctl, line) = FrameBit(RESEND, line.i + 1)
          <5>1. ctl.sendCnt = line.i + 1 /\ line.data = 1
            BY <1>2, <2>1, <3>4 DEF Base, IInv, FrameInv, ReceivingInv, Edges, AtLast, TypeInv, LineInv
          <5>2. FrameBit(RESEND, line.i + 1) \in Bits
            <6>1. line.i + 1 \in FrameBits /\ RESEND \in Bytes
              BY <1>2, <3>4 DEF FrameBits, RESEND, Bytes
            <6> QED BY <6>1, BitTypes
          <5> QED BY <2>1, <3>1, <5>1, <5>2 DEF DataBit, PullsData, Bits
        <4>2. /\ got'[line.i] = FrameBit(RESEND, line.i + 1)
              /\ \A j \in 0 .. 8 : j < line.i => got'[j] = got[j]
          <5>1. got \in [0 .. 8 -> Bits] /\ line.i \in 0 .. 8
            BY <1>2, <3>4 DEF Base, IInv, TypeInv, TypeOK
          <5> QED BY <1>1, <3>2, <3>4, <4>1, <5>1
        <4>3. \A j \in 0 .. 8 : j < line'.i => j < line.i \/ j = line.i
          BY <1>2, <1>7, <3>4
        <4>4. \A j \in 0 .. 8 : j < line'.i => got'[j] = FrameBit(RESEND, j + 1)
          BY <1>2, <3>1, <4>2, <4>3 DEF HeardResend
        <4>5. HeardResend'
          BY <4>4 DEF HeardResend
        <4> QED BY <3>2, <4>5
      <3>5. line.i = 9 \/ line.i <= 8
        BY <1>2, <1>7
      <3> QED BY <3>2, <3>3, <3>4, <3>5
    <2>3. AskingInv'
      BY <1>2, <1>3, <1>4, <2>1, <2>2 DEF StreamInv, AskingInv, Repeated
    <2>4. ToldInv'
      BY <1>2, <1>3, <1>4, <1>7, <2>1, SameUnread, SameTold DEF StreamInv
    <2> QED BY <1>5, <1>6, <2>3, <2>4 DEF StreamInv
  <1>8. CASE line.i = 10
    <2>1. ~ctl.dataOutEna
      BY <1>2, <1>8 DEF Base, IInv, FrameInv, ReceivingInv, Edges, Shape, FrameBits
    <2>2. ASSUME calm, todo = << >> PROVE ~Asking' /\ Unread' = Unread
      <3>1. HeardResend /\ ~ctl.sendEna /\ (Repeated \/ (pc = "main" /\ ~ctl.hasData))
        BY <1>2, <1>4, <2>1, <2>2 DEF StreamInv, AskingInv
      <3>2. ~Asking'
        BY <1>2, <1>8, <3>1 DEF Asking
      <3>3. Answered(got) = << last >>
        <4>1. RESEND \in Bytes /\ got \in [0 .. 8 -> Bits]
          BY DEF RESEND, Bytes, Base, IInv, TypeInv, TypeOK
        <4>2. \A j \in 0 .. 8 : got[j] = FrameBit(RESEND, j + 1)
          BY <1>2, <1>8, <3>1 DEF HeardResend
        <4>3. PICK e \in 0 .. 9 : e = 9
          OBVIOUS
        <4>4. \A j \in 0 .. 8 : got[j] = IF j = e THEN 1 - FrameBit(RESEND, j + 1)
                                         ELSE FrameBit(RESEND, j + 1)
          BY <4>2, <4>3
        <4>5. Intact(got) /\ ByteOf(got) = RESEND
          BY <4>1, <4>3, <4>4, HeardWhole
        <4> QED BY <4>5 DEF Answered
      <3>4. Owed /\ ~Owed'
        BY <1>2, <1>3, <1>4, <3>1, <3>2 DEF Owed, Repeated
      <3> QED BY <1>2, <1>3, <1>4, <1>8, <2>2, <3>2, <3>3, <3>4 DEF Unread
    <2>3. AskingInv'
      BY <1>3, <2>2 DEF AskingInv
    <2>4. calm => Unread' = Unread
      BY <1>3, <2>2 DEF Unread
    <2>5. ToldInv'
      BY <1>3, <2>4, SameTold DEF StreamInv
    <2> QED BY <1>5, <1>6, <2>3, <2>5 DEF StreamInv
  <1> QED BY <1>7, <1>8

(* What is unread are bytes. *)
LEMMA LatestTypes == ASSUME Base PROVE Latest \in Bytes /\ Pending \in Seq(Bytes)
  <1>1. queue \in Seq(Bytes) /\ last \in Bytes
    BY DEF Base, IInv, TypeInv, TypeOK
  <1>2. line.at = "sending" =>
          queue # << >> /\ Head(queue) \in Bytes /\ Tail(queue) \in Seq(Bytes)
    BY <1>1, QueueTypes DEF Base, IInv, TypeInv, LineInv
  <1> QED BY <1>1, <1>2 DEF Latest, Pending

LEMMA Pushed ==
  ASSUME NEW x \in Bytes, NEW q \in Seq(Bytes)
  PROVE  /\ << x >> \o q \in Seq(Bytes) /\ << x >> \o q # << >>
         /\ Head(<< x >> \o q) = x /\ Tail(<< x >> \o q) = q
  <1>1. << x >> \in Seq(Bytes) /\ Len(<< x >>) = 1 /\ << x >>[1] = x
    OBVIOUS
  <1>2. << x >> \o q \in Seq(Bytes) /\ << x >> \o q # << >> /\ Head(<< x >> \o q) = x
    BY <1>1
  <1>3. /\ Tail(<< x >> \o q) \in Seq(Bytes) /\ Len(Tail(<< x >> \o q)) = Len(q)
        /\ \A j \in 1 .. Len(q) : Tail(<< x >> \o q)[j] = q[j]
    BY <1>1, <1>2
  <1> QED BY <1>2, <1>3

LEMMA UnreadTypes == ASSUME Base PROVE Unread \in Seq(Bytes)
  BY LatestTypes, Pushed DEF Unread

LEMMA PressStream == ASSUME Base, StreamInv, Press PROVE StreamInv'
  <1>1. PICK key \in Keys, up \in BOOLEAN :
          /\ pressed' = Append(pressed, [key |-> key, up |-> up])
          /\ queue' = queue \o Codes([key |-> key, up |-> up])
    BY DEF Press
  <1>2. PICK a \in Acts : a = [key |-> key, up |-> up]
    BY DEF Acts
  <1>3. /\ UNCHANGED << ctl, line, last, got, pc, after, todo, extended, release, modifiers,
                        events, calm, data, flips >>
        /\ calm => todo = << >>
        /\ pressed' = Append(pressed, a) /\ queue' = queue \o Codes(a)
    BY <1>1, <1>2 DEF Press, driver
  <1>4. queue \in Seq(Bytes) /\ Codes(a) \in Seq(Bytes) /\ (line.at = "sending" => queue # << >>)
    BY CodesTypes DEF Acts, Base, IInv, TypeInv, TypeOK, LineInv
  <1>5. pressed \in Seq(Acts) /\ pressed' \in Seq(Acts) /\ Len(pressed') = Len(pressed) + 1
    <2>1. pressed \in Seq(Acts)
      BY DEF StreamInv, ToldInv
    <2> QED BY <1>3, <2>1
  <1>6. line.at = "sending" => Head(queue') = Head(queue) /\ Tail(queue') = Tail(queue) \o Codes(a)
    BY <1>3, <1>4
  <1>7. (Asking' <=> Asking) /\ Latest' = Latest /\ Pending' = Pending \o Codes(a)
    BY <1>3, <1>6 DEF Asking, Latest, Pending, AtLast
  <1>8. SentInv'
    <2>1. SUFFICES ASSUME line.at = "sending", ~ctl.sendEna, ~ctl.hasData, ~AtLast
                   PROVE  \E e \in 0 .. 11 : ClockedBut(Head(queue), e)'
      BY <1>3 DEF SentInv, AtLast
    <2>2. PICK e \in 0 .. 11 : ClockedBut(Head(queue), e)
      BY <2>1 DEF StreamInv, SentInv
    <2>3. ClockedBut(Head(queue), e)'
      BY <1>3, <1>6, <2>1, <2>2 DEF ClockedBut, Edges, SentBitAt
    <2> QED BY <2>3
  <1>9. RegisterInv'
    BY <1>3, <1>7, SameRegister DEF StreamInv
  <1>10. AskingInv'
    BY <1>3, <1>7, SameAsking DEF StreamInv, HeardResend
  <1>11. ASSUME calm PROVE Follows(pressed, Unread, Here, Told(Len(pressed)))'
    <2>1. Follows(pressed, Unread, Here, Told(Len(pressed)))
      BY <1>11 DEF StreamInv, ToldInv
    <2>2. PICK u \in Seq(Bytes) : u = Unread
      BY UnreadTypes
    <2>3. Unread' = u \o Codes(a)
      <3>1. (Owed' <=> Owed) /\ todo = << >> /\ todo' = << >>
        BY <1>3, <1>7, <1>11 DEF Owed, Repeated
      <3>2. CASE Owed
        <4>1. Latest \in Bytes /\ Pending \in Seq(Bytes)
          BY LatestTypes
        <4>2. << Latest >> \in Seq(Bytes)
          BY <4>1
        <4>3. << Latest >> \o (Pending \o Codes(a)) = (<< Latest >> \o Pending) \o Codes(a)
          BY <1>4, <4>1, <4>2
        <4> QED BY <1>7, <2>2, <3>1, <3>2, <4>3 DEF Unread
      <3>3. CASE ~Owed
        BY <1>7, <2>2, <3>1, <3>3 DEF Unread
      <3> QED BY <3>2, <3>3
    <2>4. Follows(Append(pressed, a), u, Here, Told(Len(pressed)))
      BY <1>5, <2>1, <2>2, FollowsLonger
    <2>5. Follows(Append(pressed, a), Codes(a), Told(Len(pressed)), Told(Len(pressed) + 1))
      BY <1>5, FollowsCodes
    <2>6. Follows(Append(pressed, a), u \o Codes(a), Here, Told(Len(pressed) + 1))
      BY <1>4, <2>4, <2>5, FollowsBoth
    <2>7. Here' = Here
      BY <1>3 DEF Here
    <2> QED BY <1>3, <1>5, <2>3, <2>6, <2>7
  <1>12. ToldInv'
    BY <1>3, <1>5, <1>11 DEF StreamInv, ToldInv
  <1> QED BY <1>8, <1>9, <1>10, <1>12 DEF StreamInv

(* A command, while it is out: nothing is to be told. *)
LEMMA CommandStream ==
  ASSUME StreamInv, UNCHANGED << extended, release, modifiers, events, pressed, calm >>, SentInv',
         calm => todo' # << >> /\ Unread = << >>
  PROVE  StreamInv'
  <1>1. RegisterInv' /\ AskingInv'
    BY DEF RegisterInv, AskingInv
  <1>2. calm => Unread' = Unread
    BY DEF Unread
  <1> QED BY <1>1, <1>2, SameTold DEF StreamInv

LEMMA SendStream ==
  ASSUME Base, StreamInv, SendCommand \/ SendCheck \/ SendAwait \/ SendAnswer PROVE StreamInv'
  <1>1. UNCHANGED << ctl, line, queue, last, got, flips, extended, release, modifiers, events,
                     pressed, calm >>
    BY DEF SendCommand, SendCheck, SendAwait, SendAnswer, Decoding, NotDriver, keyboard, user
  <1>2. SentInv'
    BY <1>1 DEF StreamInv, SentInv, ClockedBut, SentBitAt, Edges, AtLast
  <1>3. CASE SendCommand
    <2>1. pc = "main" /\ todo' # << >> /\ (calm => line = Idle /\ queue = << >> /\ ~ctl.hasData)
      BY <1>3, CommandsAssumption DEF SendCommand, Goes
    <2>2. ~ctl.sendEna /\ todo = << >>
      BY <2>1 DEF Base, IInv, TypeInv, DriverInv, Idles
    <2>3. calm => Unread = << >>
      BY <2>1, <2>2 DEF Unread, Owed, Repeated, Asking, Pending, Idle, Line
    <2> QED BY <1>1, <1>2, <2>1, <2>3, CommandStream
  <1>4. CASE SendCheck \/ SendAwait \/ SendAnswer
    <2>1. todo # << >>
      BY <1>4 DEF SendCheck, SendAwait, SendAnswer, Goes, Base, IInv, TypeInv, DriverInv, Idles
    <2>2. calm => todo' = todo
      BY <1>4, <2>1 DEF SendCheck, SendAwait, SendAnswer, Base, TurnInv
    <2> QED BY <1>1, <1>2, <2>1, <2>2, CommandStream DEF Unread
  <1> QED BY <1>3, <1>4

LEMMA AskStream == ASSUME Base, StreamInv, SendStart \/ SendAgain PROVE StreamInv'
  <1>1. PICK byte \in Bytes : Asks(byte)
    <2>1. CASE SendStart
      BY <2>1, TodoTypes DEF SendStart, Goes, Idles, Base
    <2>2. CASE SendAgain
      BY <2>2 DEF SendAgain, RESEND, Bytes
    <2> QED BY <2>1, <2>2
  <1>2. /\ UNCHANGED << todo, extended, release, modifiers, events, pressed, calm >>
        /\ UNCHANGED keyboard /\ Rdy(ctl) /\ pc \in {"start", "again"}
    BY DEF SendStart, SendAgain, Goes, Decoding, NotDriver, user
  <1>3. SentInv'
    <2>1. ctl'.sendEna = TRUE
      BY <1>1, <1>2, AsksTypes DEF Base
    <2> QED BY <2>1 DEF SentInv
  <1>4. todo # << >>
    BY <1>2 DEF Base, IInv, TypeInv, DriverInv, Idles
  <1> QED BY <1>2, <1>3, <1>4, CommandStream DEF Unread

LEMMA PollStream == ASSUME Base, StreamInv, PollStatus \/ PollData \/ PollRepeat PROVE StreamInv'
  <1>1. UNCHANGED << line, queue, last, got, flips, todo, extended, release, modifiers, events,
                     pressed, calm >>
    BY DEF PollStatus, PollData, PollRepeat, Decoding, NotDriver, keyboard, user
  <1>2. todo = << >> /\ ctl.hasData /\ ~ctl.sendEna /\ pc \in {"main", "read", "repeat"}
    BY DEF PollStatus, PollData, PollRepeat, Goes, Rdy, Base, IInv, TypeInv, DriverInv, Idles
  <1>3. ~Repeated /\ Owed /\ Latest' = Latest /\ Pending' = Pending
    BY <1>1, <1>2 DEF Repeated, Owed, Latest, Pending, AtLast
  <1>4. calm => ~Asking /\ ReceivedAs(Latest)
    BY <1>2, <1>3 DEF StreamInv, AskingInv, RegisterInv
  <1>5. Owed' => Unread' = Unread
    BY <1>1, <1>3 DEF Unread
  <1>6. CASE PollStatus \/ PollData
    <2>1. ctl' = ctl
      BY <1>6 DEF PollStatus, PollData
    <2>2. /\ pc' \in {"read", "repeat", "clear"} /\ (pc' = "clear" => after' = "event")
          /\ pc' = "read" => RecvValid(ctl)
          /\ pc' = "repeat" => ~RecvValid(ctl)
          /\ pc' = "clear" => pc = "read" /\ data' = RecvByte(ctl)
      BY <1>6 DEF PollStatus, PollData, Goes
    <2>3. (Asking' <=> Asking) /\ ~Repeated' /\ Owed'
      BY <1>1, <1>2, <2>1, <2>2 DEF Asking, Repeated, Owed
    <2>4. SentInv'
      BY <1>2, <2>1 DEF SentInv
    <2>5. AskingInv'
      BY <1>1, <1>4, <2>3 DEF AskingInv
    <2>6. RegisterInv'
      <3>1. SUFFICES ASSUME calm PROVE RegisterInv'
        BY <1>1 DEF RegisterInv
      <3>2. ReceivedAs(Latest)'
        BY <1>1, <1>3, <1>4, <2>1, <3>1 DEF ReceivedAs
      <3>3. pc' = "clear" => data' = Latest'
        <4>1. pc = "read" => RecvValid(ctl)
          BY <1>2, <3>1 DEF StreamInv, RegisterInv
        <4> QED BY <1>3, <1>4, <2>2, <3>1, <4>1 DEF ReceivedAs
      <3> QED BY <2>1, <2>2, <3>2, <3>3 DEF RegisterInv
    <2>7. ToldInv'
      BY <1>1, <1>5, <2>3, SameTold DEF StreamInv
    <2> QED BY <2>4, <2>5, <2>6, <2>7 DEF StreamInv
  <1>7. CASE PollRepeat
    <2>1. pc = "repeat" /\ pc' = "clear" /\ after' = "main" /\ Rdy(ctl) /\ Asks(RESEND)
      BY <1>7 DEF PollRepeat, Goes
    <2>2. RESEND \in Bytes
      BY DEF RESEND, Bytes
    <2>3. ctl'.sendEna = TRUE /\ ctl'.sendData = RESEND
      BY <1>1, <2>1, <2>2, AsksTypes DEF Base, keyboard
    <2>4. Repeated' /\ Asking' /\ Owed'
      BY <2>1, <2>3 DEF Repeated, Asking, Owed
    <2>5. SentInv'
      BY <2>3 DEF SentInv
    <2>6. AskingInv'
      <3>1. SUFFICES ASSUME calm PROVE AskingInv'
        BY <1>1 DEF AskingInv
      <3>2. line'.at # "receiving"
        BY <1>1, <1>4, <3>1 DEF Asking
      <3>3. flips' = 1
        <4>1. ~RecvValid(ctl)
          BY <1>2, <2>1, <3>1 DEF StreamInv, RegisterInv
        <4> QED BY <1>1, <1>4, <3>1, <4>1 DEF ReceivedAs
      <3> QED BY <2>3, <2>4, <3>2, <3>3 DEF AskingInv, HeardResend
    <2>7. RegisterInv'
      BY <2>1, <2>4 DEF RegisterInv, Repeated
    <2>8. ToldInv'
      BY <1>1, <1>5, <2>4, SameTold DEF StreamInv
    <2> QED BY <2>5, <2>6, <2>7, <2>8 DEF StreamInv
  <1> QED BY <1>6, <1>7

(* The end of a byte: an event, a repeat that has been asked for, or a     *)
(* command's.                                                              *)
LEMMA ClearTold ==
  ASSUME Base, StreamInv, Clear, calm, after = "event"
  PROVE  /\ ToldInv'
         /\ \/ UNCHANGED << events, modifiers >>
            \/ /\ Len(events) < Len(pressed)
               /\ events' = Append(events, pressed[Len(events) + 1])
               /\ modifiers' = Promise!Held(events')
  <1>1. /\ pc = "clear" /\ pc' = "main" /\ ~ctl.sendEna /\ Decoded
        /\ UNCHANGED << line, queue, last, todo, after, calm, pressed >>
        /\ ctl' = WriteStatus(ctl, line.data)
    BY DEF Clear, Rdy, NotDriver, keyboard, user
  <1>2. todo = << >> /\ ctl.hasData /\ ~ctl'.hasData /\ ~ctl'.sendEna
    BY <1>1, WriteStatusFields DEF Base, IInv, FrameInv, TypeInv, DriverInv, Idles
  <1>3. ~Repeated /\ data = Latest
    BY <1>1, <1>2 DEF Repeated, StreamInv, RegisterInv
  <1>4. ~Asking /\ ~Asking'
    BY <1>1, <1>2, <1>3 DEF StreamInv, AskingInv, Asking
  <1>5. Latest \in Bytes /\ Pending \in Seq(Bytes) /\ Pending' = Pending /\ Latest' = Latest
    BY <1>1, LatestTypes DEF Latest, Pending, AtLast
  <1>6. Unread = << Latest >> \o Pending /\ Unread' = Pending
    <2>1. Owed /\ ~Owed'
      BY <1>1, <1>2, <1>3, <1>4 DEF Owed, Repeated
    <2> QED BY <1>1, <1>2, <1>5, <2>1 DEF Unread
  <1>7. /\ pressed \in Seq(Acts) /\ events \in Seq(Acts) /\ modifiers = Promise!Held(events)
        /\ Follows(pressed, Unread, Here, Told(Len(pressed)))
    BY DEF StreamInv, ToldInv
  <1>8. PICK s \in Seq(Bytes) : s = Unread /\ s # << >> /\ Head(s) = Latest /\ Tail(s) = Pending
    BY <1>5, <1>6, Pushed
  <1>9. Here \in Reader /\ \E r \in Reader : Reads(pressed, Here, Head(s), r)
                                             /\ Follows(pressed, Tail(s), r, Told(Len(pressed)))
    BY <1>7, <1>8, FollowsFirst
  <1>10. PICK r \in Reader : /\ Reads(pressed, Here, data, r)
                             /\ Follows(pressed, Pending, r, Told(Len(pressed)))
    BY <1>3, <1>8, <1>9
  <1>11. /\ Here' = r /\ events' \in Seq(Acts) /\ modifiers' = Promise!Held(events')
         /\ \/ UNCHANGED << events, modifiers >>
            \/ Len(events) < Len(pressed) /\ events' = Append(events, pressed[Len(events) + 1])
    BY <1>1, <1>7, <1>10, DecodesNext DEF Base
  <1>12. ToldInv'
    BY <1>1, <1>6, <1>7, <1>10, <1>11 DEF ToldInv
  <1> QED BY <1>11, <1>12

LEMMA ClearStream == ASSUME Base, StreamInv, Clear PROVE StreamInv'
  <1>1. /\ pc = "clear" /\ ~ctl.sendEna /\ after' = after
        /\ UNCHANGED << line, queue, last, got, flips, calm, pressed >>
        /\ ctl' = WriteStatus(ctl, line.data)
    BY DEF Clear, Rdy, NotDriver, keyboard, user
  <1>2. ctl.hasData /\ ~ctl'.hasData /\ ~ctl'.sendEna
    BY <1>1, WriteStatusFields DEF Base, IInv, FrameInv, TypeInv, DriverInv
  <1>3. (Asking' <=> Asking) /\ Pending' = Pending /\ Latest' = Latest
    BY <1>1, <1>2 DEF Asking, Pending, Latest, AtLast
  <1>4. SentInv'
    <2>1. line.at = "sending" => AtLast
      BY <1>1, <1>2 DEF Base, IInv, FrameInv, SendingInv
    <2> QED BY <1>1, <2>1 DEF SentInv, AtLast
  <1>5. pc' \notin {"read", "repeat", "clear"}
    BY <1>1 DEF Clear, Returns, Base, IInv, TypeInv, TypeOK
  <1>6. RegisterInv'
    BY <1>2, <1>5 DEF RegisterInv
  <1>7. CASE after = "event"
    <2>1. todo = << >> /\ todo' = todo /\ ~Repeated
      BY <1>1, <1>7 DEF Clear, Repeated, Base, IInv, TypeInv, DriverInv, Idles
    <2>2. calm => ~Asking
      BY <1>2, <2>1 DEF StreamInv, AskingInv
    <2>3. AskingInv'
      BY <1>1, <1>3, <2>2 DEF AskingInv
    <2>4. ToldInv'
      BY <1>1, <1>7, ClearTold DEF StreamInv, ToldInv
    <2> QED BY <1>4, <1>6, <2>3, <2>4 DEF StreamInv
  <1>8. CASE after # "event"
    <2>1. UNCHANGED << extended, release, modifiers, events >>
      BY <1>8 DEF Clear, Decoding
    <2>2. CASE after = "main"
      <3>1. todo = << >> /\ todo' = todo /\ Repeated /\ pc' = "main"
        BY <1>1, <2>2 DEF Clear, Repeated, Base, IInv, TypeInv, DriverInv, Idles
      <3>2. Unread' = Unread
        BY <1>2, <1>3, <3>1 DEF Unread, Owed, Repeated
      <3>3. AskingInv'
        <4>1. ASSUME calm, Asking PROVE flips' = 1 /\ ctl'.sendData = RESEND /\ HeardResend'
          <5>1. ctl'.sendData = ctl.sendData
            BY <1>1 DEF WriteStatus, Base, IInv, FrameInv, Shape
          <5> QED BY <1>1, <3>1, <4>1, <5>1 DEF StreamInv, AskingInv, HeardResend
        <4> QED BY <1>1, <1>2, <1>3, <3>1, <4>1 DEF AskingInv
      <3>4. ToldInv'
        BY <1>1, <2>1, <3>2, SameTold DEF StreamInv
      <3> QED BY <1>4, <1>6, <3>3, <3>4 DEF StreamInv
    <2>3. CASE after # "main"
      <3>1. todo # << >>
        BY <1>1, <1>8, <2>3 DEF Base, IInv, TypeInv, DriverInv, Idles
      <3>2. calm /\ todo' = << >> => Still
        BY <1>1, <1>8, <2>3, <3>1 DEF Clear, Base, TurnInv
      <3>3. calm => Unread' = Unread
        <4>1. todo' = << >> => after = "end" /\ pc' = "main"
          BY <2>3, <1>8, <3>1 DEF Clear, Returns
        <4> QED BY <1>1, <1>2, <1>3, <3>1, <3>2, <4>1 DEF Unread, Owed, Repeated, Still
      <3>4. AskingInv'
        BY <1>1, <1>3, <3>2 DEF AskingInv, Still
      <3>5. ToldInv'
        BY <1>1, <2>1, <3>3, SameTold DEF StreamInv
      <3> QED BY <1>4, <1>6, <3>4, <3>5 DEF StreamInv
    <2> QED BY <2>2, <2>3
  <1> QED BY <1>7, <1>8

LEMMA InitStream == ASSUME Init PROVE StreamInv
  <1>1. SentInv /\ RegisterInv /\ AskingInv
    BY DEF Init, Idle, Line, SentInv, RegisterInv, AskingInv, Asking, Reset
  <1>2. Here = Told(0) /\ Told(0) \in Reader
    BY DEF Init, Here, Told, Reader
  <1>3. Unread = << BAT_PASSED >>
    BY DEF Init, Unread, Owed, Repeated, Asking, Pending, Reset, Idle, Line
  <1>4. Reads(pressed, Told(0), BAT_PASSED, Told(0))
    BY DEF Reads, Told
  <1>5. Follows(pressed, Unread, Here, Told(0))
    BY <1>2, <1>3, <1>4, FollowsOne
  <1>6. Promise!Held(<< >>) = {}
    BY DEF Promise!Held
  <1>7. ToldInv
    BY <1>5, <1>6 DEF Init, ToldInv
  <1> QED BY <1>1, <1>7 DEF StreamInv

LEMMA NextStream == ASSUME OneBit, Base, StreamInv, TypeOK', [Next]_vars PROVE StreamInv'
  <1>1. CASE UNCHANGED vars
    <2>1. UNCHANGED << ctl, line, queue, last, got, pc, after, data, todo, extended, release,
                       modifiers, pressed, events, calm, flips >>
      BY <1>1 DEF vars, keyboard, driver, user
    <2>2. (Asking' <=> Asking) /\ Pending' = Pending /\ Latest' = Latest
      BY <2>1 DEF Asking, Pending, Latest, AtLast
    <2>3. SentInv'
      BY <2>1 DEF StreamInv, SentInv, ClockedBut, SentBitAt, Edges, AtLast
    <2>4. RegisterInv' /\ AskingInv'
      BY <2>1, <2>2, SameRegister, SameAsking DEF StreamInv, HeardResend
    <2>5. ToldInv'
      BY <2>1, <2>2, SameUnread, SameTold DEF StreamInv
    <2> QED BY <2>3, <2>4, <2>5 DEF StreamInv
  <1>2. CASE KeyboardSteps
    BY <1>2, SendBeginsStream, SendFallsStream, SendRisesStream, ReceiveBeginsStream,
       ReceiveFallsStream, ReceiveRisesStream DEF KeyboardSteps
  <1>3. CASE DriverSteps
    BY <1>3, PollStream, SendStream, AskStream, ClearStream DEF DriverSteps
  <1> QED BY <1>1, <1>2, <1>3, PressStream, SendStream, TimerStream DEF Next

(* What the program and the user see of a step. *)
Seen == << IF calm THEN pressed ELSE << >>, IF calm THEN events ELSE << >>,
           IF calm THEN modifiers ELSE {} >>

LEMMA StepTells ==
  ASSUME Base, StreamInv, [Next]_vars PROVE Promise!Next \/ UNCHANGED Seen
  <1>1. calm' = calm
    BY DEF Next, KeyboardSteps, DriverSteps, SendBegins, SendFalls, SendRises, ReceiveBegins,
           ReceiveFalls, ReceiveRises, Timer, Press, SendCommand, PollStatus, PollData,
           PollRepeat, SendCheck, SendStart, SendAwait, SendAnswer, SendAgain, Clear,
           NotDriver, user, vars
  <1>2. CASE ~calm
    BY <1>1, <1>2 DEF Seen
  <1>3. CASE calm /\ Press
    <2>1. PICK key \in Keys, up \in BOOLEAN :
            pressed' = Append(pressed, [key |-> key, up |-> up])
      BY <1>3 DEF Press
    <2>2. [key |-> key, up |-> up] \in [key : Keys, up : BOOLEAN]
      OBVIOUS
    <2>3. UNCHANGED << events, modifiers >>
      BY <1>3 DEF Press, driver
    <2>4. Promise!Press
      BY <1>1, <1>3, <2>1, <2>2, <2>3 DEF Promise!Press
    <2> QED BY <2>4 DEF Promise!Next
  <1>4. CASE calm /\ Clear /\ after = "event"
    <2>1. pressed' = pressed
      BY <1>4 DEF Clear, NotDriver, user
    <2>2. \/ UNCHANGED << events, modifiers >>
          \/ /\ Len(events) < Len(pressed)
             /\ events' = Append(events, pressed[Len(events) + 1])
             /\ modifiers' = Promise!Held(events')
      BY <1>4, ClearTold
    <2>3. CASE UNCHANGED << events, modifiers >>
      BY <1>1, <2>1, <2>3 DEF Seen
    <2>4. CASE /\ Len(events) < Len(pressed)
               /\ events' = Append(events, pressed[Len(events) + 1])
               /\ modifiers' = Promise!Held(events')
      <3>1. Promise!Tell
        BY <1>1, <1>4, <2>1, <2>4 DEF Promise!Tell
      <3> QED BY <3>1 DEF Promise!Next
    <2> QED BY <2>2, <2>3, <2>4
  <1>5. CASE ~Press /\ ~(Clear /\ after = "event")
    <2>1. UNCHANGED << pressed, events, modifiers >>
      <3>1. CASE Clear
        BY <1>5, <3>1 DEF Clear, NotDriver, user, Decoding
      <3>2. CASE ~Clear
        BY <1>5, <3>2 DEF Next, KeyboardSteps, DriverSteps, SendBegins, SendFalls, SendRises,
           ReceiveBegins, ReceiveFalls, ReceiveRises, Timer, SendCommand, PollStatus, PollData,
           PollRepeat, SendCheck, SendStart, SendAwait, SendAnswer, SendAgain, NotDriver, user,
           vars, driver, Decoding
      <3> QED BY <3>1, <3>2
    <2> QED BY <1>1, <2>1 DEF Seen
  <1> QED BY <1>2, <1>3, <1>4, <1>5

(* Every key that is pressed or let go is told once and in order, with the *)
(* modifiers held then, if keys are left alone while a command is out and  *)
(* noise turns over at most one bit: with two, the RESEND may be corrupted *)
(* too, and the key is lost.                                               *)
THEOREM Refinement == ASSUME OneBit PROVE Spec => Implements
  <1> DEFINE Inv == Base /\ StreamInv
  <1>1. Init => Inv
    <2>1. Init => TurnInv
      BY DEF Init, TurnInv, Idle, Line
    <2> QED BY <2>1, InitTypes, InitStream DEF Base
  <1>2. Inv /\ [Next]_vars => Inv'
    <2> SUFFICES ASSUME Inv, [Next]_vars PROVE Inv'
      OBVIOUS
    <2>1. Base'
      BY NextTypes, NextTurn DEF Base
    <2>2. TypeOK'
      BY <2>1 DEF Base, IInv, TypeInv
    <2> QED BY <2>1, <2>2, NextStream
  <1>3. Init => Promise!Init
    BY DEF Init, Promise!Init
  <1>4. Inv /\ [Next]_vars => [Promise!Next]_Seen
    BY StepTells
  <1> HIDE DEF Inv
  <1> QED BY <1>1, <1>2, <1>3, <1>4, PTL DEF Spec, Implements, Promise!Spec, Seen
=============================================================================
