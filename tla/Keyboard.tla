------------------------------ MODULE Keyboard ------------------------------
(***************************************************************************)
(* A keyboard on the PS/2 controller and the driver that polls it          *)
(* (app/lib/ps2.na, app/lib/ps2keyboard.na).  The keyboard clocks every    *)
(* bit in its own time; the driver may access the bus between any two      *)
(* edges.  The keyboard is that of model/test/test_ps2.v: it gives up a    *)
(* frame when it finds its clock held, and begins it again.  That it       *)
(* answers commands, and repeats its last byte when asked, is taken from   *)
(* the driver, which waits for it.                                         *)
(***************************************************************************)
EXTENDS Ps2

CONSTANTS
  Keys,           \* [ext, code, mask] of the keys, as in the driver's tables
  Commands,       \* what the program may send: sequences of bytes
  MaxActions,     \* bound: keys pressed and let go
  MaxCommands,    \* bound: commands sent
  MaxFlips        \* bound: bits that noise turns over

ASSUME CommandsAssumption == Commands \subseteq Seq(Bytes) \ {<< >>}
ASSUME BoundsAssumption == MaxActions \in Nat /\ MaxCommands \in Nat /\ MaxFlips \in Nat

ACK == 250
RESEND == 254
BAT_PASSED == 170
BUFFER_OVERRUN == 0
EXTENDED == {224, 225}
RELEASE == 240

(* A code that means something else is no key's in the driver's tables,    *)
(* which have one key for a code.                                          *)
ASSUME KeysAssumption ==
  /\ \A key \in Keys :
       /\ key.ext \in BOOLEAN
       /\ key.code \in Bytes \ ({BAT_PASSED, BUFFER_OVERRUN, RELEASE} \cup EXTENDED)
  /\ \A key, other \in Keys : key.code = other.code /\ key.ext = other.ext => key = other

VARIABLES
  ctl,        \* the controller
  line,       \* the keyboard's end of the lines: [at, i, low, data]
  queue,      \* the bytes that the keyboard has yet to send
  last,       \* the byte it sent last
  got,        \* the command it receives: recv_data, and recv_parity as bit 8
  down,       \* the keys that are down
  pc, after,  \* where the driver is, and where it goes from "clear"
  data,       \* the byte that it read
  todo,       \* the bytes of the command that are left
  extended, release, modifiers,
  pressed, events,    \* history: what the user did, what the program was told
  took,               \* history: the keyboard received the byte being sent
  calm,               \* whether keys are left alone while a command is out
  commands, flips     \* counted up to their bounds

keyboard == << line, queue, last, got >>
driver == << pc, after, data, todo, extended, release, modifiers, events >>
user == << down, pressed, calm >>
vars == << ctl, keyboard, driver, user, took, commands, flips >>

ClkLow == line.low \/ PullsClk(ctl)
DataBit(c, l) == IF PullsData(c) THEN 0 ELSE l.data
Line(at, i, low, bit) == [at |-> at, i |-> i, low |-> low, data |-> bit]
Nothing == [i \in 0 .. 8 |-> 0]
Idle == Line("idle", 0, FALSE, 1)
Noisy == IF flips < MaxFlips THEN BOOLEAN ELSE {FALSE}

Init ==
  /\ ctl = Reset
  /\ line = Idle /\ queue = << BAT_PASSED >> /\ last = BAT_PASSED /\ got = Nothing
  /\ pc = "main" /\ after = "main" /\ data = 0 /\ todo = << >>
  /\ extended = FALSE /\ release = FALSE /\ modifiers = {} /\ events = << >>
  /\ down = {} /\ pressed = << >> /\ calm \in BOOLEAN
  /\ took = FALSE /\ commands = 0 /\ flips = 0

---------------------------------------------------------------------------
(* The user and the keyboard. *)

Codes(a) ==
  (IF a.key.ext THEN << 224 >> ELSE << >>)
    \o (IF a.up THEN << RELEASE >> ELSE << >>) \o << a.key.code >>

Press ==
  /\ Len(pressed) < MaxActions
  /\ calm => todo = << >>
  /\ \E key \in Keys, up \in BOOLEAN :
       /\ up => key \in down
       /\ down' = IF up THEN down \ {key} ELSE down \cup {key}
       /\ pressed' = Append(pressed, [key |-> key, up |-> up])
       /\ queue' = queue \o Codes([key |-> key, up |-> up])
  /\ UNCHANGED << ctl, line, last, got, driver, calm, took, commands, flips >>

(* transmit_to_host.  A frame begins when the clock is up and nothing is   *)
(* asked of the keyboard.                                                  *)
SendBegins ==
  /\ line = Idle /\ queue # << >> /\ ~ClkLow /\ ~PullsData(ctl)
  /\ line' = Line("sending", 0, FALSE, 0)
  /\ UNCHANGED << ctl, queue, last, got, driver, user, took, commands, flips >>

SendFalls ==
  /\ line.at = "sending" /\ ~line.low
  /\ line' = [line EXCEPT !.low = TRUE]
  /\ \E flip \in Noisy :
       /\ ctl' = IF PullsClk(ctl) THEN ctl
                 ELSE ClkFalls(ctl, IF flip THEN 1 - line.data ELSE line.data)
       /\ flips' = IF flip THEN flips + 1 ELSE flips
  /\ UNCHANGED << queue, last, got, driver, user, took, commands >>

(* The clock goes up: the next bit, or the end, or the clock is held.      *)
SendRises ==
  /\ line.at = "sending" /\ line.low
  /\ IF line.i = 10
     THEN line' = Idle /\ last' = Head(queue) /\ queue' = Tail(queue)
     ELSE /\ UNCHANGED << queue, last >>
          /\ line' = IF PullsClk(ctl) THEN Idle
                     ELSE Line("sending", line.i + 1, FALSE, FrameBit(Head(queue), line.i + 1))
  /\ UNCHANGED << ctl, got, driver, user, took, commands, flips >>

(* The keyboard is asked to receive: the clock was held and let go with    *)
(* the data line low.                                                      *)
ReceiveBegins ==
  /\ line = Idle /\ ~ClkLow /\ PullsData(ctl)
  /\ line' = Line("receiving", 0, FALSE, 1) /\ got' = Nothing
  /\ UNCHANGED << ctl, queue, last, driver, user, took, commands, flips >>

ReceiveFalls ==
  /\ line.at = "receiving" /\ ~line.low
  /\ line' = [line EXCEPT !.low = TRUE]
  /\ ctl' = ClkFalls(ctl, DataBit(ctl, line))
  /\ UNCHANGED << queue, last, got, driver, user, took, commands, flips >>

Intact(g) == g[8] = OddParity(ByteOf(g))
Answered(g) ==
  CASE ~Intact(g) -> << RESEND >>
    [] Intact(g) /\ ByteOf(g) = RESEND -> << last >>
    [] OTHER -> << ACK >>
ReceiveRises ==
  /\ line.at = "receiving" /\ line.low
  /\ line' = IF line.i = 10 THEN Idle
             ELSE Line("receiving", line.i + 1, FALSE, IF line.i = 9 THEN 0 ELSE 1)
  /\ \E flip \in Noisy :
       /\ flip => line.i <= 8
       /\ flips' = IF flip THEN flips + 1 ELSE flips
       /\ got' = IF line.i > 8 THEN got
                 ELSE [got EXCEPT ![line.i] = IF flip THEN 1 - DataBit(ctl, line)
                                          ELSE DataBit(ctl, line)]
  /\ queue' = IF line.i = 10 THEN Answered(got) \o queue ELSE queue
  /\ took' = (took \/ (line.i = 8 /\ Intact(got') /\ todo # << >> /\ ByteOf(got') = Head(todo)))
  /\ UNCHANGED << ctl, last, driver, user, commands >>

(* The controller's own timer: far longer than a bit of the keyboard's, so *)
(* that a frame has been given up when it ends.                            *)
Timer ==
  /\ ctl.sendEna /\ ~ctl.dataOutEna /\ line = Idle
  /\ ctl' = RequestEnds(ctl)
  /\ UNCHANGED << keyboard, driver, user, took, commands, flips >>

---------------------------------------------------------------------------
(* The driver.  A read of the status register that finds no data changes   *)
(* nothing and is left out.                                                *)

Goes(from, to) == pc = from /\ pc' = to

Asks(byte) == ctl' = WriteData(ctl, byte, ~ClkLow, DataBit(ctl, line))
Decoding == << extended, release, modifiers, events >>
NotDriver == << keyboard, user, flips >>

(* ps2_read, called by ps2_get_key_event. *)
PollStatus ==
  /\ Rdy(ctl) /\ ctl.hasData
  /\ Goes("main", IF RecvValid(ctl) THEN "read" ELSE "repeat")
  /\ UNCHANGED << ctl, after, data, todo, Decoding, NotDriver, took, commands >>
PollData ==
  /\ Rdy(ctl) /\ Goes("read", "clear") /\ after' = "event"
  /\ data' = RecvByte(ctl)
  /\ UNCHANGED << ctl, todo, Decoding, NotDriver, took, commands >>
GivesUp ==     \* a mutant
  /\ Rdy(ctl) /\ Goes("repeat", "clear") /\ after' = "main"
  /\ UNCHANGED << ctl, data, todo, Decoding, NotDriver, took, commands >>
PollRepeat ==
  /\ Rdy(ctl) /\ Goes("repeat", "clear") /\ after' = "main"
  /\ Asks(RESEND)
  /\ UNCHANGED << data, todo, Decoding, NotDriver, took, commands >>

(* ps2_get_key_event.  A code that the tables do not have, READ_EMPTY      *)
(* among them, changes nothing: what came before it stays for the next     *)
(* code.  KeyOnly is a mutant: only a key that is pressed sets its mask.   *)
KeysOf(code, ext) == { key \in Keys : key.code = code /\ key.ext = ext }
KeyOnly(key) ==
  /\ events' = Append(events, [key |-> key, up |-> release])
  /\ modifiers' = modifiers \cup key.mask
KeyEvent(key) ==
  /\ events' = Append(events, [key |-> key, up |-> release])
  /\ modifiers' = IF release THEN modifiers \ key.mask ELSE modifiers \cup key.mask
KeyTold(key) == KeyEvent(key) /\ extended' = FALSE /\ release' = FALSE
Decoded ==
  CASE data \in {BAT_PASSED, BUFFER_OVERRUN} ->
         extended' = FALSE /\ release' = FALSE /\ UNCHANGED << modifiers, events >>
    [] data = RELEASE -> release' = TRUE /\ UNCHANGED << extended, modifiers, events >>
    [] data \in EXTENDED -> extended' = TRUE /\ UNCHANGED << release, modifiers, events >>
    [] OTHER ->
         IF KeysOf(data, extended) = {} THEN UNCHANGED Decoding
         ELSE \E key \in KeysOf(data, extended) : KeyTold(key)

(* send_byte, of the first byte of todo: it returns at once if a byte      *)
(* waits, whoever reads that.                                              *)
SendCommand ==
  /\ commands < MaxCommands /\ commands' = commands + 1
  /\ calm => line = Idle /\ queue = << >> /\ ~ctl.hasData
  /\ Goes("main", "check") /\ todo' \in Commands
  /\ UNCHANGED << ctl, after, data, Decoding, NotDriver, took >>
Returns(rest) == todo' = rest /\ pc' = IF rest = << >> THEN "main" ELSE "check"
SendCheck ==
  /\ Rdy(ctl) /\ pc = "check"
  /\ IF ctl.hasData THEN Returns(Tail(todo)) ELSE pc' = "start" /\ UNCHANGED todo
  /\ took' = FALSE
  /\ UNCHANGED << ctl, after, data, Decoding, NotDriver, commands >>
SendStart ==
  /\ Rdy(ctl) /\ Goes("start", "await") /\ Asks(Head(todo))
  /\ UNCHANGED << after, data, todo, Decoding, NotDriver, took, commands >>
SendAwait ==
  /\ Rdy(ctl) /\ ctl.hasData
  /\ Goes("await", IF RecvValid(ctl) THEN "answer" ELSE "again")
  /\ UNCHANGED << ctl, after, data, todo, Decoding, NotDriver, took, commands >>
AnyAnswer ==   \* a mutant
  /\ Rdy(ctl) /\ Goes("answer", "clear")
  /\ data' = RecvByte(ctl) /\ after' = "end"
  /\ UNCHANGED << ctl, todo, Decoding, NotDriver, took, commands >>
SendAnswer ==
  /\ Rdy(ctl) /\ Goes("answer", "clear")
  /\ data' = RecvByte(ctl)
  /\ after' = IF data' = ACK THEN "end" ELSE "start"
  /\ UNCHANGED << ctl, todo, Decoding, NotDriver, took, commands >>
SendAgain ==
  /\ Rdy(ctl) /\ Goes("again", "clear") /\ after' = "await" /\ Asks(RESEND)
  /\ UNCHANGED << data, todo, Decoding, NotDriver, took, commands >>

(* PS2_STATUS = 0, and what follows it. *)
Clear ==
  /\ Rdy(ctl) /\ pc = "clear"
  /\ ctl' = WriteStatus(ctl, line.data)
  /\ CASE after = "event" -> pc' = "main" /\ Decoded /\ UNCHANGED todo
       [] after = "end" -> Returns(Tail(todo)) /\ UNCHANGED Decoding
       [] OTHER -> pc' = after /\ UNCHANGED << todo, Decoding >>
  /\ UNCHANGED << after, data, NotDriver, took, commands >>

KeyboardSteps ==
  SendBegins \/ SendFalls \/ SendRises \/ ReceiveBegins \/ ReceiveFalls \/ ReceiveRises
DriverSteps ==
  \/ PollStatus \/ PollData \/ PollRepeat
  \/ SendCheck \/ SendStart \/ SendAwait \/ SendAnswer \/ SendAgain \/ Clear
Next == Press \/ SendCommand \/ Timer \/ KeyboardSteps \/ DriverSteps
Spec == Init /\ [][Next]_vars
FairSpec == Spec /\ WF_vars(KeyboardSteps) /\ WF_vars(Timer) /\ WF_vars(DriverSteps)

---------------------------------------------------------------------------
TypeOK ==
  /\ ctl \in Controller
  /\ line \in [at : {"idle", "sending", "receiving"}, i : FrameBits, low : BOOLEAN, data : Bits]
  /\ queue \in Seq(Bytes) /\ last \in Bytes /\ got \in [0 .. 8 -> Bits]
  /\ down \subseteq Keys /\ calm \in BOOLEAN
  /\ pc \in {"main", "read", "repeat", "clear", "check", "start", "await", "answer", "again"}
  /\ after \in {"main", "event", "end", "start", "await"}
  /\ data \in Bytes /\ todo \in Seq(Bytes)
  /\ extended \in BOOLEAN /\ release \in BOOLEAN /\ took \in BOOLEAN
  /\ modifiers \subseteq UNION { key.mask : key \in Keys }
  /\ flips \in 0 .. MaxFlips /\ commands \in 0 .. MaxCommands

(* The counters of the controller (cnt_recv and cnt_send, ps2.v) are at    *)
(* the bit that the keyboard is at, however the driver's accesses fall     *)
(* between the edges: no byte is put together from the bits of two.        *)
Edges == line.i + (IF line.low THEN 1 ELSE 0)
InStep ==
  /\ line.at = "sending" /\ ~ctl.hasData /\ ~ctl.sendEna => ctl.recvCnt = Edges % 11
  /\ line.at = "receiving" /\ ctl.dataOutEna => ctl.sendCnt = Edges

(* send_byte (ps2.na) succeeds only when the keyboard has taken the byte.  *)
(* If keys were pressed meanwhile and noise came, the answer to an earlier *)
(* try may be taken for this one's; two bits turned over may make another  *)
(* byte with the right parity.                                             *)
Clean == (calm /\ flips <= 1) \/ flips = 0
Taken == Clean /\ pc = "clear" /\ after = "end" => took

(* ps2_get_key_event tells every key pressed or let go once and in order,  *)
(* and ps2_modifiers_mask which modifiers are held, whatever one bit of    *)
(* noise did, if keys are left alone while a command is out.               *)
Promise ==
  INSTANCE KeyEvents WITH Actions <- [key : Keys, up : BOOLEAN],
    pressed <- IF calm THEN pressed ELSE << >>, events <- IF calm THEN events ELSE << >>,
    modifiers <- IF calm THEN modifiers ELSE {}
Implements == Promise!Spec

(* No key is lost, and RDY is never withheld for good: the program is told *)
(* all that was done, if the user does not go on for ever (MaxActions).    *)
EveryKeyTold == calm /\ Len(events) < Len(pressed) ~> Len(events) = Len(pressed)
(* send_byte returns, though keys be pressed and bytes repeated.           *)
CommandsEnd == pc = "check" ~> pc = "main"
=============================================================================
