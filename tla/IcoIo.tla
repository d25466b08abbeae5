------------------------------- MODULE IcoIo -------------------------------
(***************************************************************************)
(* The driver of the motor board: IcoIo makes frames of FRAME_SIZE bytes   *)
(* and XenoSpiControllerHandler transfers them, with the bits of every     *)
(* byte reversed in software because the bus cannot be set to send the     *)
(* low bit first.  The board itself is external: it is modelled as the     *)
(* frames require it to be, with an answer for every frame.                *)
(***************************************************************************)
EXTENDS Integers

CONSTANTS
  Commands,   \* arguments of update_io: per channel a PWM value and a pin
  Outputs,    \* arguments of setOutput: a PWM value and a pin
  Readings,   \* what the board has for a channel: encoder and two pins
  Strays      \* pairs of bytes that may stand for those read past out[6]

FRAME_SIZE == 12

\* IcoIo.hpp asks whether ENABLE_OUTPUT_LIMIT is on, but the one source file that
\* uses the answer includes no header that defines it: the limit is the whole range.
MAX_PWM_VALUE == 2047
Channels == 1 .. 4

\* A PWM value of 16 bits and a pin, and a reading of 14 bits and two pins.
Signed16 == -32768 .. 32767
Unsigned14 == 0 .. 16383
Command == [pwm : Signed16, pin : {0, 1}]
Reading == [enc : Unsigned14, pin1 : {0, 1}, pin2 : {0, 1}]

ASSUME IcoAssumption ==
  /\ Commands \subseteq [Channels -> Command]
  /\ Outputs \subseteq Command
  /\ Readings \subseteq Reading
  /\ Strays \subseteq (0 .. 255) \X (0 .. 255)

\* The op codes used.
INIT == 1
ALL == 3
PWM_1 == 4
ENC_1 == 8

VARIABLES
  up,          \* the process has not ended on an error
  board,       \* external: what the outputs stand at, and what the inputs read
  sample,      \* the values read last, per channel
  commanded,   \* history: the arguments given last, per channel
  strayed,     \* history: the last frame for channel 4 had other bytes than its own
  measured     \* history: what the board had when it was read last, per channel

icoVars == <<up, board, sample, commanded, strayed, measured>>

NoReading == [enc |-> 0, pin1 |-> 0, pin2 |-> 0]
Off == [pwm_val |-> 0, pwm_dir |-> 1, pin_val |-> 0]

IcoInit ==
  /\ up = TRUE
  /\ board = [out |-> [c \in Channels |-> Off], in |-> [c \in Channels |-> NoReading]]
  /\ sample = [c \in Channels |-> NoReading]
  /\ commanded = [c \in Channels |-> [pwm |-> 0, pin |-> 0]]
  /\ strayed = FALSE
  /\ measured = sample
-----------------------------------------------------------------------------
\* Only values above the limit are clipped.
CalcValueClipsAbove(pwm, pin) ==
  IF pwm < 0
  THEN [pwm_val |-> (- pwm) % 2^14, pwm_dir |-> 0, pin_val |-> pin]
  ELSE [pwm_val |-> (IF pwm > MAX_PWM_VALUE THEN MAX_PWM_VALUE ELSE pwm) % 2^14,
        pwm_dir |-> 1, pin_val |-> pin]

\* Magnitude in 14 bits, and the direction.
calc_value(pwm, pin) ==
  IF pwm < 0
  THEN [pwm_val |-> (IF pwm < - MAX_PWM_VALUE THEN MAX_PWM_VALUE ELSE - pwm) % 2^14,
        pwm_dir |-> 0, pin_val |-> pin]
  ELSE [pwm_val |-> (IF pwm > MAX_PWM_VALUE THEN MAX_PWM_VALUE ELSE pwm) % 2^14,
        pwm_dir |-> 1, pin_val |-> pin]

\* Bit fields fill a word from the low bits on; its low byte comes first.
Word(low, bit14, bit15) == low + (2^14 * bit14) + (2^15 * bit15)
Bytes(word) == <<word % 256, word \div 256>>
PwmBytes(c) == LET v == calc_value(c.pwm, c.pin)
               IN  Bytes(Word(v.pwm_val, v.pwm_dir, v.pin_val))

\* A frame that starts with the bytes of head.
Frame(head) == [i \in 0 .. FRAME_SIZE - 1 |->
                 IF i + 1 \in DOMAIN head THEN head[i + 1] ELSE 0]

create_pwm_msg(channel, c) ==
  Frame(<<PWM_1 + channel - 1, 0, PwmBytes(c)[1], PwmBytes(c)[2]>>)

\* WriteArrayBytes declares out[6] beside an array of eight bytes, and the frame
\* takes out[6] and out[7].  behind is what these reads give, which is undefined:
\* the bytes of channel 4, or others.
create_all_msg(cs, behind) ==
  LET b == [c \in 1 .. 3 |-> PwmBytes(cs[c])]
  IN  Frame(<<ALL, 0, b[1][1], b[1][2], b[2][1], b[2][2],
              b[3][1], b[3][2], behind[1], behind[2]>>)

BytesBehind(cs) == {PwmBytes(cs[4])} \cup Strays

\* The two bytes of a reading that start at byte i of a frame.
ReadBytes(frame, i) ==
  LET word == frame[i] + (256 * frame[i + 1])
  IN  [enc |-> word % 2^14, pin1 |-> (word \div 2^14) % 2, pin2 |-> word \div 2^15]
-----------------------------------------------------------------------------
\* XenoSpiControllerHandler

Bit(byte, i) == (byte \div 2^i) % 2
reverseTable(byte) ==
  (128 * Bit(byte, 0)) + (64 * Bit(byte, 1)) + (32 * Bit(byte, 2)) + (16 * Bit(byte, 3))
    + (8 * Bit(byte, 4)) + (4 * Bit(byte, 5)) + (2 * Bit(byte, 6)) + Bit(byte, 7)
Reversed(frame) == [i \in DOMAIN frame |-> reverseTable(frame[i])]

\* The frame on the wire, and the one given to the caller of the one that came back.
Written(tx) == Reversed(tx)
Transferred(rx) == Reversed(rx)
-----------------------------------------------------------------------------
\* The board, which takes the low bit of a byte first.

BoardValue(frame, i) ==
  LET word == frame[i] + (256 * frame[i + 1])
  IN  [pwm_val |-> word % 2^14, pwm_dir |-> (word \div 2^14) % 2, pin_val |-> word \div 2^15]

BoardTakes(wire) ==
  LET frame == Reversed(wire)
  IN  IF frame[0] = ALL THEN [c \in Channels |-> BoardValue(frame, 2 * c)]
      ELSE IF frame[0] \in PWM_1 .. PWM_1 + 3
           THEN [board.out EXCEPT ![frame[0] - PWM_1 + 1] = BoardValue(frame, 2)]
           ELSE board.out

BoardAnswers(wire) ==
  LET frame == Reversed(wire)
      b == [c \in Channels |->
             Bytes(Word(board.in[c].enc, board.in[c].pin1, board.in[c].pin2))]
  IN  Reversed(
        IF frame[0] = ALL
        THEN Frame(<<0, b[1][1], b[1][2], b[2][1], b[2][2],
                     b[3][1], b[3][2], b[4][1], b[4][2]>>)
        ELSE IF frame[0] \in ENC_1 .. ENC_1 + 3
             THEN LET c == frame[0] - ENC_1 + 1 IN Frame(<<0, b[c][1], b[c][2]>>)
             ELSE Frame(<<>>))

\* The robot moves: one of the inputs changes.
BoardInput ==
  /\ \E c \in Channels, r \in Readings : board' = [board EXCEPT !.in[c] = r]
  /\ UNCHANGED <<up, sample, commanded, strayed, measured>>
-----------------------------------------------------------------------------
\* The process ends if the board does not answer 11 to INIT.
init ==
  /\ up
  /\ \E answer \in {0, 11} : up' = (answer = 11)
  /\ UNCHANGED <<board, sample, commanded, strayed, measured>>

\* The self test ends the process whatever the board answers.
test == up /\ up' = FALSE /\ UNCHANGED <<board, sample, commanded, strayed, measured>>

setOutput ==
  /\ up
  /\ \E channel \in Channels, c \in Outputs :
       /\ board' = [board EXCEPT !.out = BoardTakes(Written(create_pwm_msg(channel, c)))]
       /\ commanded' = [commanded EXCEPT ![channel] = c]
       /\ strayed' = (strayed /\ channel # 4)
  /\ UNCHANGED <<up, sample, measured>>

getInput ==
  /\ up
  /\ \E channel \in Channels :
       LET tx == Frame(<<ENC_1 + channel - 1>>)
           rx == Transferred(BoardAnswers(Written(tx)))
       IN  /\ sample' = [sample EXCEPT ![channel] = ReadBytes(rx, 1)]
           /\ measured' = [measured EXCEPT ![channel] = board.in[channel]]
  /\ UNCHANGED <<up, board, commanded, strayed>>

update_io ==
  /\ up
  /\ \E cs \in Commands : \E behind \in BytesBehind(cs) :
       LET wire == Written(create_all_msg(cs, behind))
           rx == Transferred(BoardAnswers(wire))
       IN  /\ board' = [board EXCEPT !.out = BoardTakes(wire)]
           /\ sample' = [c \in Channels |-> ReadBytes(rx, (2 * c) - 1)]
           /\ commanded' = cs
           /\ strayed' = (behind # PwmBytes(cs[4]))
  /\ measured' = board.in
  /\ UNCHANGED up

IcoNext == BoardInput \/ init \/ test \/ setOutput \/ getInput \/ update_io
-----------------------------------------------------------------------------
\* The PWM value an output stands at.
Signed(out) == IF out.pwm_dir = 1 THEN out.pwm_val ELSE - out.pwm_val

Nearest(v, lo, hi) == IF v < lo THEN lo ELSE IF hi < v THEN hi ELSE v

\* Whatever the calls in whatever order, every channel stands at the nearest
\* value within the limits to the one it was given last, with its pin, and no
\* call for one channel disturbs another; what is read is what that channel of
\* the board had (calc_value, create_pwm_msg, create_all_msg, getInput,
\* update_io and the reversal of the bits in both directions).  Of channel 4 no
\* output is promised while the bytes it got last were not its own: create_all_msg
\* reads them past the end of an array.
ChannelsAgree ==
  \A c \in Channels :
    /\ ~(c = 4 /\ strayed) =>
         /\ Signed(board.out[c]) = Nearest(commanded[c].pwm, - MAX_PWM_VALUE, MAX_PWM_VALUE)
         /\ board.out[c].pin_val = commanded[c].pin
    /\ sample[c] = measured[c]

\* The share MAX_PWM_OUTPUT of the range that configuration.h sets.
ConfiguredLimit == (2047 * 2) \div 10

\* configuration.h: "Enables limiting the output based on MAX_PWM_OUTPUT" and "The
\* maximum PWM output allowed".
OutputLimited ==
  \A c \in Channels : Signed(board.out[c]) \in - ConfiguredLimit .. ConfiguredLimit
=============================================================================
