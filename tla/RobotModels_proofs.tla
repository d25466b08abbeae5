-------------------------- MODULE RobotModels_proofs --------------------------
(***************************************************************************)
(* Proofs about the driver of the motor board, the simulator node and the  *)
(* counters, for every value, picture, pose, frequency and order of calls, *)
(* and of the power balance of the plant for every set of parameters.      *)
(***************************************************************************)
EXTENDS RobotModels, Numeric_proofs

-----------------------------------------------------------------------------
(***************************************************************************)
(* Bytes and words.                                                        *)
(***************************************************************************)

Octet == 0 .. 255

\* The bits of a byte reversed are a byte, and reversed again the same one.
LEMMA ReverseByte ==
  ASSUME NEW byte \in Octet
  PROVE  reverseTable(byte) \in Octet /\ reverseTable(reverseTable(byte)) = byte
<1>1. reverseTable(byte) \in Octet
  BY DEF reverseTable, Bit, Octet
<1>2. reverseTable(reverseTable(byte)) = byte
  BY SMTT(60) DEF reverseTable, Bit, Octet
<1>3. QED
  BY <1>1, <1>2

\* A frame reversed twice is the frame.
LEMMA ReverseFrame ==
  ASSUME NEW frame \in [0 .. FRAME_SIZE - 1 -> Octet]
  PROVE  Reversed(Reversed(frame)) = frame
BY ReverseByte DEF Reversed, FRAME_SIZE

\* The powers of two that the bit fields give.
LEMMA Powers == 2^14 = 16384 /\ 2^15 = 32768
OBVIOUS

\* The bounds of the numbers.
LEMMA Bounds ==
  /\ \A x \in Signed16 : x \in Int
  /\ \A x \in Unsigned14 : x \in Int /\ 0 <= x /\ x <= 16383
BY DEF Signed16, Unsigned14

\* A word has 16 bits, and the fields can be read from it.
LEMMA WordFields ==
  ASSUME NEW low \in Int, 0 <= low, low <= 16383, NEW bit14 \in {0, 1}, NEW bit15 \in {0, 1},
         NEW w, w = Word(low, bit14, bit15)
  PROVE  /\ w \in Int /\ 0 <= w /\ w <= 65535
         /\ w % 2^14 = low /\ (w \div 2^14) % 2 = bit14 /\ w \div 2^15 = bit15
<1>1. w = (low + (16384 * bit14)) + (32768 * bit15)
  BY Powers DEF Word
<1>2. w \in Int /\ 0 <= w /\ w <= 65535
  BY <1>1
<1>3. w % 16384 = low
  BY <1>1
<1>4. (w \div 16384) % 2 = bit14
  BY <1>1
<1>5. w \div 32768 = bit15
  BY <1>1
<1>6. QED
  BY <1>2, <1>3, <1>4, <1>5, Powers

\* The two bytes of a word.
LEMMA WordBytes ==
  ASSUME NEW w \in Int, 0 <= w, w <= 65535
  PROVE  /\ Bytes(w)[1] \in Octet /\ Bytes(w)[2] \in Octet
         /\ Bytes(w)[1] + (256 * Bytes(w)[2]) = w
<1> DEFINE lo == w % 256
           hi == w \div 256
<1>1. lo \in Int /\ 0 <= lo /\ lo <= 255
  OBVIOUS
<1>2. hi \in Int /\ 0 <= hi /\ hi <= 255
  OBVIOUS
<1>3. lo + (256 * hi) = w
  OBVIOUS
<1>4. Bytes(w)[1] = lo /\ Bytes(w)[2] = hi
  BY DEF Bytes
<1> HIDE DEF lo, hi
<1>5. QED
  BY <1>1, <1>2, <1>3, <1>4 DEF Octet

\* A PWM value within the limits fits its field.
LEMMA FieldHolds ==
  ASSUME NEW v \in Int, 0 <= v, v <= 2047
  PROVE  v % 2^14 = v
<1>1. v % 16384 = v
  OBVIOUS
<1>2. QED
  BY <1>1, Powers

\* The value of a command is clipped to the nearest within the limits, and fits
\* its fields.
LEMMA CommandValue ==
  ASSUME NEW c \in Command, NEW v, v = calc_value(c.pwm, c.pin)
  PROVE  /\ v = [pwm_val |-> v.pwm_val, pwm_dir |-> v.pwm_dir, pin_val |-> v.pin_val]
         /\ v.pwm_val \in Int /\ 0 <= v.pwm_val /\ v.pwm_val <= 16383
         /\ v.pwm_dir \in {0, 1} /\ v.pin_val \in {0, 1} /\ v.pin_val = c.pin
         /\ Signed(v) = Nearest(c.pwm, - MAX_PWM_VALUE, MAX_PWM_VALUE)
<1>1. c.pwm \in Int /\ c.pin \in {0, 1}
  BY Bounds DEF Command
<1>2. CASE c.pwm < 0
  <2>1. PICK size \in Int : size = IF c.pwm < -2047 THEN 2047 ELSE - c.pwm
    BY <1>1
  <2>2. 0 <= size /\ size <= 2047 /\ - size = Nearest(c.pwm, - MAX_PWM_VALUE, MAX_PWM_VALUE)
    BY <1>1, <1>2, <2>1 DEF Nearest, MAX_PWM_VALUE
  <2>3. v = [pwm_val |-> size % 2^14, pwm_dir |-> 0, pin_val |-> c.pin]
    BY <1>1, <1>2, <2>1 DEF calc_value, MAX_PWM_VALUE
  <2>4. v = [pwm_val |-> size, pwm_dir |-> 0, pin_val |-> c.pin]
    BY <2>2, <2>3, FieldHolds
  <2>5. QED
    BY <1>1, <2>2, <2>4 DEF Signed
<1>3. CASE ~(c.pwm < 0)
  <2>1. PICK size \in Int : size = IF c.pwm > 2047 THEN 2047 ELSE c.pwm
    BY <1>1
  <2>2. 0 <= size /\ size <= 2047 /\ size = Nearest(c.pwm, - MAX_PWM_VALUE, MAX_PWM_VALUE)
    BY <1>1, <1>3, <2>1 DEF Nearest, MAX_PWM_VALUE
  <2>3. v = [pwm_val |-> size % 2^14, pwm_dir |-> 1, pin_val |-> c.pin]
    BY <1>1, <1>3, <2>1 DEF calc_value, MAX_PWM_VALUE
  <2>4. v = [pwm_val |-> size, pwm_dir |-> 1, pin_val |-> c.pin]
    BY <2>2, <2>3, FieldHolds
  <2>5. QED
    BY <1>1, <2>2, <2>4 DEF Signed
<1>4. QED
  BY <1>2, <1>3

\* The word of a command, and what is in it.
LEMMA CommandWord ==
  ASSUME NEW c \in Command, NEW v, v = calc_value(c.pwm, c.pin)
  PROVE  \E w \in Int :
           /\ 0 <= w /\ w <= 65535
           /\ PwmBytes(c) = Bytes(w)
           /\ w % 2^14 = v.pwm_val /\ (w \div 2^14) % 2 = v.pwm_dir /\ w \div 2^15 = v.pin_val
<1>1. PICK w : w = Word(v.pwm_val, v.pwm_dir, v.pin_val)
  OBVIOUS
<1>2. PwmBytes(c) = Bytes(w)
  BY <1>1, Zenon DEF PwmBytes
<1>3. /\ v.pwm_val \in Int /\ 0 <= v.pwm_val /\ v.pwm_val <= 16383
      /\ v.pwm_dir \in {0, 1} /\ v.pin_val \in {0, 1}
  BY CommandValue
<1>4. /\ w \in Int /\ 0 <= w /\ w <= 65535
      /\ w % 2^14 = v.pwm_val /\ (w \div 2^14) % 2 = v.pwm_dir /\ w \div 2^15 = v.pin_val
  <2>1. PICK low, dir, pin : low = v.pwm_val /\ dir = v.pwm_dir /\ pin = v.pin_val
    OBVIOUS
  <2>2. w = Word(low, dir, pin)
    BY <1>1, <2>1
  <2>3. low \in Int /\ 0 <= low /\ low <= 16383 /\ dir \in {0, 1} /\ pin \in {0, 1}
    BY <1>3, <2>1
  <2>4. /\ w \in Int /\ 0 <= w /\ w <= 65535
        /\ w % 2^14 = low /\ (w \div 2^14) % 2 = dir /\ w \div 2^15 = pin
    BY <2>2, <2>3, WordFields
  <2>5. QED
    BY <2>1, <2>4
<1>5. QED
  BY <1>2, <1>4

\* The bytes of a command are bytes, and give its value back, wherever they are.
LEMMA CommandBytes ==
  ASSUME NEW c \in Command, NEW frame, NEW i \in Nat
  PROVE  /\ PwmBytes(c)[1] \in Octet /\ PwmBytes(c)[2] \in Octet
         /\ frame[i] = PwmBytes(c)[1] /\ frame[i + 1] = PwmBytes(c)[2]
            => BoardValue(frame, i) = calc_value(c.pwm, c.pin)
<1>1. PICK v : v = calc_value(c.pwm, c.pin)
  OBVIOUS
<1>2. PICK w \in Int :
        /\ 0 <= w /\ w <= 65535
        /\ PwmBytes(c) = Bytes(w)
        /\ w % 2^14 = v.pwm_val /\ (w \div 2^14) % 2 = v.pwm_dir /\ w \div 2^15 = v.pin_val
  BY <1>1, CommandWord
<1>3. /\ PwmBytes(c)[1] \in Octet /\ PwmBytes(c)[2] \in Octet
      /\ PwmBytes(c)[1] + (256 * PwmBytes(c)[2]) = w
  BY <1>2, WordBytes
<1>4. v = [pwm_val |-> v.pwm_val, pwm_dir |-> v.pwm_dir, pin_val |-> v.pin_val]
  BY <1>1, CommandValue
<1>5. ASSUME frame[i] = PwmBytes(c)[1], frame[i + 1] = PwmBytes(c)[2]
      PROVE  BoardValue(frame, i) = v
  <2>1. frame[i] + (256 * frame[i + 1]) = w
    BY <1>3, <1>5
  <2>2. BoardValue(frame, i)
          = [pwm_val |-> w % 2^14, pwm_dir |-> (w \div 2^14) % 2, pin_val |-> w \div 2^15]
    BY <2>1 DEF BoardValue
  <2>3. QED
    BY <1>2, <1>4, <2>2
<1>6. QED
  BY <1>1, <1>3, <1>5

\* The bytes of a reading are bytes, and give it back, wherever they are.
LEMMA ReadingBytes ==
  ASSUME NEW r \in Reading, NEW frame, NEW i \in Nat,
         NEW b, b = Bytes(Word(r.enc, r.pin1, r.pin2))
  PROVE  /\ b[1] \in Octet /\ b[2] \in Octet
         /\ frame[i] = b[1] /\ frame[i + 1] = b[2] => ReadBytes(frame, i) = r
<1>1. PICK w : w = Word(r.enc, r.pin1, r.pin2)
  OBVIOUS
<1>2. /\ r.enc \in Int /\ 0 <= r.enc /\ r.enc <= 16383
      /\ r.pin1 \in {0, 1} /\ r.pin2 \in {0, 1}
      /\ r = [enc |-> r.enc, pin1 |-> r.pin1, pin2 |-> r.pin2]
  BY Bounds DEF Reading
<1>3. /\ w \in Int /\ 0 <= w /\ w <= 65535
      /\ w % 2^14 = r.enc /\ (w \div 2^14) % 2 = r.pin1 /\ w \div 2^15 = r.pin2
  BY <1>1, <1>2, WordFields
<1>4. b[1] \in Octet /\ b[2] \in Octet /\ b[1] + (256 * b[2]) = w
  BY <1>1, <1>3, WordBytes
<1>5. ASSUME frame[i] = b[1], frame[i + 1] = b[2] PROVE ReadBytes(frame, i) = r
  <2>1. frame[i] + (256 * frame[i + 1]) = w
    BY <1>4, <1>5
  <2>2. ReadBytes(frame, i)
          = [enc |-> w % 2^14, pin1 |-> (w \div 2^14) % 2, pin2 |-> w \div 2^15]
    BY <2>1 DEF ReadBytes
  <2>3. QED
    BY <1>2, <1>3, <2>2
<1>6. QED
  BY <1>4, <1>5
-----------------------------------------------------------------------------
(***************************************************************************)
(* Frames.                                                                 *)
(***************************************************************************)

\* The frame for all channels has the value of every channel in its place, of
\* channel 4 as long as the bytes behind the array are its own.
LEMMA AllFrame ==
  ASSUME NEW cs \in [Channels -> Command], NEW behind \in Octet \X Octet
  PROVE  /\ create_all_msg(cs, behind) \in [0 .. FRAME_SIZE - 1 -> Octet]
         /\ create_all_msg(cs, behind)[0] = ALL
         /\ \A c \in Channels :
              c # 4 \/ behind = PwmBytes(cs[4]) =>
                BoardValue(create_all_msg(cs, behind), 2 * c) = calc_value(cs[c].pwm, cs[c].pin)
<1> DEFINE b == [c \in 1 .. 3 |-> PwmBytes(cs[c])]
           frame == create_all_msg(cs, behind)
<1>1. \A c \in Channels : cs[c] \in Command
  OBVIOUS
<1>2. \A c \in 1 .. 3 : b[c][1] \in Octet /\ b[c][2] \in Octet
  <2>1. \A c \in 1 .. 3 : c \in Channels
    BY DEF Channels
  <2>2. QED
    BY <1>1, <2>1, CommandBytes
<1>3. frame = Frame(<<ALL, 0, b[1][1], b[1][2], b[2][1], b[2][2],
                      b[3][1], b[3][2], behind[1], behind[2]>>)
  BY DEF create_all_msg
<1>4. \A c \in 1 .. 3 : b[c] = PwmBytes(cs[c])
  OBVIOUS
<1> HIDE DEF b, frame
<1>5. frame[0] = ALL /\ frame \in [0 .. FRAME_SIZE - 1 -> Octet]
  <2>1. \A c \in {1, 2, 3} : b[c][1] \in Octet /\ b[c][2] \in Octet
    BY <1>2
  <2>2. ALL \in Octet /\ 0 \in Octet
    BY DEF ALL, Octet
  <2>3. behind[1] \in Octet /\ behind[2] \in Octet
    OBVIOUS
  <2> HIDE DEF Octet
  <2>4. frame[0] = ALL
    BY <1>3 DEF Frame, FRAME_SIZE
  <2>5. ASSUME NEW i \in 0 .. FRAME_SIZE - 1 PROVE frame[i] \in Octet
    BY <1>3, <2>1, <2>2, <2>3 DEF Frame, FRAME_SIZE
  <2>6. frame = [i \in 0 .. FRAME_SIZE - 1 |-> frame[i]]
    BY <1>3 DEF Frame
  <2>7. QED
    BY <2>4, <2>5, <2>6
<1>6. /\ frame[2] = b[1][1] /\ frame[3] = b[1][2] /\ frame[4] = b[2][1] /\ frame[5] = b[2][2]
      /\ frame[6] = b[3][1] /\ frame[7] = b[3][2] /\ frame[8] = behind[1] /\ frame[9] = behind[2]
  BY <1>3 DEF Frame, FRAME_SIZE
<1>7. ASSUME NEW c \in Channels, c # 4 \/ behind = PwmBytes(cs[4])
      PROVE  frame[2 * c] = PwmBytes(cs[c])[1] /\ frame[(2 * c) + 1] = PwmBytes(cs[c])[2]
  <2>1. CASE c = 1
    BY <1>4, <1>6, <2>1
  <2>2. CASE c = 2
    BY <1>4, <1>6, <2>2
  <2>3. CASE c = 3
    BY <1>4, <1>6, <2>3
  <2>4. CASE c = 4
    BY <1>6, <1>7, <2>4
  <2>5. QED
    BY <2>1, <2>2, <2>3, <2>4 DEF Channels
<1>8. ASSUME NEW c \in Channels, c # 4 \/ behind = PwmBytes(cs[4])
      PROVE  BoardValue(frame, 2 * c) = calc_value(cs[c].pwm, cs[c].pin)
  <2>1. 2 * c \in Nat /\ frame[2 * c] = PwmBytes(cs[c])[1] /\ frame[(2 * c) + 1] = PwmBytes(cs[c])[2]
    BY <1>7, <1>8 DEF Channels
  <2>2. QED
    BY <1>1, <2>1, CommandBytes
<1>9. QED
  BY <1>5, <1>8 DEF frame

\* The frame for one channel has its value, and the channel in the op code.
LEMMA OneFrame ==
  ASSUME NEW channel \in Channels, NEW c \in Command
  PROVE  /\ create_pwm_msg(channel, c) \in [0 .. FRAME_SIZE - 1 -> Octet]
         /\ create_pwm_msg(channel, c)[0] = PWM_1 + channel - 1
         /\ BoardValue(create_pwm_msg(channel, c), 2) = calc_value(c.pwm, c.pin)
<1> DEFINE frame == create_pwm_msg(channel, c)
<1>1. PwmBytes(c)[1] \in Octet /\ PwmBytes(c)[2] \in Octet
  BY CommandBytes
<1>2. frame = Frame(<<PWM_1 + channel - 1, 0, PwmBytes(c)[1], PwmBytes(c)[2]>>)
  BY DEF create_pwm_msg
<1> HIDE DEF frame
<1>3. PWM_1 + channel - 1 \in Octet
  BY DEF PWM_1, Channels, Octet
<1>4. frame[0] = PWM_1 + channel - 1 /\ frame \in [0 .. FRAME_SIZE - 1 -> Octet]
  BY <1>1, <1>2, <1>3 DEF Frame, FRAME_SIZE, Octet
<1>5. frame[2] = PwmBytes(c)[1] /\ frame[2 + 1] = PwmBytes(c)[2]
  BY <1>2 DEF Frame, FRAME_SIZE
<1>6. BoardValue(frame, 2) = calc_value(c.pwm, c.pin)
  BY <1>5, CommandBytes
<1>7. QED
  BY <1>4, <1>6 DEF frame

\* A frame of bytes that is written is taken as it was made.
LEMMA WireToBoard ==
  ASSUME NEW frame \in [0 .. FRAME_SIZE - 1 -> Octet]
  PROVE  Reversed(Written(frame)) = frame
BY ReverseFrame DEF Written

\* The board takes every value of the frame for all channels.
LEMMA TakesAll ==
  ASSUME NEW cs \in [Channels -> Command], NEW behind \in Octet \X Octet,
         NEW out, out = BoardTakes(Written(create_all_msg(cs, behind)))
  PROVE  /\ out = [c \in Channels |-> out[c]]
         /\ \A c \in Channels :
              c # 4 \/ behind = PwmBytes(cs[4]) => out[c] = calc_value(cs[c].pwm, cs[c].pin)
<1>1. PICK frame : frame = create_all_msg(cs, behind)
  OBVIOUS
<1>2. frame \in [0 .. FRAME_SIZE - 1 -> Octet] /\ frame[0] = ALL
  BY <1>1, AllFrame
<1>3. \A c \in Channels :
        c # 4 \/ behind = PwmBytes(cs[4]) => BoardValue(frame, 2 * c) = calc_value(cs[c].pwm, cs[c].pin)
  BY <1>1, AllFrame
<1>4. Reversed(Written(frame)) = frame
  BY <1>2, WireToBoard
<1>5. out = [c \in Channels |-> BoardValue(frame, 2 * c)]
  BY <1>1, <1>2, <1>4, Zenon DEF BoardTakes
<1>6. QED
  BY <1>3, <1>5

\* The board takes the value of the frame for one channel, and no other.
LEMMA TakesOne ==
  ASSUME NEW channel \in Channels, NEW c \in Command
  PROVE  BoardTakes(Written(create_pwm_msg(channel, c)))
           = [board.out EXCEPT ![channel] = calc_value(c.pwm, c.pin)]
<1>1. PICK frame : frame = create_pwm_msg(channel, c)
  OBVIOUS
<1>2. frame \in [0 .. FRAME_SIZE - 1 -> Octet] /\ frame[0] = PWM_1 + channel - 1
      /\ BoardValue(frame, 2) = calc_value(c.pwm, c.pin)
  BY <1>1, OneFrame
<1>3. Reversed(Written(frame)) = frame
  BY <1>2, WireToBoard
<1>4. frame[0] # ALL /\ frame[0] \in PWM_1 .. PWM_1 + 3 /\ frame[0] - PWM_1 + 1 = channel
  BY <1>2 DEF ALL, PWM_1, Channels
<1>5. BoardTakes(Written(frame)) = [board.out EXCEPT ![channel] = BoardValue(frame, 2)]
  BY <1>3, <1>4, Zenon DEF BoardTakes
<1>6. QED
  BY <1>1, <1>2, <1>5, Zenon

\* What the driver reads from the answer to the frame for all channels.
LEMMA AnswersAll ==
  ASSUME NEW cs \in [Channels -> Command], NEW behind \in Octet \X Octet,
         board.in \in [Channels -> Reading]
  PROVE  \A c \in Channels :
           ReadBytes(Transferred(BoardAnswers(Written(create_all_msg(cs, behind)))), (2 * c) - 1)
             = board.in[c]
<1> DEFINE b == [c \in Channels |->
                  Bytes(Word(board.in[c].enc, board.in[c].pin1, board.in[c].pin2))]
           rx == Frame(<<0, b[1][1], b[1][2], b[2][1], b[2][2],
                         b[3][1], b[3][2], b[4][1], b[4][2]>>)
<1>1. PICK frame : frame = create_all_msg(cs, behind)
  OBVIOUS
<1>2. frame \in [0 .. FRAME_SIZE - 1 -> Octet] /\ frame[0] = ALL
  BY <1>1, AllFrame
<1>3. Reversed(Written(frame)) = frame
  BY <1>2, WireToBoard
<1>4. BoardAnswers(Written(frame)) = Reversed(rx)
  BY <1>2, <1>3, Zenon DEF BoardAnswers
<1>5. \A c \in Channels :
        /\ board.in[c] \in Reading
        /\ b[c] = Bytes(Word(board.in[c].enc, board.in[c].pin1, board.in[c].pin2))
  OBVIOUS
<1> HIDE DEF b
<1>6. \A c \in {1, 2, 3, 4} : b[c][1] \in Octet /\ b[c][2] \in Octet
  <2> SUFFICES ASSUME NEW c \in Channels PROVE b[c][1] \in Octet /\ b[c][2] \in Octet
    BY DEF Channels
  <2>1. board.in[c] \in Reading /\ 0 \in Nat
        /\ b[c] = Bytes(Word(board.in[c].enc, board.in[c].pin1, board.in[c].pin2))
    BY <1>5
  <2>2. QED
    BY <2>1, ReadingBytes
<1>7. \A c \in Channels : rx[(2 * c) - 1] = b[c][1] /\ rx[((2 * c) - 1) + 1] = b[c][2]
  <2>1. /\ rx[1] = b[1][1] /\ rx[2] = b[1][2] /\ rx[3] = b[2][1] /\ rx[4] = b[2][2]
        /\ rx[5] = b[3][1] /\ rx[6] = b[3][2] /\ rx[7] = b[4][1] /\ rx[8] = b[4][2]
    BY DEF Frame, FRAME_SIZE
  <2>2. QED
    BY <2>1 DEF Channels
<1>8. rx \in [0 .. FRAME_SIZE - 1 -> Octet]
  <2>1. 0 \in Octet
    BY DEF Octet
  <2>2. ASSUME NEW i \in 0 .. FRAME_SIZE - 1 PROVE rx[i] \in Octet
    BY <1>6, <2>1 DEF Frame, FRAME_SIZE
  <2>3. rx = [i \in 0 .. FRAME_SIZE - 1 |-> rx[i]]
    BY DEF Frame
  <2> HIDE DEF rx
  <2>4. QED
    BY <2>2, <2>3
<1> HIDE DEF rx
<1>9. Transferred(BoardAnswers(Written(frame))) = rx
  BY <1>4, <1>8, ReverseFrame, Zenon DEF Transferred
<1>10. ASSUME NEW c \in Channels PROVE ReadBytes(rx, (2 * c) - 1) = board.in[c]
  <2>1. PICK i, r, d : i = (2 * c) - 1 /\ r = board.in[c] /\ d = b[c]
    OBVIOUS
  <2>2. i \in Nat
    BY <2>1 DEF Channels
  <2>3. r \in Reading /\ d = Bytes(Word(r.enc, r.pin1, r.pin2)) /\ rx[i] = d[1] /\ rx[i + 1] = d[2]
    BY <1>5, <1>7, <2>1
  <2>4. ReadBytes(rx, i) = r
    BY <2>2, <2>3, ReadingBytes
  <2>5. QED
    BY <2>1, <2>4
<1>11. QED
  BY <1>1, <1>9, <1>10, Zenon

\* What the driver reads from the answer to the frame for one channel.
LEMMA AnswersOne ==
  ASSUME NEW channel \in Channels, board.in \in [Channels -> Reading]
  PROVE  ReadBytes(Transferred(BoardAnswers(Written(Frame(<<ENC_1 + channel - 1>>)))), 1)
           = board.in[channel]
<1> DEFINE b == [c \in Channels |->
                  Bytes(Word(board.in[c].enc, board.in[c].pin1, board.in[c].pin2))]
           rx == Frame(<<0, b[channel][1], b[channel][2]>>)
<1>1. PICK frame : frame = Frame(<<ENC_1 + channel - 1>>)
  OBVIOUS
<1>2. frame \in [0 .. FRAME_SIZE - 1 -> Octet] /\ frame[0] = ENC_1 + channel - 1
  <2>1. ENC_1 + channel - 1 \in Octet /\ 0 \in Octet
    BY DEF ENC_1, Channels, Octet
  <2>2. QED
    BY <1>1, <2>1 DEF Frame, FRAME_SIZE
<1>3. Reversed(Written(frame)) = frame
  BY <1>2, WireToBoard
<1>4. frame[0] # ALL /\ frame[0] \in ENC_1 .. ENC_1 + 3 /\ frame[0] - ENC_1 + 1 = channel
  BY <1>2 DEF ALL, ENC_1, Channels
<1>5. BoardAnswers(Written(frame)) = Reversed(rx)
  BY <1>3, <1>4, Zenon DEF BoardAnswers
<1>6. /\ board.in[channel] \in Reading
      /\ b[channel] = Bytes(Word(board.in[channel].enc, board.in[channel].pin1, board.in[channel].pin2))
  OBVIOUS
<1> HIDE DEF b
<1>7. b[channel][1] \in Octet /\ b[channel][2] \in Octet
  BY <1>6, ReadingBytes
<1>8. rx \in [0 .. FRAME_SIZE - 1 -> Octet] /\ rx[1] = b[channel][1] /\ rx[1 + 1] = b[channel][2]
  <2>1. 0 \in Octet
    BY DEF Octet
  <2>2. QED
    BY <1>7, <2>1 DEF Frame, FRAME_SIZE
<1> HIDE DEF rx
<1>9. Transferred(BoardAnswers(Written(frame))) = rx
  BY <1>5, <1>8, ReverseFrame, Zenon DEF Transferred
<1>10. ReadBytes(rx, 1) = board.in[channel]
  <2>1. PICK r, d : r = board.in[channel] /\ d = b[channel]
    OBVIOUS
  <2>2. r \in Reading /\ d = Bytes(Word(r.enc, r.pin1, r.pin2)) /\ rx[1] = d[1] /\ rx[1 + 1] = d[2]
    BY <1>6, <1>8, <2>1
  <2>3. 1 \in Nat
    OBVIOUS
  <2>4. ReadBytes(rx, 1) = r
    BY <2>2, <2>3, ReadingBytes
  <2>5. QED
    BY <2>1, <2>4
<1>11. QED
  BY <1>1, <1>9, <1>10, Zenon
-----------------------------------------------------------------------------
(***************************************************************************)
(* The driver.                                                             *)
(***************************************************************************)

\* The channel got bytes that were not its own.
Stray(c) == c = 4 /\ strayed

\* What ChannelsAgree says of the output of a channel.
ChannelStands(c) ==
  /\ Signed(board.out[c]) = Nearest(commanded[c].pwm, - MAX_PWM_VALUE, MAX_PWM_VALUE)
  /\ board.out[c].pin_val = commanded[c].pin

\* The outputs stand at what was commanded, and what was read is what the board had.
BoardAgrees ==
  /\ board = [out |-> board.out, in |-> board.in]
  /\ board.in \in [Channels -> Reading]
  /\ commanded \in [Channels -> Command]
  /\ board.out = [c \in Channels |-> board.out[c]]
  /\ \A c \in Channels : Stray(c) \/ board.out[c] = calc_value(commanded[c].pwm, commanded[c].pin)
  /\ strayed \in BOOLEAN
  /\ measured \in [Channels -> Reading]
  /\ sample = measured

\* The board is at rest first.
LEMMA AtRest == IcoInit => BoardAgrees
<1> SUFFICES ASSUME IcoInit PROVE BoardAgrees
  OBVIOUS
<1>1. 0 \in Signed16 /\ 0 \in Unsigned14
  BY DEF Signed16, Unsigned14
<1>2. NoReading \in Reading /\ [pwm |-> 0, pin |-> 0] \in Command
  BY <1>1 DEF NoReading, Reading, Command
<1>3. calc_value(0, 0) = Off
  <2>1. 0 % 2^14 = 0
    BY FieldHolds
  <2>2. calc_value(0, 0) = [pwm_val |-> 0 % 2^14, pwm_dir |-> 1, pin_val |-> 0]
    BY DEF calc_value, MAX_PWM_VALUE
  <2>3. QED
    BY <2>1, <2>2 DEF Off
<1>4. /\ board = [out |-> [c \in Channels |-> Off], in |-> [c \in Channels |-> NoReading]]
      /\ sample = [c \in Channels |-> NoReading] /\ measured = sample
      /\ commanded = [c \in Channels |-> [pwm |-> 0, pin |-> 0]]
  BY DEF IcoInit
<1>5. /\ board.out = [c \in Channels |-> Off]
      /\ board.in = [c \in Channels |-> NoReading]
  BY <1>4
<1>6. /\ board.out = [c \in Channels |-> board.out[c]]
      /\ \A c \in Channels : board.out[c] = calc_value(commanded[c].pwm, commanded[c].pin)
  BY <1>3, <1>4, <1>5
<1>7. strayed \in BOOLEAN
  BY Zenon DEF IcoInit
<1>8. QED
  BY <1>2, <1>4, <1>5, <1>6, <1>7 DEF BoardAgrees

\* Every call keeps the channels to what they were given.
LEMMA AgreeStep == ASSUME BoardAgrees, [IcoNext]_icoVars PROVE BoardAgrees'
<1> USE DEF icoVars
<1>0. /\ Commands \subseteq [Channels -> Command] /\ Outputs \subseteq Command
      /\ Readings \subseteq Reading
  BY IcoAssumption DEF IcoAssumption
<1>1. CASE UNCHANGED <<board, sample, commanded, strayed, measured>>
  BY <1>1, Zenon DEF BoardAgrees, Stray
<1>2. CASE BoardInput
  <2>1. PICK c \in Channels, r \in Readings : board' = [board EXCEPT !.in[c] = r]
    BY <1>2 DEF BoardInput
  <2>2. board'.out = board.out /\ board'.in = [board.in EXCEPT ![c] = r]
        /\ board' = [out |-> board'.out, in |-> board'.in]
    BY <2>1 DEF BoardAgrees
  <2>3. board'.in \in [Channels -> Reading]
    BY <1>0, <2>2 DEF BoardAgrees
  <2>4. UNCHANGED <<sample, commanded, strayed, measured>>
    BY <1>2 DEF BoardInput
  <2>5. /\ board'.out = [k \in Channels |-> board'.out[k]]
        /\ \A k \in Channels : Stray(k)' \/ board'.out[k] = calc_value(commanded'[k].pwm, commanded'[k].pin)
    BY <2>2, <2>4, Zenon DEF BoardAgrees, Stray
  <2>6. QED
    BY <2>2, <2>3, <2>4, <2>5, Zenon DEF BoardAgrees
<1>3. CASE setOutput
  <2>1. PICK channel \in Channels, c \in Outputs :
          /\ board' = [board EXCEPT !.out = BoardTakes(Written(create_pwm_msg(channel, c)))]
          /\ commanded' = [commanded EXCEPT ![channel] = c]
          /\ strayed' = (strayed /\ channel # 4)
    BY <1>3 DEF setOutput
  <2>2. BoardTakes(Written(create_pwm_msg(channel, c)))
          = [board.out EXCEPT ![channel] = calc_value(c.pwm, c.pin)]
    BY <1>0, TakesOne
  <2>3. board' = [board EXCEPT !.out = [board.out EXCEPT ![channel] = calc_value(c.pwm, c.pin)]]
    BY <2>1, <2>2, Zenon
  <2>4. /\ board'.out = [board.out EXCEPT ![channel] = calc_value(c.pwm, c.pin)]
        /\ board'.in = board.in /\ board' = [out |-> board'.out, in |-> board'.in]
    BY <2>3 DEF BoardAgrees
  <2>5. commanded' \in [Channels -> Command]
    BY <1>0, <2>1 DEF BoardAgrees
  <2>6. board'.out = [k \in Channels |-> board'.out[k]]
    BY <2>4 DEF BoardAgrees
  <2>7. ASSUME NEW k \in Channels
        PROVE  Stray(k)' \/ board'.out[k] = calc_value(commanded'[k].pwm, commanded'[k].pin)
    <3>1. CASE k = channel
      <4>1. commanded'[k] = c
        BY <2>1, <3>1 DEF BoardAgrees
      <4>2. board'.out[k] = calc_value(c.pwm, c.pin)
        BY <2>4, <3>1 DEF BoardAgrees
      <4>3. QED
        BY <4>1, <4>2
    <3>2. CASE k # channel
      <4>1. commanded'[k] = commanded[k]
        BY <2>1, <3>2 DEF BoardAgrees
      <4>2. board'.out[k] = board.out[k]
        BY <2>4, <3>2 DEF BoardAgrees
      <4>3. Stray(k) => Stray(k)'
        BY <2>1, <3>2, Zenon DEF Stray
      <4>4. QED
        BY <4>1, <4>2, <4>3, Zenon DEF BoardAgrees
    <3>3. QED
      BY <3>1, <3>2
  <2>8. strayed' \in BOOLEAN
    BY <2>1, Zenon
  <2>9. UNCHANGED <<sample, measured>>
    BY <1>3 DEF setOutput
  <2>10. QED
    BY <2>4, <2>5, <2>6, <2>7, <2>8, <2>9, Zenon DEF BoardAgrees
<1>4. CASE getInput
  <2>1. PICK channel \in Channels :
          /\ sample' = [sample EXCEPT ![channel] =
               ReadBytes(Transferred(BoardAnswers(Written(Frame(<<ENC_1 + channel - 1>>)))), 1)]
          /\ measured' = [measured EXCEPT ![channel] = board.in[channel]]
    BY <1>4 DEF getInput
  <2>2. sample' = [sample EXCEPT ![channel] = board.in[channel]]
    BY <2>1, AnswersOne, Zenon DEF BoardAgrees
  <2>3. measured' \in [Channels -> Reading] /\ sample' = measured'
    BY <2>1, <2>2 DEF BoardAgrees
  <2>4. QED
    <3>1. UNCHANGED <<board, commanded, strayed>>
      BY <1>4 DEF getInput
    <3>2. QED
      BY <2>3, <3>1, Zenon DEF BoardAgrees, Stray
<1>5. CASE update_io
  <2>0. PICK cs \in Commands :
          \E behind \in BytesBehind(cs) :
            /\ board' = [board EXCEPT !.out = BoardTakes(Written(create_all_msg(cs, behind)))]
            /\ sample' = [c \in Channels |->
                 ReadBytes(Transferred(BoardAnswers(Written(create_all_msg(cs, behind)))), (2 * c) - 1)]
            /\ commanded' = cs
            /\ strayed' = (behind # PwmBytes(cs[4]))
    BY <1>5 DEF update_io
  <2>1. PICK behind \in BytesBehind(cs) :
          /\ board' = [board EXCEPT !.out = BoardTakes(Written(create_all_msg(cs, behind)))]
          /\ sample' = [c \in Channels |->
               ReadBytes(Transferred(BoardAnswers(Written(create_all_msg(cs, behind)))), (2 * c) - 1)]
          /\ commanded' = cs
          /\ strayed' = (behind # PwmBytes(cs[4]))
    BY <2>0
  <2>2. cs \in [Channels -> Command] /\ behind \in Octet \X Octet
    <3>1. cs \in [Channels -> Command] /\ cs[4] \in Command
      BY <1>0 DEF Channels
    <3>2. PwmBytes(cs[4]) \in Octet \X Octet
      <4>1. PwmBytes(cs[4])[1] \in Octet /\ PwmBytes(cs[4])[2] \in Octet
        BY <3>1, CommandBytes
      <4>2. PwmBytes(cs[4]) = <<PwmBytes(cs[4])[1], PwmBytes(cs[4])[2]>>
        BY DEF PwmBytes, Bytes
      <4>3. QED
        BY <4>1, <4>2
    <3>3. Strays \subseteq Octet \X Octet
      BY IcoAssumption DEF IcoAssumption, Octet
    <3>4. QED
      BY <3>1, <3>2, <3>3 DEF BytesBehind
  <2>3. PICK out : out = BoardTakes(Written(create_all_msg(cs, behind)))
    OBVIOUS
  <2>4. /\ out = [c \in Channels |-> out[c]]
        /\ \A c \in Channels :
             c # 4 \/ behind = PwmBytes(cs[4]) => out[c] = calc_value(cs[c].pwm, cs[c].pin)
    BY <2>2, <2>3, TakesAll
  <2>5. board' = [board EXCEPT !.out = out]
    BY <2>1, <2>3, Zenon
  <2>6. board'.out = out /\ board'.in = board.in /\ board' = [out |-> board'.out, in |-> board'.in]
    BY <2>5 DEF BoardAgrees
  <2>7. \A c \in Channels : Stray(c)' \/ board'.out[c] = calc_value(commanded'[c].pwm, commanded'[c].pin)
    BY <2>1, <2>4, <2>6, Zenon DEF Stray
  <2>8. sample' = [c \in Channels |-> board.in[c]]
    BY <2>1, <2>2, AnswersAll, Zenon DEF BoardAgrees
  <2>9. measured' = board.in /\ sample' = board.in
    BY <1>5, <2>8 DEF update_io, BoardAgrees
  <2>10. strayed' \in BOOLEAN
    BY <2>1, Zenon
  <2>11. QED
    BY <2>1, <2>2, <2>4, <2>6, <2>7, <2>9, <2>10, Zenon DEF BoardAgrees
<1>6. QED
  BY <1>1, <1>2, <1>3, <1>4, <1>5 DEF IcoNext, init, test

\* Whatever the calls, the values and the readings, every channel stands at the
\* nearest value within the limits to the one it was given last, with its pin,
\* and what is read is what that channel of the board had (calc_value,
\* create_pwm_msg, create_all_msg, setOutput, getInput, update_io, and the
\* reversal of the bits in both directions); of channel 4 as long as the reads past
\* the array give its bytes.
THEOREM EveryChannelAgrees == Spec => []ChannelsAgree
<1>1. BoardAgrees => ChannelsAgree
  <2> SUFFICES ASSUME BoardAgrees, NEW c \in Channels
               PROVE  /\ ~Stray(c) => ChannelStands(c)
                      /\ sample[c] = measured[c]
    BY DEF ChannelsAgree, Stray, ChannelStands
  <2>1. commanded[c] \in Command /\ sample[c] = measured[c]
    BY DEF BoardAgrees
  <2>2. ASSUME ~Stray(c) PROVE ChannelStands(c)
    <3>1. board.out[c] = calc_value(commanded[c].pwm, commanded[c].pin)
      BY <2>2 DEF BoardAgrees
    <3>2. QED
      BY <2>1, <3>1, CommandValue DEF ChannelStands
  <2>3. QED
    BY <2>1, <2>2
<1>2. Init => BoardAgrees
  BY AtRest DEF Init
<1>3. BoardAgrees /\ [Next]_vars => BoardAgrees'
  BY AgreeStep DEF Next, vars
<1>4. QED
  BY <1>1, <1>2, <1>3, PTL DEF Spec

\* A clamped number lies between the bounds.
LEMMA ClampBetween ==
  ASSUME NEW v \in Int, NEW lo \in Int, NEW hi \in Int, lo <= hi
  PROVE  Clamp(v, lo, hi) \in Int /\ lo <= Clamp(v, lo, hi) /\ Clamp(v, lo, hi) <= hi
BY DEF Clamp

\* Wherever the centre is and whatever size is asked for, the part of the
\* picture is a square of at least one pixel inside of it, as long as the
\* picture is at least as wide as it is high (CreateCVSubimage).
THEOREM SquareInside ==
  ASSUME NEW width \in Nat, NEW height \in Nat, height >= 1, width >= height,
         NEW center_x \in Int, NEW center_y \in Int, NEW output_dim \in Int
  PROVE  Inside(SubImage(width, height, center_x, center_y, output_dim), width, height)
<1> DEFINE half == (height \div 2) \div 2
           dim == Clamp(output_dim, 1, height)
           x == Clamp(center_x - half, 0, width - dim)
           y == Clamp(center_y - half, 0, height - dim)
<1>1. half \in Int
  OBVIOUS
<1>2. dim \in Int /\ 1 <= dim /\ dim <= height
  BY ClampBetween
<1> HIDE DEF half, dim
<1>3. x \in Int /\ 0 <= x /\ x <= width - dim
  BY <1>1, <1>2, ClampBetween
<1>4. y \in Int /\ 0 <= y /\ y <= height - dim
  BY <1>1, <1>2, ClampBetween
<1> HIDE DEF x, y
<1>5. SubImage(width, height, center_x, center_y, output_dim) = [x |-> x, y |-> y, dim |-> dim]
  BY DEF SubImage, half, dim, x, y
<1>6. QED
  BY <1>2, <1>3, <1>4, <1>5 DEF Inside
-----------------------------------------------------------------------------
\* The time of the plant after a number of callbacks of the dynamics timer.
TimeAfter(n) == IF n < FinishSteps THEN n ELSE FinishSteps

\* The plant runs until its finish time, and the node knows and publishes the
\* pose it has.
PlantRuns ==
  /\ ticks \in Nat
  /\ plant.state \in {"mainrun", "finished"}
  /\ plant.time = TimeAfter(ticks)
  /\ plant.state = "finished" => plant.time = FinishSteps
  /\ output_vector = At(plant.pose, plant.time)
  /\ robot_pose = output_vector

\* A callback of the dynamics timer.
LEMMA DynamicsStep ==
  ASSUME PlantRuns, DynamicsTimer, plant \in [state : {"mainrun", "finished"}, time : Nat, pose : {plant.pose}]
  PROVE  PlantRuns'
<1>0. FinishSteps \in Nat /\ plant.time \in Nat
  BY SimulatorAssumption DEF SimulatorAssumption
<1>1. /\ ticks' = IF ticks < FinishSteps + 2 THEN ticks + 1 ELSE ticks
      /\ robot_pose' = output_vector' /\ Calculate
  BY DEF DynamicsTimer
<1>2. CASE plant.state = "mainrun" /\ Due(plant.time)
  <2>1. PICK pose \in Poses :
          /\ plant' = [state |-> IF Ends(plant.time + 1) THEN "finished" ELSE "mainrun",
                       time |-> plant.time + 1, pose |-> pose]
          /\ output_vector' = At(pose, plant.time + 1)
    BY <1>1, <1>2 DEF Calculate
  <2>2. plant.time < FinishSteps /\ ticks = plant.time /\ ticks < FinishSteps
    BY <1>0, <1>2 DEF Due, PlantRuns, TimeAfter
  <2>3. /\ plant'.time = plant.time + 1 /\ plant'.pose = pose
        /\ plant'.state = IF Ends(plant.time + 1) THEN "finished" ELSE "mainrun"
    BY <2>1
  <2>4. ticks' \in Nat /\ plant'.time = TimeAfter(ticks')
    BY <1>0, <1>1, <2>2, <2>3 DEF TimeAfter
  <2>5. plant'.state = "finished" => plant'.time = FinishSteps
    BY <1>0, <2>2, <2>3 DEF Ends
  <2>6. plant'.state \in {"mainrun", "finished"}
    BY <2>3
  <2>7. QED
    BY <1>1, <2>1, <2>3, <2>4, <2>5, <2>6 DEF PlantRuns
<1>3. CASE ~(plant.state = "mainrun" /\ Due(plant.time))
  <2>1. plant' = [plant EXCEPT !.state = "finished"] /\ output_vector' = output_vector
    BY <1>1, <1>3, Zenon DEF Calculate
  <2>2. plant.time = FinishSteps /\ ticks >= FinishSteps
    BY <1>0, <1>3 DEF Due, PlantRuns, TimeAfter
  <2>3. plant'.time = plant.time /\ plant'.pose = plant.pose /\ plant'.state = "finished"
    BY <2>1
  <2>4. ticks' \in Nat /\ plant'.time = TimeAfter(ticks')
    BY <1>0, <1>1, <2>2, <2>3 DEF TimeAfter, PlantRuns
  <2>5. QED
    BY <1>1, <2>1, <2>2, <2>3, <2>4 DEF PlantRuns
<1>4. QED
  BY <1>2, <1>3

\* Every callback takes the plant one step further up to its finish time, and
\* the node publishes the pose of that time, from then on too: nothing looks at
\* IsFinished (dynamics_timer_callback, Plant::Calculate).
THEOREM PoseFollowsTime == Spec => []PoseOfTheTime
<1> DEFINE Record == plant = [state |-> plant.state, time |-> plant.time, pose |-> plant.pose]
           Inv == PlantRuns /\ Record
<1>1. Init => Inv
  BY SimulatorAssumption DEF Init, SimInit, SimulatorAssumption, PlantRuns, TimeAfter
<1>2. Inv /\ [SimNext]_simVars => Inv'
  <2> SUFFICES ASSUME Inv, [SimNext]_simVars PROVE Inv'
    OBVIOUS
  <2>1. CASE UNCHANGED <<plant, output_vector, robot_pose, ticks>>
    BY <2>1, Zenon DEF PlantRuns
  <2>2. CASE DynamicsTimer
    <3>1. Record'
      BY <2>2 DEF DynamicsTimer, Calculate
    <3>2. plant.time \in Nat /\ plant.state \in {"mainrun", "finished"}
      BY SimulatorAssumption DEF SimulatorAssumption, PlantRuns, TimeAfter
    <3>3. QED
      BY <2>2, <3>1, <3>2, DynamicsStep
  <2>3. QED
    BY <2>1, <2>2
       DEF SimNext, simVars, MotorSetpoint, TwistCallback, WebcamCallback, ImageTimer
<1>3. Inv => PoseOfTheTime
  BY DEF PlantRuns, TimeAfter, PoseOfTheTime, At
<1>4. [Next]_vars => [SimNext]_simVars
  BY DEF Next, vars
<1>5. QED
  BY <1>1, <1>2, <1>3, <1>4, PTL DEF Spec

\* The whole part of a number is an integer.
LEMMA TruncatedWhole ==
  ASSUME NEW r \in Rationals
  PROVE  Truncated(r) \in Int
<1>1. r[1] \in Int /\ r[2] \in Nat /\ r[2] # 0
  BY NumbersOf
<1>2. r[1] \div r[2] \in Int /\ (- r[1]) \div r[2] \in Int
  BY <1>1
<1>3. QED
  BY <1>2 DEF Truncated

\* The camera callback shows a part of the picture that came last, seen from the
\* pose the node knows.
CameraSees ==
  /\ output_vector.pose \in Poses \cup {Origin}
  /\ input_image \in Pictures \cup {NoPicture}
  /\ CropInside

LEMMA CameraStep == CameraSees /\ [SimNext]_simVars => CameraSees'
<1> SUFFICES ASSUME CameraSees, [SimNext]_simVars PROVE CameraSees'
  OBVIOUS
<1>1. CASE UNCHANGED <<output_vector, input_image, view>>
  BY <1>1 DEF CameraSees, CropInside
<1>2. CASE WebcamCallback
  BY <1>2 DEF WebcamCallback, CameraSees, CropInside
<1>3. CASE DynamicsTimer
  <2>1. output_vector'.pose \in Poses \cup {Origin}
    <3>1. CASE UNCHANGED output_vector
      BY <3>1 DEF CameraSees
    <3>2. CASE \E pose \in Poses : output_vector' = At(pose, plant.time + 1)
      BY <3>2 DEF At
    <3>3. QED
      BY <1>3, <3>1, <3>2 DEF DynamicsTimer, Calculate
  <2>2. UNCHANGED <<input_image, view>>
    BY <1>3 DEF DynamicsTimer
  <2>3. QED
    BY <2>1, <2>2 DEF CameraSees, CropInside
<1>4. CASE ImageTimer
  <2> DEFINE w == input_image.width
             h == input_image.height
             pose == output_vector.pose
             center_x == Truncated(Whole(w \div 2) (-) pose.pan)
             dim == Truncated(Ratio(h, 2) (-) (pose.x (.) Ratio(h, 10)))
  <2>1. w \in Nat /\ h \in Nat /\ h >= 1 /\ w >= h
    BY <1>4, SimulatorAssumption DEF ImageTimer, CameraSees, SimulatorAssumption
  <2>2. pose.x \in Rationals /\ pose.pan \in Rationals
    BY SimulatorAssumption, Wholes DEF CameraSees, Origin, SimulatorAssumption
  <2>3. UNCHANGED <<output_vector, input_image>>
        /\ \/ UNCHANGED view
           \/ /\ Window(h) # 0
              /\ view' = [picture |-> input_image, crop |-> SubImage(w, h, center_x, h \div 2, dim)]
    BY <1>4 DEF ImageTimer
  <2> HIDE DEF w, h, pose
  <2>4. center_x \in Int
    <3>1. Whole(w \div 2) \in Rationals
      BY <2>1, Wholes
    <3>2. QED
      BY <2>2, <3>1, Closed, TruncatedWhole
  <2>5. dim \in Int
    <3>1. Ratio(h, 2) \in Rationals /\ Ratio(h, 10) \in Rationals
      BY <2>1, RatioIs DEF Is
    <3>2. QED
      BY <2>2, <3>1, Closed, TruncatedWhole
  <2> HIDE DEF center_x, dim
  <2>6. Inside(SubImage(w, h, center_x, h \div 2, dim), w, h)
    <3>1. h \div 2 \in Int
      BY <2>1
    <3>2. QED
      BY <2>1, <2>4, <2>5, <3>1, SquareInside, Zenon
  <2>7. CropInside'
    <3>1. CASE UNCHANGED view
      BY <3>1 DEF CameraSees, CropInside
    <3>2. CASE ~UNCHANGED view
      <4>1. /\ view'.picture.width = w /\ view'.picture.height = h
            /\ view'.crop = SubImage(w, h, center_x, h \div 2, dim)
        BY <2>3, <3>2 DEF w, h
      <4>2. Window(h) >= 1
        BY <2>1, <2>3, <3>2 DEF Window
      <4>3. QED
        BY <2>6, <4>1, <4>2 DEF CropInside
    <3>3. QED
      BY <3>1, <3>2
  <2>8. QED
    BY <2>3, <2>7 DEF CameraSees
<1>5. QED
  BY <1>1, <1>2, <1>3, <1>4 DEF SimNext, simVars, MotorSetpoint, TwistCallback

\* What is published has pixels and is a square inside the picture, whatever poses the
\* plant has taken, whatever pictures came and in whatever order the callbacks
\* ran (image_stream_timer_callback, CreateCVSubimage).
THEOREM CropStaysInside == Spec => []CropInside
<1>1. Init => CameraSees
  BY DEF Init, SimInit, At, CameraSees, CropInside
<1>2. [Next]_vars => [SimNext]_simVars
  BY DEF Next, vars
<1>3. CameraSees => CropInside
  BY DEF CameraSees
<1>4. QED
  BY <1>1, <1>2, <1>3, CameraStep, PTL DEF Spec
-----------------------------------------------------------------------------

\* What a division of unsigned numbers gives.
LEMMA QuotientBounds ==
  ASSUME NEW n \in Nat, NEW d \in Nat, d # 0
  PROVE  /\ Quotient(n, d) \in Nat
         /\ Quotient(n, d) * d <= n /\ n < (Quotient(n, d) + 1) * d
         /\ Quotient(n, d) <= n
BY DEF Quotient

\* The cycles from one output to the next: a counter that starts at 0 less one
\* goes through all its values.
Period(u) == IF Decimator(u) = 0 THEN UintMax + 1 ELSE Decimator(u)

\* The data bridge that is asked for nothing.
Unasked(u) == u = "data" /\ freq[u] = 0

\* How counter and waiting time belong together.  A bridge is due when its
\* counter is 0 at the start of a cycle, the monitor when it is 0 at the end.
BridgeWaits(u) == counter[u] + waited[u] + 1 = Period(u)
MonitorWaits(u) ==
  IF u \in served
  THEN waited[u] < Period(u) /\ counter[u] = (IF waited[u] = 0 THEN 0 ELSE Period(u) - waited[u])
  ELSE counter[u] + waited[u] + 1 = Period(u) /\ (counter[u] = 0 => Period(u) = 1)

CountersTyped ==
  /\ UintMax \in Nat
  /\ cycle_freq \in 1 .. UintMax + 1
  /\ freq \in [Users -> Nat]
  /\ counter \in [Users -> Nat] /\ waited \in [Users -> Nat] /\ gap \in [Users -> Nat]

CounterFits(u) ==
  IF Unasked(u) THEN u \notin served
  ELSE /\ IF u = "monitor" THEN MonitorWaits(u) ELSE BridgeWaits(u)
       /\ gap[u] \in {0, Period(u)}

CountersFit == CountersTyped /\ (running => \A u \in Users : CounterFits(u))

LEMMA PeriodBounds ==
  ASSUME CountersTyped, NEW u \in Users
  PROVE  /\ Decimator(u) \in Nat
         /\ Period(u) \in Nat /\ 1 <= Period(u) /\ Period(u) <= UintMax + 1
         /\ FirstCount(u) = Period(u) - 1
<1>1. freq[u] \in Nat /\ cycle_freq \in Nat /\ cycle_freq <= UintMax + 1 /\ 1 <= cycle_freq /\ UintMax \in Nat
  BY DEF CountersTyped
<1>2. Quotient(cycle_freq, freq[u]) \in Nat /\ Quotient(cycle_freq, freq[u]) <= cycle_freq
  <2>1. CASE freq[u] = 0
    BY <1>1, <2>1 DEF Quotient
  <2>2. CASE freq[u] # 0
    BY <1>1, <2>2, QuotientBounds
  <2>3. QED
    BY <2>1, <2>2
<1>3. Decimator(u) \in Nat /\ Decimator(u) <= UintMax + 1
  BY <1>1, <1>2 DEF Decimator
<1>4. QED
  BY <1>1, <1>3 DEF Period, FirstCount

\* What a cycle does to the counter of one user.
LEMMA CycleOf ==
  ASSUME CountersTyped, Cycle, NEW u \in Users
  PROVE  /\ counter'[u] = IF u = "monitor" /\ freq[u] = 0 THEN counter[u]
                          ELSE IF counter[u] = 0 THEN Period(u) - 1 ELSE counter[u] - 1
         /\ u \in due' <=> \/ u = "monitor" /\ counter'[u] = 0
                           \/ u # "monitor" /\ counter[u] = 0 /\ ~Unasked(u)
         /\ waited'[u] = IF u \in due' THEN 0
                         ELSE IF waited[u] > UintMax THEN waited[u] ELSE waited[u] + 1
         /\ gap'[u] = IF u \in due' \cap served THEN waited[u] + 1 ELSE gap[u]
         /\ u \in served' <=> u \in served \/ u \in due'
<1>1. FirstCount(u) = Period(u) - 1
  BY PeriodBounds
<1>2. QED
  BY <1>1 DEF Cycle, Count, Unasked, Users

LEMMA FrequenciesStay ==
  ASSUME UNCHANGED <<cycle_freq, freq>>, NEW u
  PROVE  Period(u)' = Period(u) /\ Unasked(u)' = Unasked(u)
BY DEF Period, Decimator, Unasked

\* A cycle keeps what a user's counter and waiting time say of each other.
LEMMA CycleFits ==
  ASSUME CountersTyped, Cycle, NEW u \in Users, CounterFits(u)
  PROVE  CounterFits(u)'
<1>0. /\ counter[u] \in Nat /\ waited[u] \in Nat /\ gap[u] \in Nat /\ UintMax \in Nat
      /\ UNCHANGED <<cycle_freq, freq>>
  BY DEF CountersTyped, Cycle
<1>1. Period(u)' = Period(u) /\ Unasked(u)' = Unasked(u)
  BY <1>0, FrequenciesStay
<1>2. Period(u) \in Nat /\ 1 <= Period(u) /\ Period(u) <= UintMax + 1
  BY PeriodBounds
<1>3. CASE Unasked(u)
  BY <1>1, <1>3, CycleOf DEF CounterFits, Unasked
<1>4. CASE ~Unasked(u) /\ u # "monitor"
  <2>1. counter[u] + waited[u] + 1 = Period(u) /\ gap[u] \in {0, Period(u)}
    BY <1>4 DEF CounterFits, BridgeWaits
  <2>2. (u \in due') <=> counter[u] = 0
    BY <1>4, CycleOf
  <2>3. counter'[u] = IF counter[u] = 0 THEN Period(u) - 1 ELSE counter[u] - 1
    BY <1>4, CycleOf
  <2>4. counter'[u] + waited'[u] + 1 = Period(u) /\ gap'[u] \in {0, Period(u)}
    BY <1>0, <1>2, <2>1, <2>2, <2>3, CycleOf
  <2>5. QED
    BY <1>1, <1>4, <2>4 DEF CounterFits, BridgeWaits
<1>5. CASE ~Unasked(u) /\ u = "monitor"
  <2>1. MonitorWaits(u) /\ gap[u] \in {0, Period(u)}
    BY <1>5 DEF CounterFits
  <2>2. (u \in due') <=> counter'[u] = 0
    BY <1>5, CycleOf
  <2>3. counter'[u] = IF counter[u] = 0 THEN Period(u) - 1 ELSE counter[u] - 1
    <3>1. CASE freq[u] = 0
      <4>1. Period(u) = 1
        BY <1>5, <3>1 DEF Period, Decimator, Quotient
      <4>2. counter[u] = 0
        BY <1>0, <2>1, <4>1 DEF MonitorWaits
      <4>3. QED
        BY <1>5, <3>1, <4>1, <4>2, CycleOf
    <3>2. CASE freq[u] # 0
      BY <3>2, CycleOf
    <3>3. QED
      BY <3>1, <3>2
  <2>4. /\ IF u \in served'
           THEN waited'[u] < Period(u) /\ counter'[u] = (IF waited'[u] = 0 THEN 0 ELSE Period(u) - waited'[u])
           ELSE counter'[u] + waited'[u] + 1 = Period(u) /\ (counter'[u] = 0 => Period(u) = 1)
        /\ gap'[u] \in {0, Period(u)}
    <3>1. CASE u \in served
      BY <1>0, <1>2, <2>1, <2>2, <2>3, <3>1, CycleOf DEF MonitorWaits
    <3>2. CASE u \notin served
      BY <1>0, <1>2, <2>1, <2>2, <2>3, <3>2, CycleOf DEF MonitorWaits
    <3>3. QED
      BY <3>1, <3>2
  <2>5. QED
    BY <1>1, <1>5, <2>4 DEF CounterFits, MonitorWaits
<1>6. QED
  BY <1>3, <1>4, <1>5

LEMMA CountersStart ==
  ASSUME NEW given, given \subseteq 0 .. UintMax + 1, UintMax \in Nat, DecimationInit(given)
  PROVE  CountersFit
<1>1. CountersTyped /\ served = {}
  <2>1. /\ cycle_freq \in 1 .. UintMax + 1 /\ freq \in [Users -> Nat]
        /\ counter = [u \in Users |-> FirstCount(u)] /\ served = {}
        /\ waited = [u \in Users |-> 0] /\ gap = [u \in Users |-> 0]
    BY DEF DecimationInit, Users
  <2>2. \A u \in Users : Quotient(cycle_freq, freq[u]) \in Nat
    BY <2>1, QuotientBounds DEF Quotient
  <2>3. \A u \in Users : FirstCount(u) \in Nat
    BY <2>2 DEF FirstCount, Decimator
  <2>4. QED
    BY <2>1, <2>3 DEF CountersTyped
<1>2. ASSUME NEW u \in Users PROVE CounterFits(u)
  <2>1. counter[u] = Period(u) - 1 /\ waited[u] = 0 /\ gap[u] = 0 /\ Period(u) \in Nat
    BY <1>1, PeriodBounds DEF DecimationInit
  <2>2. QED
    BY <1>1, <2>1 DEF CounterFits, MonitorWaits, BridgeWaits
<1>3. QED
  BY <1>1, <1>2 DEF CountersFit

LEMMA CountersStep == CountersFit /\ [Cycle]_decimationVars => CountersFit'
<1>1. SUFFICES ASSUME CountersFit, [Cycle]_decimationVars PROVE CountersFit'
  OBVIOUS
<1>2. CASE Cycle
  <2>1. ASSUME NEW u \in Users
        PROVE  counter'[u] \in Nat /\ waited'[u] \in Nat /\ gap'[u] \in Nat
    BY <1>1, <1>2, CycleOf, PeriodBounds DEF CountersFit, CountersTyped
  <2>2. /\ counter' = [u \in Users |-> counter'[u]] /\ waited' = [u \in Users |-> waited'[u]]
        /\ gap' = [u \in Users |-> gap'[u]] /\ UNCHANGED <<cycle_freq, freq, running>>
    BY <1>2 DEF Cycle
  <2>3. CountersTyped'
    BY <1>1, <2>1, <2>2 DEF CountersFit, CountersTyped
  <2>4. QED
    BY <1>1, <1>2, <2>2, <2>3, CycleFits DEF CountersFit
<1>3. CASE UNCHANGED decimationVars
  BY <1>1, <1>3 DEF decimationVars, CountersFit, CountersTyped, CounterFits, BridgeWaits,
     MonitorWaits, Unasked, Period, Decimator
<1>4. QED
  BY <1>1, <1>2, <1>3

\* More of a product.
LEMMA ProductGrows ==
  ASSUME NEW a \in Nat, NEW b \in Nat, NEW f \in Nat, a <= b
  PROVE  a * f <= b * f
OBVIOUS

LEMMA FitMeansRate == CountersFit => RatesAsAsked
<1>1. SUFFICES ASSUME CountersFit, running, NEW u \in Users
               PROVE  IF freq[u] \in 1 .. cycle_freq
                      THEN /\ (waited[u] + 1) * freq[u] <= cycle_freq
                           /\ gap[u] # 0 => gap[u] * freq[u] <= cycle_freq /\ cycle_freq < (gap[u] + 1) * freq[u]
                      ELSE CASE u = "monitor" -> freq[u] # 0 => waited[u] = 0 /\ gap[u] \in {0, 1}
                             [] u = "data" /\ freq[u] = 0 -> u \notin served
                             [] OTHER -> waited[u] <= UintMax /\ gap[u] \in {0, UintMax + 1}
  BY DEF RatesAsAsked
<1>2. /\ freq[u] \in Nat /\ cycle_freq \in Nat /\ cycle_freq >= 1 /\ UintMax \in Nat
      /\ counter[u] \in Nat /\ waited[u] \in Nat /\ gap[u] \in Nat /\ CounterFits(u)
  BY <1>1 DEF CountersFit, CountersTyped
<1>3. Period(u) \in Nat /\ 1 <= Period(u)
  BY <1>1, PeriodBounds DEF CountersFit
<1>4. ~Unasked(u) => waited[u] + 1 <= Period(u) /\ gap[u] \in {0, Period(u)}
  BY <1>2, <1>3 DEF CounterFits, BridgeWaits, MonitorWaits
<1>5. CASE freq[u] \in 1 .. cycle_freq
  <2>0. /\ Quotient(cycle_freq, freq[u]) \in Nat
        /\ Quotient(cycle_freq, freq[u]) * freq[u] <= cycle_freq
        /\ cycle_freq < (Quotient(cycle_freq, freq[u]) + 1) * freq[u]
    <3>1. cycle_freq \in Nat /\ freq[u] \in Nat /\ freq[u] # 0
      BY <1>2, <1>5
    <3>2. QED
      BY <3>1, QuotientBounds, Zenon
  <2>1. Quotient(cycle_freq, freq[u]) >= 1
    BY <1>2, <1>5 DEF Quotient
  <2>2. Period(u) = Quotient(cycle_freq, freq[u])
    BY <2>0, <2>1 DEF Period, Decimator
  <2>3. Period(u) * freq[u] <= cycle_freq /\ cycle_freq < (Period(u) + 1) * freq[u]
    BY <2>0, <2>2
  <2>4. waited[u] + 1 <= Period(u) /\ gap[u] \in {0, Period(u)}
    BY <1>4, <1>5 DEF Unasked
  <2>5. (waited[u] + 1) * freq[u] <= Period(u) * freq[u]
    <3>1. waited[u] + 1 \in Nat
      BY <1>2
    <3>2. QED
      BY <1>2, <1>3, <2>4, <3>1, ProductGrows, Zenon
  <2>6. (waited[u] + 1) * freq[u] <= cycle_freq
    BY <1>2, <1>3, <2>3, <2>5
  <2>7. QED
    BY <1>5, <2>3, <2>4, <2>6
<1>6. CASE freq[u] \notin 1 .. cycle_freq
  <2>1. Quotient(cycle_freq, freq[u]) = 0
    <3>1. CASE freq[u] = 0
      BY <3>1 DEF Quotient
    <3>2. CASE freq[u] # 0
      BY <1>2, <1>6, <3>2 DEF Quotient
    <3>3. QED
      BY <3>1, <3>2
  <2>2. CASE u = "monitor"
    <3>1. Period(u) = 1
      BY <2>1, <2>2 DEF Period, Decimator
    <3>2. QED
      BY <1>2, <1>4, <1>6, <2>2, <3>1 DEF Unasked
  <2>3. CASE u # "monitor" /\ Unasked(u)
    BY <1>2, <1>6, <2>3 DEF Unasked, CounterFits
  <2>4. CASE u # "monitor" /\ ~Unasked(u)
    <3>1. Period(u) = UintMax + 1
      BY <2>1, <2>4 DEF Period, Decimator
    <3>2. QED
      BY <1>2, <1>4, <1>6, <2>4, <3>1 DEF Unasked
  <2>5. QED
    BY <2>2, <2>3, <2>4
<1>7. QED
  BY <1>5, <1>6

\* Every user who asks for no more outputs than there are cycles gets them at
\* the slowest regular rate that is not below the one asked for, and the others
\* what RatesAsAsked says, whatever the frequencies and the width of the counters
\* (constructors and update of the two bridges and of the monitor).
THEOREM RatesHold == Spec => []RatesAsAsked
<1>1. Init => CountersFit
  <2> SUFFICES ASSUME Init PROVE CountersFit
    OBVIOUS
  <2>1. UintMax \in Nat /\ Frequencies \subseteq 0 .. UintMax + 1 /\ {1} \subseteq 0 .. UintMax + 1
    BY DecimationAssumption DEF DecimationAssumption
  <2>2. DecimationInit(Frequencies) \/ DecimationInit({1})
    BY DEF Init
  <2>3. QED
    BY <2>1, <2>2, CountersStart
<1>2. [Next]_vars => [Cycle]_decimationVars
  BY DEF Next, vars
<1>3. QED
  BY <1>1, <1>2, CountersStep, FitMeansRate, PTL DEF Spec
-----------------------------------------------------------------------------
(***************************************************************************)
(* The plant.                                                              *)
(***************************************************************************)

\* No sample of the plant makes power, whatever its parameters are: the equations
\* have the right signs and ratios (Plant::CalculateDynamic).
THEOREM PowerIsBalanced == Spec => []PowerBalance
<1> DEFINE Sampled == subject.kind = "plant" => subject \in Samples
<1>1. Init => Sampled
  BY DEF Init
<1>2. Sampled /\ [Next]_vars => Sampled'
  BY DEF Next, vars
<1>3. Sampled => PowerBalance
  <2> SUFFICES ASSUME subject.kind = "plant", subject \in Samples
               PROVE  PlantLaw(Parameters, subject.s,
                               CalculateDynamic(Parameters, subject.turn, subject.s, subject.u))
    BY DEF PowerBalance
  <2>1. PlantNumbers(Parameters, subject.s, subject.turn, subject.u)
    BY PlantAssumption DEF PlantNumbers
  <2>2. QED
    BY <2>1, PlantBalances
<1>4. QED
  BY <1>1, <1>2, <1>3, PTL DEF Spec
\* The samples that the laws are proved for: all numbers, vectors of three, bits, chains
\* of integrators, rates, loops and unit matrices; of square matrices those of two rows, of
\* impulses those the law samples to their end; no motions.
Covered(x) ==
  /\ x.kind # "motion"
  /\ x.kind = "square" =>
       \E a, b, c, d, e, f, g, h \in Rationals :
         x.A = Rows(2, 2, <<a, b, c, d>>) /\ x.D = Rows(2, 2, <<e, f, g, h>>)
  /\ x.kind = "product" => x.i \in 0 .. 5 /\ x.j \in 0 .. 5
  /\ x.kind = "vectors" =>
       \E a, b, c, d, e, f \in Rationals : x.v = <<a, b, c>> /\ x.w = <<d, e, f>>
  /\ x.kind = "numbers" =>
       x.x \in Rationals /\ x.y \in Rationals /\ (x.y = Zero \/ ~Less(Whole(19) (.) Abs(x.y), Abs(x.x)))
  /\ x.kind = "bits" => x.a \in SUBSET Bits /\ x.b \in SUBSET Bits /\ x.n \in 0 .. 31
  /\ x.kind = "chain" => x.n \in 1 .. 4 /\ x.s \in [0 .. x.n - 1 -> Rationals] /\ x.h \in Rationals
  /\ x.kind = "time" => x.k \in 0 .. 3 /\ x.t \in Rationals /\ x.h \in Rationals
  /\ x.kind = "loop" =>
       /\ x.P \in [0 .. 5 -> Rationals] /\ x.h \in Rationals
       /\ x.u1 \in [1 .. 4 -> Rationals] /\ x.u2 \in [1 .. 4 -> Rationals]

\* The numeric library keeps its laws for every sample of these, whatever else the samples
\* are (xxinverse.cpp, xxmatrix.cpp, xxfuncs.cpp, xxinteg.cpp, LoopController::Calculate).
THEOREM LibraryHolds == Spec => [](Covered(subject) => LibraryLaws)
<1>1. ASSUME Covered(subject) PROVE LibraryLaws
  <2>1. subject.kind = "square" => SquareLaw(subject.A, subject.D)
    <3> SUFFICES ASSUME subject.kind = "square" PROVE SquareLaw(subject.A, subject.D)
      OBVIOUS
    <3>1. PICK a, b, c, d, e, f, g, h \in Rationals :
            subject.A = Rows(2, 2, <<a, b, c, d>>) /\ subject.D = Rows(2, 2, <<e, f, g, h>>)
      BY <1>1 DEF Covered
    <3>2. subject.A = Square(a, b, c, d) /\ subject.D = Square(e, f, g, h)
      BY <3>1, SquareIs
    <3>3. SquareLaw(Square(a, b, c, d), Square(e, f, g, h))
      BY <3>1, SquaresFit
    <3>4. QED
      BY <3>2, <3>3
  <2>2. subject.kind = "product" => ProductLaw(subject.i, subject.j)
    BY <1>1, UnitsFit DEF Covered
  <2>3. subject.kind = "vectors" => VectorLaw(subject.v, subject.w)
    BY <1>1, VectorsFit DEF Covered
  <2>4. subject.kind = "numbers" => NumberLaw(subject.x, subject.y)
    BY <1>1, NumbersFit DEF Covered
  <2>5. subject.kind = "bits" => BitsLaw(subject.a, subject.b, subject.n)
    BY <1>1, BitsAreBits DEF Covered
  <2>6. subject.kind = "chain" => ChainLaw(subject.n, subject.s, subject.h)
    BY <1>1, ChainsAreExact DEF Covered
  <2>7. subject.kind = "time" => QuadratureLaw(subject.k, subject.t, subject.h)
    BY <1>1, TimeIsIntegrated DEF Covered
  <2>8. subject.kind = "loop" => LoopLaw(subject.P, subject.h, subject.u1, subject.u2)
    BY <1>1, ErrorLags DEF Covered
  <2>9. subject.kind # "motion"
    BY <1>1 DEF Covered
  <2>10. QED
    BY <2>1, <2>2, <2>3, <2>4, <2>5, <2>6, <2>7, <2>8, <2>9 DEF LibraryLaws
<1>2. Covered(subject) => LibraryLaws
  BY <1>1
<1>3. QED
  BY <1>2, PTL
=============================================================================
