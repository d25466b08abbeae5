--------------------------- MODULE MCRobotModels ---------------------------
(***************************************************************************)
(* The instances that TLC evaluates the models of the robot for.           *)
(***************************************************************************)
EXTENDS RobotModels

W(n) == Whole(n)

Entries2 == {W(n) : n \in -2 .. 2}
Squares2 == {Rows(2, 2, <<a, b, c, d>>) : a, b, c, d \in Entries2}
Squares3 == {Matrix(3, 3, LAMBDA i : IF i \in ones THEN hi ELSE lo) :
              ones \in SUBSET (0 .. 8), hi \in {W(1)}, lo \in {W(0), W(-2)}}
Counted(n) == Matrix(n, n, LAMBDA i : W(i + 1))
SquareSamples == {[kind |-> "square", A |-> A, D |-> Counted(A.rows)] : A \in Squares2 \cup Squares3}

ProductSamples == {[kind |-> "product", i |-> i, j |-> j] : i, j \in 0 .. 5}

Vectors == {<<W(a), W(b), W(c)>> : a, b, c \in {-1, 0, 2}}
VectorSamples == {[kind |-> "vectors", v |-> v, w |-> w] : v, w \in Vectors}

C == Ratio(3, 5)
S == Ratio(4, 5)
Rotations == {
  Rows(3, 3, <<C, Neg(S), Zero, S, C, Zero, Zero, Zero, One>>),
  Rows(3, 3, <<One, Zero, Zero, Zero, C, S, Zero, Neg(S), C>>),
  Rows(3, 3, <<Zero, Zero, One, One, Zero, Zero, Zero, One, Zero>>)}
Places == {<<W(1), W(-2), W(3)>>, <<W(0), W(5), W(-1)>>, <<W(2), W(0), W(0)>>}
MotionSamples ==
  {[kind |-> "motion", R1 |-> R1, p1 |-> p1, R2 |-> R2, p2 |-> p2, v |-> v, w |-> p1] :
    R1, R2 \in Rotations, p1, p2, v \in Places}

Numbers == {Ratio(n, 2) : n \in -7 .. 7} \cup {Ratio(5, 3), Ratio(-1, 3)}
NumberSamples == {[kind |-> "numbers", x |-> x, y |-> y] : x, y \in Numbers}
Integers32 == {{}, {0}, {31}, {7, 9, 30}, {8, 15, 16}, {3, 23, 24}, 0 .. 31, 1 .. 14}
BitsSamples == {[kind |-> "bits", a |-> a, b |-> b, n |-> n] : a, b \in Integers32, n \in {1, 8, 30}}

ChainSamples ==
  {[kind |-> "chain", n |-> n, h |-> h, s |-> [i \in 0 .. n - 1 |-> W((2 * i) - k)]] :
    n \in 1 .. 4, h \in {W(1), Ratio(1, 2)}, k \in 0 .. 2}
TimeSamples ==
  {[kind |-> "time", k |-> k, t |-> t, h |-> h] : k \in 0 .. 3, t \in {W(0), W(1)}, h \in {W(1), W(2)}}
LoopSamples ==
  {[kind |-> "loop", P |-> [i \in 0 .. 5 |-> W(i + 1)], h |-> Ratio(1, 2),
    u1 |-> <<W(a), W(1), W(0), W(b)>>, u2 |-> <<W(b), W(0), W(a), W(2)>>] : a, b \in -1 .. 1}

\* Dead zones of 1, mirrored voltages, and numbers that differ where the sides do.
PlantParameters ==
  [i \in 0 .. 35 |->
    CASE i \in {1, 9} -> W(-2)
      [] i \in {7, 15, 33} -> Ratio(1, 2)
      [] i \in {5, 20, 21, 32, 35} -> W(2)
      [] i \in {3, 17, 23, 24} -> W(3)
      [] i = 28 -> W(-2)
      [] i = 30 -> W(3)
      [] OTHER -> W(1)]

\* The states that carry power and the two signals: one or two of them not zero.
Carriers == {1, 3, 5, 6, 7, 8, 11, 12, 13, 20, 21}
Turns == {[cos |-> One, sin |-> Zero], [cos |-> Zero, sin |-> Neg(One)], [cos |-> C, sin |-> S]}
PlantSamples ==
  {[kind |-> "plant", turn |-> turn,
    s |-> [i \in 0 .. 13 |-> IF i \in {a, b} THEN W(1) ELSE Zero],
    u |-> [k \in 0 .. 1 |-> IF k + 20 \in {a, b} THEN steer ELSE Zero]] :
   a, b \in Carriers, turn \in Turns, steer \in {Ratio(3, 2), W(-1), Ratio(1, 4)}}

NoSamples == {}
AllSamples == SquareSamples \cup ProductSamples \cup VectorSamples \cup MotionSamples
               \cup NumberSamples \cup BitsSamples
               \cup ChainSamples \cup TimeSamples \cup LoopSamples \cup PlantSamples
-----------------------------------------------------------------------------
SimPoses == {[x |-> x, pan |-> pan] : x \in {W(-6), W(3), W(7)}, pan \in {Ratio(-7, 2), W(6)}}
SimPictures == {[width |-> 8, height |-> 6], [width |-> 5, height |-> 5], [width |-> 9, height |-> 1]}
SimVelocities == {W(2)}
SimGeometry == [radius |-> W(1), base |-> W(2), duty |-> W(4)]

Cmd(pwm, pin) == [pwm |-> pwm, pin |-> pin]
BoardCommands == {
  <<Cmd(32767, 1), Cmd(1, 1), Cmd(-300, 0), Cmd(2047, 1)>>,
  <<Cmd(-2047, 0), Cmd(2048, 0), Cmd(-2048, 1), Cmd(255, 0)>>}
BoardOutputs == {Cmd(-32768, 1)}
BoardReadings == {[enc |-> 16083, pin1 |-> 0, pin2 |-> 1]}
BoardStrays == {<<0, 0>>}
-----------------------------------------------------------------------------
\* All numbers of three bits: they divide each other or not, and 0.
AskedFrequencies == 0 .. 7
OneFrequency == {1}
=============================================================================
