-------------------------- MODULE LC3TimingProofs --------------------------
(***************************************************************************)
(* The devices of rtl/ that are right because they count their clocks      *)
(* right.                                                                  *)
(*                                                                         *)
(* First the serial receiver, for every speed of the line, every sender    *)
(* within the tolerance, all pauses, disturbances and resets.  The age of  *)
(* a frame tells where the receiver is in it (RxAt): it takes every sample *)
(* while the sender sends that bit (SampleInBit), reports in one clock and *)
(* waits again before the next frame can begin.                            *)
(*                                                                         *)
(* With it the echo probe: what is owed stands in four places, and their   *)
(* characters move on in one order (EchoInv).  One place to wait is enough *)
(* as long as at most two characters are owed (WaitsInTime).               *)
(*                                                                         *)
(* Then the two pictures, for every panel, every size and place of the     *)
(* framebuffer and all values the counters may have at power-on.  Every    *)
(* stage of the pipelines holds what belongs to the position the beam had  *)
(* one stage earlier, and the prefetch makes up for the port that is one   *)
(* clock late (PrefetchFits).                                              *)
(***************************************************************************)
EXTENDS LC3SerialEcho, LC3SerialLine, LC3Video, Integers, TLAPS, SequenceTheorems

\* How the clocks of a receiver and of a sender within its tolerance agree.
Agree(t, h, d) ==
    /\ t \in Nat /\ h \in Nat /\ d \in Nat
    /\ h > 0 /\ 2 * h <= d
    /\ 9 * t <= h + 9 * d
    /\ h + 9 * d + 4 <= 10 * t

\* The sample of every bit is taken while the sender sends it.
LEMMA SampleInBit ==
  ASSUME NEW t, NEW h, NEW d, Agree(t, h, d), NEW j \in 0 .. 9
  PROVE  j * t <= h + d * j /\ h + d * j < (j + 1) * t
  <1>1. CASE j = 0
    BY <1>1 DEF Agree
  <1>2. CASE j = 1
    BY <1>2 DEF Agree
  <1>3. CASE j = 2
    BY <1>3 DEF Agree
  <1>4. CASE j = 3
    BY <1>4 DEF Agree
  <1>5. CASE j = 4
    BY <1>5 DEF Agree
  <1>6. CASE j = 5
    BY <1>6 DEF Agree
  <1>7. CASE j = 6
    BY <1>7 DEF Agree
  <1>8. CASE j = 7
    BY <1>8 DEF Agree
  <1>9. CASE j = 8
    BY <1>9 DEF Agree
  <1>10. CASE j = 9
    BY <1>10 DEF Agree
  <1> QED BY <1>1, <1>2, <1>3, <1>4, <1>5, <1>6, <1>7, <1>8, <1>9, <1>10

\* Products of lengths are lengths.
LEMMA Products ==
  ASSUME NEW i \in Nat, NEW j \in Nat
  PROVE  i * j \in Nat /\ 0 * j + 0 = 0
  OBVIOUS

\* A clock is in one bit of a frame.
LEMMA OneSlot ==
  ASSUME NEW t \in Nat, NEW i \in Nat, NEW j \in Nat, i * t < (j + 1) * t
  PROVE  i <= j
  <1> SUFFICES ASSUME j + 1 <= i PROVE FALSE
    OBVIOUS
  <1> PICK e \in Nat : i = j + 1 + e
    <2>1. i - j - 1 \in Nat /\ i = j + 1 + (i - j - 1)
      OBVIOUS
    <2> QED BY <2>1
  <1>1. i * t = (j + 1) * t + e * t
    OBVIOUS
  <1>2. e * t \in Nat /\ (j + 1) * t \in Nat
    OBVIOUS
  <1> QED BY <1>1, <1>2
-----------------------------------------------------------------------------
(***************************************************************************)
(* A receiver as a value, because there are two of them.                   *)
(***************************************************************************)
Near == [state |-> rx_state, counter |-> rx_counter, bit |-> bit_count,
         meta |-> rx_meta, sync |-> rx_sync, valid |-> rx_valid, data |-> rx_data]

FarEnd == [state |-> far_state, counter |-> far_counter, bit |-> far_bit,
           meta |-> far_meta, sync |-> far_sync, valid |-> far_valid,
           data |-> far_data]

\* RxClock from receiver r to receiver q.
Counts(n, r, q) == q.counter = IF r.counter = n - 1 THEN 0 ELSE r.counter + 1

IdleStep(r, q) ==
    /\ r.state = "IDLE"
    /\ q.state = IF r.sync = 0 THEN "START_BIT" ELSE "IDLE"
    /\ q.valid = FALSE
    /\ q.counter = r.counter /\ q.bit = r.bit /\ q.data = r.data

StartStep(r, q) ==
    /\ r.state = "START_BIT"
    /\ Counts(HALF_DELAY, r, q)
    /\ q.state = IF r.counter # HALF_DELAY - 1 THEN "START_BIT"
                 ELSE IF r.sync = 0 THEN "RECEIVE" ELSE "IDLE"
    /\ q.valid = FALSE
    /\ q.bit = r.bit /\ q.data = r.data

ReceiveStep(r, q) ==
    /\ r.state = "RECEIVE"
    /\ Counts(DELAY_FRAMES, r, q)
    /\ q.valid = FALSE
    /\ IF r.counter = DELAY_FRAMES - 1
       THEN /\ q.data = [r.data EXCEPT ![r.bit] = r.sync]
            /\ q.bit = (r.bit + 1) % 8
            /\ q.state = IF r.bit = 7 THEN "STOP_BIT" ELSE "RECEIVE"
       ELSE q.data = r.data /\ q.bit = r.bit /\ q.state = r.state

StopStep(r, q) ==
    /\ r.state = "STOP_BIT"
    /\ Counts(DELAY_FRAMES, r, q)
    /\ q.valid = (r.counter = DELAY_FRAMES - 1 /\ r.sync = 1)
    /\ q.state = IF r.counter = DELAY_FRAMES - 1 THEN "IDLE" ELSE "STOP_BIT"
    /\ q.bit = r.bit /\ q.data = r.data

RxStep(r, v, q) ==
    /\ q.meta = v /\ q.sync = r.meta
    /\ IdleStep(r, q) \/ StartStep(r, q) \/ ReceiveStep(r, q) \/ StopStep(r, q)

\* Both receivers take such steps.
LEMMA NearSteps == ASSUME NEW v, RxClock(v) PROVE RxStep(Near, v, Near')
  <1>1. CASE RxIdle
    BY <1>1 DEF RxClock, RxIdle, RxStep, IdleStep, Near
  <1>2. CASE RxStartBit
    BY <1>2 DEF RxClock, RxStartBit, RxCounts, RxDone, RxStep, StartStep, Counts, Near
  <1>3. CASE RxReceive
    BY <1>3 DEF RxClock, RxReceive, RxCounts, RxDone, RxStep, ReceiveStep, Counts, Near
  <1>4. CASE RxStopBit
    BY <1>4, Zenon DEF RxClock, RxStopBit, RxCounts, RxDone, RxStep, StopStep, Counts, Near
  <1> QED BY <1>1, <1>2, <1>3, <1>4 DEF RxClock

\* The same for the far end.
LEMMA FarSteps == ASSUME NEW v, Far!RxClock(v) PROVE RxStep(FarEnd, v, FarEnd')
  <1>1. CASE Far!RxIdle
    BY <1>1 DEF Far!RxClock, Far!RxIdle, RxStep, IdleStep, FarEnd
  <1>2. CASE Far!RxStartBit
    BY <1>2 DEF Far!RxClock, Far!RxStartBit, Far!RxCounts, Far!RxDone, Far!HALF_DELAY,
       HALF_DELAY, RxStep, StartStep, Counts, FarEnd
  <1>3. CASE Far!RxReceive
    BY <1>3 DEF Far!RxClock, Far!RxReceive, Far!RxCounts, Far!RxDone, RxStep,
       ReceiveStep, Counts, FarEnd
  <1>4. CASE Far!RxStopBit
    BY <1>4, Zenon DEF Far!RxClock, Far!RxStopBit, Far!RxCounts, Far!RxDone, RxStep,
       StopStep, Counts, FarEnd
  <1> QED BY <1>1, <1>2, <1>3, <1>4 DEF Far!RxClock
-----------------------------------------------------------------------------
\* What is on the line in slot s of the frame of c.
BitAt(c, s) == IF s = 0 THEN 0 ELSE IF s = 9 THEN 1 ELSE c[s - 1]

\* v was on the line m clocks after the frame of c had begun, with t clocks per bit.
LineWas(m, v, t, c) ==
    /\ m < 0 => v = 1
    /\ \A s \in 0 .. 9 : s * t <= m /\ m < (s + 1) * t => v = BitAt(c, s)

IsFrame(f) == f = [b \in 0 .. 7 |-> f[b]]

RxTypes(r) ==
    /\ \/ r.state = "IDLE" /\ r.counter = 0 /\ r.bit = 0
       \/ r.state = "START_BIT" /\ r.counter \in 0 .. HALF_DELAY - 1 /\ r.bit = 0
       \/ /\ r.state = "RECEIVE" /\ r.counter \in 0 .. DELAY_FRAMES - 1
          /\ r.bit \in 0 .. 7
       \/ r.state = "STOP_BIT" /\ r.counter \in 0 .. DELAY_FRAMES - 1 /\ r.bit = 0
    /\ IsFrame(r.data)

\* The clock of a frame in which its character is reported.
Reported == HALF_DELAY + 9 * DELAY_FRAMES + 3

\* The receiver p clocks after a sender has begun the frame of c.
RxAt(r, c, p) ==
    \/ r.state = "IDLE" /\ p <= 2 /\ ~r.valid
    \/ r.state = "START_BIT" /\ p = 3 + r.counter /\ ~r.valid
    \/ /\ r.state = "RECEIVE" /\ ~r.valid
       /\ p = HALF_DELAY + 3 + DELAY_FRAMES * r.bit + r.counter
       /\ \A k \in 0 .. 7 : k < r.bit => r.data[k] = c[k]
    \/ /\ r.state = "STOP_BIT" /\ ~r.valid /\ r.data = c
       /\ p = HALF_DELAY + 3 + 8 * DELAY_FRAMES + r.counter
    \/ r.state = "IDLE" /\ p = Reported /\ r.valid /\ r.data = c
    \/ r.state = "IDLE" /\ p > Reported /\ ~r.valid

\* The receiver and its synchroniser p clocks after a sender of t clocks per bit
\* has begun the frame of c.
Tracks(r, t, c, p) ==
    /\ LineWas(p - 1, r.meta, t, c)
    /\ LineWas(p - 2, r.sync, t, c)
    /\ RxAt(r, c, p)

\* The receiver waits for a start bit on a line that has come to rest.
Rests(r) == r.state = "IDLE" /\ ~r.valid /\ r.meta = 1 /\ r.sync = 1
-----------------------------------------------------------------------------
\* A data bit stands one slot behind its number.
LEMMA InnerBit == ASSUME NEW c, NEW j \in 0 .. 7 PROVE BitAt(c, j + 1) = c[j]
  <1>1. j + 1 # 0 /\ j + 1 # 9 /\ (j + 1) - 1 = j
    OBVIOUS
  <1> QED BY <1>1 DEF BitAt

\* q has taken one more bit than r.
OneBit(r, q) == \A k \in 0 .. 7 : q.data[k] = IF k = r.bit THEN r.sync ELSE r.data[k]

\* A frame of which one bit is changed.
LEMMA FrameChanges ==
  ASSUME NEW r, NEW q, IsFrame(r.data), r.bit \in 0 .. 7,
         q.data = [r.data EXCEPT ![r.bit] = r.sync]
  PROVE  IsFrame(q.data) /\ OneBit(r, q)
  BY DEF IsFrame, OneBit

\* The last clock of a bit takes it.
LEMMA TakesBit ==
  ASSUME NEW r, NEW q, RxTypes(r), ReceiveStep(r, q), r.counter = DELAY_FRAMES - 1
  PROVE  OneBit(r, q)
  <1>1. IsFrame(r.data) /\ r.bit \in 0 .. 7 /\ q.data = [r.data EXCEPT ![r.bit] = r.sync]
    BY DEF RxTypes, ReceiveStep
  <1> QED BY <1>1, FrameChanges

\* The receiver's counters stay where they belong, whatever is on the line.
LEMMA RxTypesKept ==
  ASSUME NEW r, NEW v, NEW q, RxTypes(r), RxStep(r, v, q)
  PROVE  RxTypes(q)
  <1>1. /\ DELAY_FRAMES \in Nat /\ DELAY_FRAMES > 0
        /\ HALF_DELAY \in Nat /\ HALF_DELAY > 0
    BY SerialParameters, ReceiverParameters DEF HALF_DELAY
  <1>2. CASE IdleStep(r, q)
    BY <1>1, <1>2 DEF RxTypes, IdleStep, IsFrame
  <1>3. CASE StartStep(r, q)
    BY <1>1, <1>3 DEF RxTypes, StartStep, Counts, IsFrame
  <1>4. CASE ReceiveStep(r, q)
    <2>1. /\ r.state = "RECEIVE" /\ r.counter \in 0 .. DELAY_FRAMES - 1
          /\ r.bit \in 0 .. 7 /\ IsFrame(r.data)
      BY <1>4 DEF ReceiveStep, RxTypes
    <2>2. q.counter \in 0 .. DELAY_FRAMES - 1
      BY <1>1, <1>4, <2>1 DEF ReceiveStep, Counts
    <2>3. CASE r.counter = DELAY_FRAMES - 1
      <3>1. /\ q.data = [r.data EXCEPT ![r.bit] = r.sync]
            /\ q.bit = (r.bit + 1) % 8 /\ q.counter = 0
            /\ q.state = IF r.bit = 7 THEN "STOP_BIT" ELSE "RECEIVE"
        BY <1>4, <2>3 DEF ReceiveStep, Counts
      <3>2. IsFrame(q.data)
        BY <2>1, <3>1, FrameChanges
      <3>3. q.bit = IF r.bit = 7 THEN 0 ELSE r.bit + 1
        BY <2>1, <3>1
      <3>4. q.state = IF r.bit = 7 THEN "STOP_BIT" ELSE "RECEIVE"
        BY <3>1
      <3> QED BY <2>1, <2>2, <3>2, <3>3, <3>4 DEF RxTypes
    <2>4. CASE r.counter # DELAY_FRAMES - 1
      <3>1. q.data = r.data /\ q.bit = r.bit /\ q.state = r.state
        BY <1>4, <2>4 DEF ReceiveStep
      <3> QED BY <2>1, <2>2, <3>1 DEF RxTypes, IsFrame
    <2> QED BY <2>3, <2>4
  <1>5. CASE StopStep(r, q)
    BY <1>1, <1>5 DEF RxTypes, StopStep, Counts, IsFrame
  <1> QED BY <1>2, <1>3, <1>4, <1>5 DEF RxStep

\* The sample of a bit is that bit.
LEMMA SampleIsBit ==
  ASSUME NEW t, Agree(t, HALF_DELAY, DELAY_FRAMES), NEW c, NEW j \in 0 .. 9, NEW v,
         LineWas(HALF_DELAY + DELAY_FRAMES * j, v, t, c)
  PROVE  v = BitAt(c, j)
  <1>2. /\ j * t <= HALF_DELAY + DELAY_FRAMES * j
        /\ HALF_DELAY + DELAY_FRAMES * j < (j + 1) * t
    BY SampleInBit
  <1> QED BY <1>2 DEF LineWas

\* The receiver goes through a frame clock by clock.
LEMMA ReceiverFollows ==
  ASSUME NEW t, Agree(t, HALF_DELAY, DELAY_FRAMES), NEW c, IsFrame(c),
         NEW r, RxTypes(r), NEW p \in Int, 0 - 1 <= p, p < 10 * t, RxAt(r, c, p),
         LineWas(p - 2, r.sync, t, c), NEW v, NEW q, RxStep(r, v, q)
  PROVE  RxAt(q, c, p + 1)
  <1> t \in Nat
    BY DEF Agree
  <1> PICK h \in Nat : h = HALF_DELAY
    BY DEF Agree
  <1> PICK d \in Nat : d = DELAY_FRAMES
    BY DEF Agree
  <1>1. h > 0 /\ d > 0 /\ t > 0 /\ 9 * t <= h + 9 * d /\ h + 9 * d + 4 <= 10 * t
    BY DEF Agree
  <1>2. Reported = h + 9 * d + 3
    BY DEF Reported
  <1>3. CASE r.state = "IDLE" /\ p <= 2
    <2>1. /\ q.state = IF r.sync = 0 THEN "START_BIT" ELSE "IDLE"
          /\ ~q.valid /\ q.counter = 0
      BY <1>3 DEF RxStep, IdleStep, StartStep, ReceiveStep, StopStep, RxTypes
    <2>2. CASE p < 2
      <3>1. r.sync = 1
        <4>1. p - 2 < 0
          BY <2>2
        <4> QED BY <4>1 DEF LineWas
      <3>2. q.state = "IDLE" /\ p + 1 <= 2
        BY <2>1, <2>2, <3>1
      <3> QED BY <2>1, <3>2 DEF RxAt
    <2>3. CASE p = 2
      <3>1. r.sync = 0
        <4>1. 0 * t <= p - 2 /\ p - 2 < (0 + 1) * t /\ 0 \in 0 .. 9
          BY <1>1, <2>3
        <4> QED BY <4>1 DEF LineWas, BitAt
      <3>2. q.state = "START_BIT" /\ p + 1 = 3 + q.counter
        BY <2>1, <2>3, <3>1
      <3> QED BY <2>1, <3>2 DEF RxAt
    <2> QED BY <1>3, <2>2, <2>3
  <1>4. CASE r.state = "START_BIT"
    <2>1. /\ p = 3 + r.counter /\ r.counter \in 0 .. h - 1 /\ r.bit = 0
          /\ ~q.valid
          /\ q.counter = IF r.counter = h - 1 THEN 0 ELSE r.counter + 1
          /\ q.state = IF r.counter # h - 1 THEN "START_BIT"
                         ELSE IF r.sync = 0 THEN "RECEIVE" ELSE "IDLE"
          /\ q.bit = 0
      BY <1>4 DEF RxStep, IdleStep, StartStep, ReceiveStep, StopStep, RxTypes, RxAt,
         Counts
    <2>2. CASE r.counter = h - 1
      <3>1. p - 2 = HALF_DELAY + DELAY_FRAMES * 0 /\ 0 \in 0 .. 9
        BY <2>1, <2>2
      <3>2. r.sync = 0
        BY <3>1, SampleIsBit DEF BitAt
      <3>3. /\ q.state = "RECEIVE"
            /\ p + 1 = HALF_DELAY + 3 + DELAY_FRAMES * q.bit + q.counter
            /\ \A k \in 0 .. 7 : ~(k < q.bit)
        BY <2>1, <2>2, <3>2
      <3> QED BY <2>1, <3>3 DEF RxAt
    <2>3. CASE r.counter # h - 1
      <3>1. q.state = "START_BIT" /\ p + 1 = 3 + q.counter
        BY <2>1, <2>3
      <3> QED BY <2>1, <3>1 DEF RxAt
    <2> QED BY <2>2, <2>3
  <1>5. CASE r.state = "RECEIVE"
    <2>1. /\ r.counter \in 0 .. d - 1 /\ r.bit \in 0 .. 7 /\ IsFrame(r.data)
          /\ p = h + 3 + d * r.bit + r.counter
          /\ \A k \in 0 .. 7 : k < r.bit => r.data[k] = c[k]
      BY <1>5 DEF RxTypes, RxAt
    <2>2. /\ ~q.valid
          /\ q.counter = IF r.counter = d - 1 THEN 0 ELSE r.counter + 1
          /\ IF r.counter = d - 1
             THEN /\ q.data = [r.data EXCEPT ![r.bit] = r.sync]
                  /\ q.bit = (r.bit + 1) % 8
                  /\ q.state = IF r.bit = 7 THEN "STOP_BIT" ELSE "RECEIVE"
             ELSE q.data = r.data /\ q.bit = r.bit /\ q.state = r.state
      BY <1>5 DEF RxStep, IdleStep, StartStep, ReceiveStep, StopStep, Counts
    <2>6. r.counter = d - 1 => OneBit(r, q)
      <3>1. ReceiveStep(r, q)
        BY <1>5 DEF RxStep, IdleStep, StartStep, StopStep
      <3> QED BY <3>1, TakesBit
    <2> PICK j \in 0 .. 7 : j = r.bit
      BY <2>1
    <2> PICK dj \in Nat : dj = d * j
      OBVIOUS
    <2>3. d * (j + 1) = dj + d
      OBVIOUS
    <2>4. CASE r.counter = d - 1
      <3>1. p - 2 = HALF_DELAY + DELAY_FRAMES * (j + 1) /\ j + 1 \in 0 .. 9
        <4>1. p - 2 = h + dj + d
          BY <2>1, <2>4
        <4> QED BY <2>3, <4>1
      <3>2. r.sync = BitAt(c, j + 1)
        <4>1. LineWas(HALF_DELAY + DELAY_FRAMES * (j + 1), r.sync, t, c)
          BY <3>1, Zenon
        <4> QED BY <3>1, <4>1, SampleIsBit
      <3>3. r.sync = c[j]
        BY <3>2, InnerBit
      <3>4. \A k \in 0 .. 7 : q.data[k] = IF k = j THEN r.sync ELSE r.data[k]
        <4>1. OneBit(r, q)
          BY <2>4, <2>6
        <4>2. r.bit = j
          OBVIOUS
        <4> QED BY <4>1, <4>2, Zenon DEF OneBit
      <3>5. \A k \in 0 .. 7 : k < j + 1 => q.data[k] = c[k]
        BY <2>1, <3>3, <3>4
      <3>6. CASE j = 7
        <4>1. q.state = "STOP_BIT" /\ q.counter = 0
          BY <2>2, <2>4, <3>6
        <4>2. p + 1 = HALF_DELAY + 3 + 8 * DELAY_FRAMES + q.counter
          BY <2>1, <2>4, <3>6, <4>1
        <4>3. q.data = c
          <5>1. IsFrame(q.data) /\ IsFrame(c)
            BY RxTypesKept DEF RxTypes
          <5>2. \A k \in 0 .. 7 : q.data[k] = c[k]
            BY <3>5, <3>6
          <5> QED BY <5>1, <5>2 DEF IsFrame
        <4> QED BY <2>2, <4>1, <4>2, <4>3 DEF RxAt
      <3>7. CASE j # 7
        <4>1. q.state = "RECEIVE" /\ q.counter = 0 /\ q.bit = j + 1
          BY <2>2, <2>4, <3>7
        <4>2. p + 1 = h + 3 + d * (j + 1) + 0
          <5>1. p = h + 3 + dj + d - 1
            BY <2>1, <2>4
          <5> QED BY <2>3, <5>1
        <4> QED BY <2>2, <3>5, <4>1, <4>2 DEF RxAt
      <3> QED BY <3>6, <3>7
    <2>5. CASE r.counter # d - 1
      <3>1. /\ q.state = "RECEIVE" /\ q.counter = r.counter + 1
            /\ q.bit = r.bit /\ q.data = r.data
        BY <1>5, <2>2, <2>5
      <3>2. p + 1 = h + 3 + d * q.bit + q.counter
        <4>1. p = h + 3 + dj + r.counter
          BY <2>1
        <4>2. p + 1 = h + 3 + dj + q.counter
          BY <2>1, <3>1, <4>1
        <4> QED BY <3>1, <4>2
      <3> QED BY <2>1, <2>2, <3>1, <3>2 DEF RxAt
    <2> QED BY <2>4, <2>5
  <1>6. CASE r.state = "STOP_BIT"
    <2>1. /\ r.counter \in 0 .. d - 1 /\ r.data = c
          /\ p = h + 3 + 8 * d + r.counter
          /\ q.counter = IF r.counter = d - 1 THEN 0 ELSE r.counter + 1
          /\ q.valid = (r.counter = d - 1 /\ r.sync = 1)
          /\ q.state = IF r.counter = d - 1 THEN "IDLE" ELSE "STOP_BIT"
          /\ q.data = r.data
      BY <1>6 DEF RxTypes, RxAt, RxStep, IdleStep, StartStep, ReceiveStep, StopStep,
         Counts
    <2>2. CASE r.counter = d - 1
      <3>1. p - 2 = HALF_DELAY + DELAY_FRAMES * 9 /\ 9 \in 0 .. 9
        BY <2>1, <2>2
      <3>2. r.sync = 1
        <4>1. LineWas(HALF_DELAY + DELAY_FRAMES * 9, r.sync, t, c)
          BY <3>1, Zenon
        <4>2. r.sync = BitAt(c, 9)
          BY <3>1, <4>1, SampleIsBit
        <4> QED BY <4>2 DEF BitAt
      <3>3. q.state = "IDLE" /\ q.valid
        BY <2>1, <2>2, <3>2, Zenon
      <3>4. p + 1 = Reported
        BY <1>2, <2>1, <2>2
      <3> QED BY <2>1, <3>3, <3>4 DEF RxAt, Reported
    <2>3. CASE r.counter # d - 1
      <3>1. q.state = "STOP_BIT" /\ ~q.valid
        BY <2>1, <2>3, Zenon
      <3>2. p + 1 = HALF_DELAY + 3 + 8 * DELAY_FRAMES + q.counter
        BY <2>1, <2>3
      <3> QED BY <2>1, <3>1, <3>2 DEF RxAt
    <2> QED BY <2>2, <2>3
  <1>7. CASE r.state = "IDLE" /\ p >= Reported
    <2>1. r.sync = 1
      <3>1. 9 * t <= p - 2 /\ p - 2 < (9 + 1) * t /\ 9 \in 0 .. 9
        BY <1>1, <1>2, <1>7
      <3> QED BY <3>1 DEF LineWas, BitAt
    <2>2. q.state = "IDLE" /\ ~q.valid
      BY <1>7, <2>1 DEF RxStep, IdleStep, StartStep, ReceiveStep, StopStep
    <2>3. p + 1 > Reported
      BY <1>2, <1>7
    <2> QED BY <2>2, <2>3 DEF RxAt, Reported
  <1>8. Reported \in Nat
    BY <1>2
  <1> QED BY <1>3, <1>4, <1>5, <1>6, <1>7, <1>8 DEF RxAt

\* A character is reported in one clock of its frame, and then the receiver waits.
LEMMA ReportedOnce ==
  ASSUME NEW t, Agree(t, HALF_DELAY, DELAY_FRAMES),
         NEW r, RxTypes(r), NEW c, NEW p \in Int, RxAt(r, c, p)
  PROVE  /\ r.valid => p = Reported /\ r.data = c
         /\ ~r.valid => p # Reported
         /\ p >= Reported => r.state = "IDLE"
  <1> PICK h \in Nat : h = HALF_DELAY
    BY DEF Agree
  <1> PICK d \in Nat : d = DELAY_FRAMES
    BY DEF Agree
  <1>1. Reported = h + 9 * d + 3 /\ d > 0
    BY DEF Reported, Agree
  <1>2. CASE r.state = "IDLE" /\ p <= 2 /\ ~r.valid
    <2>1. p < Reported
      BY <1>1, <1>2
    <2> QED BY <1>1, <1>2, <2>1
  <1>3. CASE r.state = "START_BIT" /\ p = 3 + r.counter /\ ~r.valid
    <2>1. r.counter \in 0 .. h - 1
      BY <1>3 DEF RxTypes
    <2>2. p < Reported
      BY <1>1, <1>3, <2>1
    <2> QED BY <1>1, <1>3, <2>2
  <1>4. CASE /\ r.state = "RECEIVE" /\ ~r.valid
             /\ p = HALF_DELAY + 3 + DELAY_FRAMES * r.bit + r.counter
    <2>1. r.counter \in 0 .. d - 1 /\ r.bit \in 0 .. 7
      BY <1>4 DEF RxTypes
    <2> PICK j \in 0 .. 7 : j = r.bit
      BY <2>1
    <2> PICK dj \in Nat : dj = d * j
      OBVIOUS
    <2>2. dj <= 7 * d
      <3>1. d * j + d * (7 - j) = 7 * d /\ d * (7 - j) \in Nat
        OBVIOUS
      <3> QED BY <3>1
    <2>3. p = h + 3 + dj + r.counter
      BY <1>4
    <2>4. p < Reported
      BY <1>1, <2>1, <2>2, <2>3
    <2>5. p # Reported /\ ~(p >= Reported)
      BY <1>1, <2>4
    <2> QED BY <1>4, <2>5, Zenon
  <1>5. CASE /\ r.state = "STOP_BIT" /\ ~r.valid
             /\ p = HALF_DELAY + 3 + 8 * DELAY_FRAMES + r.counter
    <2>1. r.counter \in 0 .. d - 1
      BY <1>5 DEF RxTypes
    <2>2. p < Reported
      BY <1>1, <1>5, <2>1
    <2> QED BY <1>1, <1>5, <2>2
  <1>6. CASE r.state = "IDLE" /\ p = Reported /\ r.valid /\ r.data = c
    BY <1>6
  <1>7. CASE r.state = "IDLE" /\ p > Reported /\ ~r.valid
    BY <1>1, <1>7
  <1> QED BY <1>2, <1>3, <1>4, <1>5, <1>6, <1>7 DEF RxAt

\* A receiver that waits on a line at rest goes on waiting.
LEMMA RestStays ==
  ASSUME NEW r, r.state = "IDLE", r.meta = 1, r.sync = 1, NEW q, RxStep(r, 1, q)
  PROVE  Rests(q)
  BY DEF Rests, RxStep, IdleStep, StartStep, ReceiveStep, StopStep
-----------------------------------------------------------------------------
SenderTypes ==
    /\ bit_time \in BitTimes
    /\ slot \in 0 .. 12
    /\ slot \in 0 .. 9 => clocks \in 0 .. bit_time - 1
    /\ IsFrame(sending)

Age == slot * bit_time + clocks

InFrame == slot \in 0 .. 9 /\ Tracks(Near, bit_time, sending, Age)

\* The end of a disturbance may be one clock behind the sender.
Calms == /\ rx_state = "IDLE" \/ (rx_state = "START_BIT" /\ rx_counter = HALF_DELAY - 1)
         /\ rx_meta = 1 /\ rx_sync = 1

InPause == slot = PAUSE /\ Calms /\ ~rx_valid

\* The line m clocks after the beginning of a disturbance of w clocks.
NoisyAt(m, w) == IF m \in 0 .. w - 1 THEN 0 ELSE 1

NoiseAt(m, w) ==
    /\ slot = NOISE => clocks = w - 1 - m /\ m <= w - 1
    /\ slot = CALM => clocks = w + HALF_DELAY - m /\ m \in w .. w + HALF_DELAY
    /\ rx_meta = NoisyAt(m - 1, w)
    /\ rx_sync = NoisyAt(m - 2, w)
    /\ m <= 2 \/ m > HALF_DELAY + 2 => rx_state = "IDLE"
    /\ m \in 3 .. HALF_DELAY + 2 => rx_state = "START_BIT" /\ rx_counter = m - 3

InNoise ==
    /\ slot \in {NOISE, CALM}
    /\ ~rx_valid
    /\ \E m \in Nat, w \in 1 .. HALF_DELAY : NoiseAt(m, w)

\* The receiver is where the sender is.
InStep == InFrame \/ InPause \/ InNoise

\* The character that has been begun and not been taken from the receiver.
OnLine == IF slot \in 0 .. 9 /\ Age <= Reported THEN <<sending>> ELSE <<>>

LineInv ==
    /\ RxTypes(Near)
    /\ SenderTypes
    /\ torn => due = <<>>
    /\ ~torn => InStep /\ due = OnLine
-----------------------------------------------------------------------------
\* The constants and the bit time of the sender agree.
LEMMA BitTimeAgrees ==
  ASSUME SenderTypes
  PROVE  Agree(bit_time, HALF_DELAY, DELAY_FRAMES)
  <1>1. bit_time \in Nat
    BY SenderParameters DEF SenderTypes
  <1>2. DELAY_FRAMES \in Nat /\ HALF_DELAY \in Nat /\ 2 * HALF_DELAY <= DELAY_FRAMES
    BY SerialParameters DEF HALF_DELAY
  <1>3. HALF_DELAY > 0
    BY ReceiverParameters
  <1>4. /\ 9 * bit_time <= HALF_DELAY + 9 * DELAY_FRAMES
        /\ HALF_DELAY + 9 * DELAY_FRAMES + 4 <= 10 * bit_time
    BY WithinTolerance DEF SenderTypes
  <1> QED BY <1>1, <1>2, <1>3, <1>4 DEF Agree

\* What of OnLine the receiver's user has not taken after this clock.
StillOnLine == IF rx_valid THEN <<>> ELSE OnLine

\* A sender that is x clocks into bit i has bit i of the frame on the line.
LEMMA SentBit ==
  ASSUME NEW t \in Nat, NEW c, NEW i \in 0 .. 9, NEW x \in 0 .. t - 1
  PROVE  /\ i * t + x \in Nat /\ i * t + x < 10 * t
         /\ LineWas(i * t + x, BitAt(c, i), t, c)
  <1> PICK it \in Nat : it = i * t
    OBVIOUS
  <1>1. (i + 1) * t = it + t
    OBVIOUS
  <1>2. it + x < 10 * t
    <2>1. (9 - i) * t \in Nat /\ (i + 1) * t + (9 - i) * t = 10 * t
      OBVIOUS
    <2> QED BY <1>1, <2>1
  <1>3. ASSUME NEW s \in 0 .. 9, s * t <= it + x, it + x < (s + 1) * t
        PROVE  s = i
    <2>1. s * t < (i + 1) * t
      <3>1. s * t \in Nat
        OBVIOUS
      <3> QED BY <1>1, <1>3, <3>1
    <2>2. i * t < (s + 1) * t
      <3>1. (s + 1) * t \in Nat
        OBVIOUS
      <3> QED BY <1>3, <3>1
    <2>3. s <= i /\ i <= s
      BY <2>1, <2>2, OneSlot
    <2> QED BY <2>3
  <1>4. LineWas(it + x, BitAt(c, i), t, c)
    BY <1>3 DEF LineWas
  <1> QED BY <1>2, <1>4

\* In a frame the line has the bit in which the sender is.
LEMMA LineInFrame ==
  ASSUME SenderTypes, slot \in 0 .. 9
  PROVE  Age \in Nat /\ Age < 10 * bit_time /\ LineWas(Age, line, bit_time, sending)
  <1>1. bit_time \in Nat /\ clocks \in 0 .. bit_time - 1
    BY BitTimeAgrees DEF Agree, SenderTypes
  <1>2. line = BitAt(sending, slot)
    <2>1. CASE slot = 0
      BY <2>1 DEF line, BitAt, PAUSE, CALM, NOISE
    <2>2. CASE slot = 9
      BY <2>2 DEF line, BitAt, PAUSE, CALM, NOISE
    <2>3. CASE slot \in 1 .. 8
      <3>1. line = sending[slot - 1]
        BY <2>3 DEF line, PAUSE, CALM, NOISE
      <3> QED BY <2>3, <3>1 DEF BitAt
    <2> QED BY <2>1, <2>2, <2>3
  <1> QED BY <1>1, <1>2, SentBit DEF Age

\* A receiver goes on with a sender that goes on.
LEMMA TracksOn ==
  ASSUME NEW t, Agree(t, HALF_DELAY, DELAY_FRAMES), NEW c, IsFrame(c),
         NEW r, RxTypes(r), NEW p \in Int, 0 - 1 <= p, p < 10 * t,
         Tracks(r, t, c, p),
         NEW v, LineWas(p, v, t, c), NEW q, RxStep(r, v, q)
  PROVE  Tracks(q, t, c, p + 1)
  <1>1. LineWas(p - 1, r.meta, t, c) /\ LineWas(p - 2, r.sync, t, c) /\ RxAt(r, c, p)
    BY DEF Tracks
  <1>2. RxAt(q, c, p + 1)
    BY <1>1, ReceiverFollows
  <1>3. q.meta = v /\ q.sync = r.meta
    BY DEF RxStep
  <1>4. (p + 1) - 1 = p /\ (p + 1) - 2 = p - 1
    OBVIOUS
  <1> QED BY <1>1, <1>2, <1>3, <1>4, Zenon DEF Tracks

\* One more clock within a frame.
LEMMA FrameGoesOn ==
  ASSUME RxTypes(Near), SenderTypes, InFrame, RxClock(line),
         UNCHANGED <<bit_time, sending>>, slot' \in 0 .. 9, Age' = Age + 1
  PROVE  InFrame' /\ OnLine' = StillOnLine
  <1>1. slot \in 0 .. 9
    BY DEF InFrame
  <1> PICK p \in Nat : p = Age
    BY <1>1, LineInFrame
  <1>2. p < 10 * bit_time /\ LineWas(p, line, bit_time, sending)
    BY <1>1, LineInFrame
  <1>3. /\ Agree(bit_time, HALF_DELAY, DELAY_FRAMES) /\ IsFrame(sending)
        /\ RxStep(Near, line, Near')
    BY BitTimeAgrees, NearSteps DEF SenderTypes
  <1>4. Tracks(Near, bit_time, sending, p)
    BY DEF InFrame
  <1>5. p \in Int /\ 0 - 1 <= p
    OBVIOUS
  <1>6. Tracks(Near', bit_time, sending, p + 1)
    BY <1>2, <1>3, <1>4, <1>5, TracksOn
  <1>7. InFrame'
    BY <1>6 DEF InFrame
  <1> PICK r \in Nat : r = Reported
    BY BitTimeAgrees DEF Reported, Agree
  <1>8. OnLine' = IF p + 1 <= r THEN <<sending>> ELSE <<>>
    BY DEF OnLine, Reported, HALF_DELAY
  <1>9. OnLine = IF p <= r THEN <<sending>> ELSE <<>>
    BY <1>1 DEF OnLine
  <1>10. rx_valid <=> p = r
    <2>1. RxAt(Near, sending, p)
      BY <1>4 DEF Tracks
    <2>2. Near.valid => p = r
      BY <1>3, <1>5, <2>1, ReportedOnce
    <2>3. ~Near.valid => p # r
      BY <1>3, <1>5, <2>1, ReportedOnce
    <2>4. Near.valid = rx_valid
      BY DEF Near
    <2> QED BY <2>2, <2>3, <2>4, Zenon
  <1>11. OnLine' = StillOnLine
    BY <1>8, <1>9, <1>10 DEF StillOnLine
  <1> QED BY <1>7, <1>11
-----------------------------------------------------------------------------
\* At the end of a frame all is reported,
LEMMA AllReported ==
  ASSUME RxTypes(Near), SenderTypes, InFrame, slot = 9, SlotEnds
  PROVE  /\ Near.state = "IDLE" /\ Near.meta = 1 /\ Near.sync = 1
         /\ StillOnLine = <<>>
  <1> PICK t \in Nat : t = bit_time
    BY BitTimeAgrees DEF Agree
  <1> PICK p \in Nat : p = Age
    BY LineInFrame
  <1> PICK r \in Nat : r = Reported
    BY BitTimeAgrees DEF Reported, Agree
  <1>1. /\ 9 * t + 3 <= r /\ r <= 10 * t - 1 /\ t > 2
    BY BitTimeAgrees DEF Reported, Agree
  <1>2. p = 10 * t - 1
    BY DEF Age, SlotEnds
  <1>3. /\ LineWas(p - 1, Near.meta, t, sending) /\ LineWas(p - 2, Near.sync, t, sending)
        /\ RxAt(Near, sending, p)
    BY DEF InFrame, Tracks
  <1>4. Near.meta = 1 /\ Near.sync = 1
    <2>1. /\ 9 * t <= p - 1 /\ p - 1 < (9 + 1) * t
          /\ 9 * t <= p - 2 /\ p - 2 < (9 + 1) * t /\ 9 \in 0 .. 9
      BY <1>1, <1>2
    <2> QED BY <1>3, <2>1 DEF LineWas, BitAt
  <1>5. /\ Near.state = "IDLE"
        /\ ~Near.valid => p # r
    <2>1. Agree(t, HALF_DELAY, DELAY_FRAMES) /\ p \in Int /\ p >= Reported
      BY <1>1, <1>2, BitTimeAgrees
    <2> QED BY <1>3, <2>1, ReportedOnce
  <1>6. OnLine = IF p <= r THEN <<sending>> ELSE <<>>
    BY DEF OnLine
  <1>7. StillOnLine = <<>>
    <2>1. CASE Near.valid
      BY <2>1 DEF StillOnLine, Near
    <2>2. CASE ~Near.valid
      <3>1. ~(p <= r)
        BY <1>1, <1>2, <1>5, <2>2
      <3> QED BY <1>6, <3>1 DEF StillOnLine
    <2> QED BY <2>1, <2>2
  <1> QED BY <1>4, <1>5, <1>7

\* the receiver waits on a line at rest,
LEMMA FrameEnds ==
  ASSUME RxTypes(Near), SenderTypes, InFrame, slot = 9, SlotEnds, RxClock(line)
  PROVE  Rests(Near') /\ StillOnLine = <<>>
  <1>1. line = 1
    BY DEF line, PAUSE, CALM, NOISE
  <1>2. RxStep(Near, 1, Near')
    BY <1>1, NearSteps
  <1>3. /\ Near.state = "IDLE" /\ Near.meta = 1 /\ Near.sync = 1
        /\ StillOnLine = <<>>
    BY AllReported
  <1> QED BY <1>2, <1>3, RestStays

\* and in a pause nothing comes.
LEMMA PauseRests ==
  ASSUME slot = PAUSE, Calms, RxTypes(Near), RxClock(line)
  PROVE  Rests(Near') /\ StillOnLine = <<>>
  <1>1. line = 1
    BY DEF line, PAUSE, CALM, NOISE
  <1>2. rx_state \in {"IDLE", "START_BIT"} /\ rx_meta = 1 /\ rx_sync = 1
    BY DEF Calms
  <1>3. Rests(Near')
    BY <1>1, <1>2 DEF Calms, Rests, Near, RxClock, RxIdle, RxStartBit, RxReceive,
       RxStopBit, RxDone
  <1>4. OnLine = <<>>
    BY DEF OnLine, PAUSE
  <1> QED BY <1>3, <1>4 DEF StillOnLine
\* No bit of a frame comes before it.
LEMMA BeforeFrame ==
  ASSUME NEW t \in Nat, NEW s \in 0 .. 9
  PROVE  ~(s * t <= 0 - 1) /\ ~(s * t <= 0 - 2)
  <1> PICK st \in Nat : st = s * t
    BY Products
  <1> QED OBVIOUS

\* A frame begins on a line at rest.
LEMMA RestTracks ==
  ASSUME NEW t \in Nat, NEW c, NEW r, Rests(r)
  PROVE  Tracks(r, t, c, 0)
  <1>1. \A s \in 0 .. 9 : ~(s * t <= 0 - 1) /\ ~(s * t <= 0 - 2)
    BY BeforeFrame, Zenon
  <1>2. LineWas(0 - 1, r.meta, t, c) /\ LineWas(0 - 2, r.sync, t, c)
    BY <1>1 DEF LineWas, Rests
  <1>3. RxAt(r, c, 0)
    BY DEF RxAt, Rests
  <1> QED BY <1>2, <1>3 DEF Tracks

\* The line has its character from then on.
LEMMA FrameBegins ==
  ASSUME NEW c, SenderTypes', Rests(Near'), Starts(c)
  PROVE  InFrame' /\ OnLine' = <<c>> /\ Age' = 0
  <1>1. slot' = 0 /\ clocks' = 0 /\ sending' = c
    BY DEF Starts
  <1> PICK t \in Nat : t = bit_time'
    BY SenderParameters DEF SenderTypes
  <1>2. Age' = 0
    <2>1. Age' = 0 * t + 0
      BY <1>1 DEF Age
    <2> QED BY <2>1, Products
  <1>3. Tracks(Near', bit_time', sending', 0)
    BY RestTracks
  <1>4. InFrame'
    BY <1>1, <1>2, <1>3 DEF InFrame
  <1>5. 0 <= Reported'
    BY SerialParameters DEF Reported, HALF_DELAY
  <1> QED BY <1>1, <1>2, <1>4, <1>5 DEF OnLine

\* A disturbance is over before the receiver has waited for half a bit.
LEMMA NoiseGoesOn ==
  ASSUME RxTypes(Near), slot \in {NOISE, CALM}, InNoise, RxClock(line), Disturbed
  PROVE  InNoise' \/ InPause'
  <1> PICK h \in Nat : h = HALF_DELAY
    BY SerialParameters DEF HALF_DELAY
  <1>1. PICK m \in Nat, w \in 1 .. h : NoiseAt(m, w)
    BY DEF InNoise
  <1>2. h > 0
    BY ReceiverParameters
  <1>3. /\ NOISE = 11 /\ CALM = 12 /\ PAUSE = 10
    BY DEF NOISE, CALM, PAUSE
  <1>5. /\ rx_meta = NoisyAt(m - 1, w) /\ rx_sync = NoisyAt(m - 2, w)
        /\ m <= 2 \/ m > h + 2 => rx_state = "IDLE"
        /\ m \in 3 .. h + 2 => rx_state = "START_BIT" /\ rx_counter = m - 3
        /\ slot = NOISE => clocks = w - 1 - m /\ m <= w - 1
        /\ slot = CALM => clocks = w + h - m /\ m \in w .. w + h
    BY <1>1 DEF NoiseAt
  <1>6. rx_meta' = NoisyAt(m, w) /\ rx_sync' = NoisyAt(m - 1, w)
    <2>1. line = NoisyAt(m, w)
      <3>1. CASE slot = NOISE
        <4>1. line = 0
          BY <1>3, <3>1 DEF line
        <4>2. m \in 0 .. w - 1
          BY <1>5, <3>1
        <4> QED BY <4>1, <4>2 DEF NoisyAt
      <3>2. CASE slot = CALM
        <4>1. line = 1
          BY <1>3, <3>2 DEF line
        <4>2. m \notin 0 .. w - 1
          BY <1>5, <3>2
        <4> QED BY <4>1, <4>2 DEF NoisyAt
      <3> QED BY <3>1, <3>2
    <2> QED BY <1>5, <2>1 DEF RxClock
  <1>7. /\ m + 1 <= 2 \/ m + 1 > h + 2 => rx_state' = "IDLE"
        /\ m + 1 \in 3 .. h + 2 => rx_state' = "START_BIT" /\ rx_counter' = (m + 1) - 3
        /\ ~rx_valid'
    <2>1. CASE m <= 2 \/ m > h + 2
      <3>1. rx_state = "IDLE" /\ rx_counter = 0
        BY <1>5, <2>1 DEF RxTypes, Near
      <3>2. /\ rx_state' = IF rx_sync = 0 THEN "START_BIT" ELSE "IDLE"
            /\ ~rx_valid' /\ rx_counter' = 0
        BY <3>1 DEF RxClock, RxIdle, RxStartBit, RxReceive, RxStopBit
      <3>3. rx_sync = 0 <=> m = 2
        BY <1>2, <1>5, <2>1 DEF NoisyAt
      <3>4. CASE m = 2
        BY <1>2, <3>2, <3>3, <3>4
      <3>5. CASE m # 2
        <4>1. m + 1 <= 2 \/ m + 1 > h + 2
          BY <2>1, <3>5
        <4>2. m + 1 \notin 3 .. h + 2
          BY <4>1
        <4> QED BY <3>2, <3>3, <3>5, <4>2
      <3> QED BY <3>4, <3>5
    <2>2. CASE m \in 3 .. h + 2
      <3>1. rx_state = "START_BIT" /\ rx_counter = m - 3
        BY <1>5, <2>2
      <3>2. /\ rx_counter' = IF rx_counter = h - 1 THEN 0 ELSE rx_counter + 1
            /\ rx_state' = IF rx_counter # h - 1 THEN "START_BIT"
                           ELSE IF rx_sync = 0 THEN "RECEIVE" ELSE "IDLE"
            /\ ~rx_valid'
        BY <3>1 DEF RxClock, RxIdle, RxStartBit, RxReceive, RxStopBit, RxCounts, RxDone
      <3>3. CASE m = h + 2
        <4>1. rx_sync # 0
          BY <1>5, <3>3 DEF NoisyAt
        <4>2. rx_state' = "IDLE"
          BY <3>1, <3>2, <3>3, <4>1
        <4>3. m + 1 \notin 3 .. h + 2
          BY <3>3
        <4> QED BY <3>2, <4>2, <4>3
      <3>4. CASE m # h + 2
        <4>1. rx_state' = "START_BIT" /\ rx_counter' = m - 3 + 1
          BY <2>2, <3>1, <3>2, <3>4
        <4>2. m - 3 + 1 = (m + 1) - 3 /\ ~(m + 1 <= 2) /\ ~(m + 1 > h + 2)
          BY <2>2, <3>4
        <4> QED BY <3>2, <4>1, <4>2
      <3> QED BY <3>3, <3>4
    <2>3. m <= 2 \/ m > h + 2 \/ m \in 3 .. h + 2
      OBVIOUS
    <2> QED BY <2>1, <2>2, <2>3
  <1>8. (m + 1) - 1 = m /\ (m + 1) - 2 = m - 1 /\ m + 1 \in Nat
    OBVIOUS
  <1>9. ASSUME /\ slot' \in {NOISE, CALM}
               /\ slot' = NOISE => clocks' = w - 1 - (m + 1) /\ m + 1 <= w - 1
               /\ slot' = CALM => clocks' = w + h - (m + 1) /\ m + 1 \in w .. w + h
        PROVE  InNoise'
    <2>1. NoiseAt(m + 1, w)'
      BY <1>6, <1>7, <1>8, <1>9 DEF NoiseAt, NoisyAt, HALF_DELAY, NOISE, CALM
    <2>2. \E n \in Nat, x \in 1 .. HALF_DELAY' : NoiseAt(n, x)'
      <3>1. HALF_DELAY' = h
        BY DEF HALF_DELAY
      <3> QED BY <1>8, <2>1, <3>1
    <2> QED BY <1>7, <1>9, <2>2 DEF InNoise, NOISE, CALM
  <1>10. CASE clocks > 0 /\ clocks' = clocks - 1 /\ slot' = slot
    <2>1. /\ slot' = NOISE => clocks' = w - 1 - (m + 1) /\ m + 1 <= w - 1
          /\ slot' = CALM => clocks' = w + h - (m + 1) /\ m + 1 \in w .. w + h
      BY <1>5, <1>10
    <2> QED BY <1>9, <1>10, <2>1
  <1>11. CASE clocks = 0 /\ slot = NOISE
    <2>1. slot' = CALM /\ clocks' = h
      BY <1>3, <1>11 DEF Disturbed
    <2>2. m = w - 1
      BY <1>5, <1>11
    <2>3. clocks' = w + h - (m + 1) /\ m + 1 \in w .. w + h
      BY <2>1, <2>2
    <2> QED BY <1>3, <1>9, <2>1, <2>3
  <1>12. CASE clocks = 0 /\ slot = CALM
    <2>1. slot' = PAUSE
      BY <1>3, <1>12 DEF Disturbed
    <2>2. m = w + h
      BY <1>5, <1>12
    <2>3. rx_meta' = 1 /\ rx_sync' = 1
      BY <1>2, <1>6, <2>2 DEF NoisyAt
    <2>4. rx_state' = "IDLE" \/ (rx_state' = "START_BIT" /\ rx_counter' = h - 1)
      <3>1. CASE w = 1
        <4>1. m + 1 = h + 2 /\ m + 1 \in 3 .. h + 2
          BY <1>2, <2>2, <3>1
        <4>2. rx_state' = "START_BIT" /\ rx_counter' = (m + 1) - 3
          BY <1>7, <4>1
        <4> QED BY <4>1, <4>2
      <3>2. CASE w # 1
        <4>1. m + 1 > h + 2
          BY <2>2, <3>2
        <4> QED BY <1>7, <4>1
      <3> QED BY <3>1, <3>2
    <2> QED BY <1>7, <2>1, <2>3, <2>4 DEF InPause, Calms, PAUSE, HALF_DELAY
  <1> QED BY <1>10, <1>11, <1>12 DEF Disturbed

\* The sender stays in its frame.
LEMMA SenderTypesKept ==
  ASSUME SenderTypes, SendsNothing \/ \E c \in Characters : Sends(c)
  PROVE  SenderTypes'
  <1> PICK t \in Nat : t = bit_time /\ t > 0
    BY SenderParameters DEF SenderTypes
  <1>1. bit_time' = bit_time
    BY DEF SendsNothing, Sends
  <1>2. PAUSE = 10 /\ NOISE = 11 /\ CALM = 12
    BY DEF PAUSE, NOISE, CALM
  <1>3. CASE NextSlot
    <2>1. slot' \in 1 .. 10 /\ clocks' = 0 /\ sending' = sending
      BY <1>3 DEF NextSlot
    <2>2. slot' \in 0 .. 12 /\ clocks' \in 0 .. t - 1
      BY <2>1
    <2> QED BY <1>1, <2>1, <2>2 DEF SenderTypes, IsFrame
  <1>4. CASE SameSlot
    <2>1. slot' = slot /\ sending' = sending
      BY <1>4 DEF SameSlot
    <2>2. slot \in 0 .. 9 => clocks' \in 0 .. t - 1
      <3>1. slot \in 0 .. 9 => /\ clocks \in 0 .. t - 1 /\ clocks # t - 1
                               /\ clocks' = clocks + 1
        BY <1>2, <1>4 DEF SenderTypes, SameSlot, SlotEnds
      <3> QED BY <3>1
    <2> QED BY <1>1, <2>1, <2>2 DEF SenderTypes, IsFrame
  <1>5. CASE Disturb
    <2>1. slot' = 11 /\ sending' = sending
      BY <1>2, <1>5 DEF Disturb
    <2> QED BY <1>1, <2>1 DEF SenderTypes, IsFrame
  <1>6. CASE Disturbed
    <2>1. slot' \in {10, 11, 12} /\ sending' = sending
      BY <1>2, <1>6 DEF Disturbed
    <2> QED BY <1>1, <2>1 DEF SenderTypes, IsFrame
  <1>7. CASE \E c \in Characters : Sends(c)
    <2>1. PICK c \in Characters : Sends(c)
      BY <1>7
    <2>2. IsFrame(c)
      BY DEF Characters, BitsOf, IsFrame
    <2>3. slot' = 0 /\ clocks' = 0 /\ sending' = c
      BY <2>1 DEF Sends, Starts
    <2>4. slot' \in 0 .. 12 /\ clocks' \in 0 .. t - 1
      BY <2>3
    <2> QED BY <1>1, <2>2, <2>3, <2>4 DEF SenderTypes, IsFrame
  <1> QED BY <1>3, <1>4, <1>5, <1>6, <1>7 DEF SendsNothing

\* A disturbance of w clocks starts with its count at x.
NoiseStarts(x, w) == /\ x = w - 1 - 0 /\ 0 <= w - 1
                     /\ NoisyAt(0 - 1, w) = 1 /\ NoisyAt(0 - 2, w) = 1

\* It lasts one clock longer than its count.
LEMMA NoiseLength ==
  ASSUME NEW h \in Nat, NEW x \in 0 .. h - 1
  PROVE  \E w \in 1 .. h : NoiseStarts(x, w)
  <1>1. x + 1 \in 1 .. h /\ x = (x + 1) - 1 - 0 /\ 0 <= (x + 1) - 1
    OBVIOUS
  <1>2. 0 - 1 \notin 0 .. (x + 1) - 1 /\ 0 - 2 \notin 0 .. (x + 1) - 1
    OBVIOUS
  <1>3. NoiseStarts(x, x + 1)
    BY <1>1, <1>2 DEF NoiseStarts, NoisyAt
  <1> QED BY <1>1, <1>3

\* InStep but for what is reported, as at the first pause after a reset.
Ready == InFrame \/ (slot = PAUSE /\ Calms) \/ InNoise

\* A clock in which no frame begins.
LEMMA NothingSent ==
  ASSUME RxTypes(Near), SenderTypes, RxClock(line), SendsNothing, Ready
  PROVE  /\ InStep' /\ OnLine' = StillOnLine
         /\ slot' \in 0 .. 9 => Age' = Age + 1
  <1>1. PAUSE = 10 /\ NOISE = 11 /\ CALM = 12
    BY DEF PAUSE, NOISE, CALM
  <1>2. CASE InFrame
    <2>1. slot \in 0 .. 9 /\ bit_time' = bit_time /\ sending' = sending
      BY <1>1, <1>2 DEF InFrame, SendsNothing, NextSlot, SameSlot, Disturb, Disturbed
    <2>2. (NextSlot /\ slot # 9) \/ (NextSlot /\ slot = 9) \/ SameSlot
      BY <1>1, <2>1 DEF SendsNothing, Disturb, Disturbed
    <2>3. CASE SameSlot
      <3>1. slot' = slot /\ clocks' = clocks + 1
        BY <1>1, <2>1, <2>3 DEF SameSlot
      <3>2. Age' = Age + 1
        <4> PICK st \in Nat : st = slot * bit_time
          BY <2>1, BitTimeAgrees, Products DEF Agree
        <4>1. Age = st + clocks /\ Age' = st + (clocks + 1) /\ clocks \in Int
          BY <2>1, <3>1 DEF Age, SenderTypes
        <4> QED BY <4>1
      <3> QED BY <1>2, <2>1, <3>1, <3>2, FrameGoesOn DEF InStep
    <2>4. CASE NextSlot /\ slot # 9
      <3>1. slot' = slot + 1 /\ clocks' = 0 /\ clocks = bit_time - 1 /\ slot' \in 0 .. 9
        BY <2>1, <2>4 DEF NextSlot, SlotEnds
      <3>2. Age' = Age + 1
        <4> PICK t \in Nat : t = bit_time
          BY BitTimeAgrees DEF Agree
        <4> PICK i \in Nat : i = slot
          BY <2>1
        <4>1. Age' = (i + 1) * t + 0 /\ Age = i * t + (t - 1)
          BY <2>1, <3>1 DEF Age
        <4>2. (i + 1) * t + 0 = (i * t + (t - 1)) + 1
          OBVIOUS
        <4> QED BY <4>1, <4>2
      <3> QED BY <1>2, <2>1, <3>1, <3>2, FrameGoesOn DEF InStep
    <2>5. CASE NextSlot /\ slot = 9
      <3>1. slot' = 10 /\ SlotEnds
        BY <2>5 DEF NextSlot
      <3>2. Rests(Near') /\ StillOnLine = <<>>
        BY <1>2, <2>5, <3>1, FrameEnds
      <3> QED BY <3>1, <3>2 DEF InStep, InPause, Calms, Rests, Near, OnLine, PAUSE
    <2> QED BY <2>2, <2>3, <2>4, <2>5
  <1>3. CASE slot = PAUSE /\ Calms
    <2>1. Rests(Near') /\ StillOnLine = <<>>
      BY <1>3, PauseRests
    <2>2. SameSlot \/ Disturb
      BY <1>1, <1>3 DEF SendsNothing, NextSlot, Disturbed
    <2>3. CASE SameSlot
      BY <1>3, <2>1, <2>3 DEF SameSlot, InStep, InPause, Calms, Rests, Near, OnLine,
         PAUSE
    <2>4. CASE Disturb
      <3> PICK h \in Nat : h = HALF_DELAY /\ h > 0
        BY SerialParameters, ReceiverParameters DEF HALF_DELAY
      <3>1. slot' = NOISE /\ clocks' \in {0, h - 1}
        BY <2>4 DEF Disturb
      <3>2. clocks' \in 0 .. h - 1
        BY <3>1
      <3> PICK w \in 1 .. h : NoiseStarts(clocks', w)
        BY <3>2, NoiseLength
      <3>4. ~(0 \in 3 .. h + 2) /\ 0 <= 2
        OBVIOUS
      <3>5. NoiseAt(0, w)'
        <4>1. NoisyAt(0 - 1, w) = 1 /\ NoisyAt(0 - 2, w) = 1
          BY DEF NoiseStarts
        <4>2. slot' = 11 /\ clocks' = w - 1 - 0 /\ 0 <= w - 1
          BY <1>1, <3>1 DEF NoiseStarts
        <4>3. HALF_DELAY' = h
          BY DEF HALF_DELAY
        <4>4. NoisyAt(0 - 1, w)' = 1 /\ NoisyAt(0 - 2, w)' = 1
          BY <4>1 DEF NoisyAt
        <4>5. /\ slot' = NOISE' => clocks' = w - 1 - 0 /\ 0 <= w - 1
              /\ slot' # CALM'
          BY <4>2 DEF NOISE, CALM
        <4>6. ~(0 \in 3 .. HALF_DELAY' + 2)
          BY <3>4, <4>3
        <4>7. rx_state' = "IDLE" /\ rx_meta' = 1 /\ rx_sync' = 1
          BY <2>1 DEF Rests, Near
        <4> QED BY <4>4, <4>5, <4>6, <4>7, Zenon DEF NoiseAt
      <3>6. \E m \in Nat, y \in 1 .. HALF_DELAY' : NoiseAt(m, y)'
        <4>1. HALF_DELAY' = h /\ 0 \in Nat
          BY DEF HALF_DELAY
        <4> QED BY <3>5, <4>1
      <3> QED BY <2>1, <3>1, <3>6 DEF InStep, InNoise, Rests, Near, OnLine, NOISE, CALM
    <2> QED BY <2>2, <2>3, <2>4
  <1>4. CASE InNoise
    <2>1. Disturbed /\ slot \in {NOISE, CALM}
      BY <1>1, <1>4 DEF InNoise, SendsNothing, NextSlot, SameSlot, Disturb
    <2>2. InNoise' \/ InPause'
      BY <1>4, <2>1, NoiseGoesOn
    <2>3. slot' \notin 0 .. 9 /\ ~rx_valid
      BY <1>1, <1>4, <2>1 DEF Disturbed, InNoise
    <2>4. OnLine' = StillOnLine
      BY <1>1, <2>1, <2>3 DEF OnLine, StillOnLine
    <2> QED BY <2>2, <2>3, <2>4 DEF InStep
  <1> QED BY <1>2, <1>3, <1>4 DEF Ready

\* A clock in which a frame begins.
LEMMA OneSent ==
  ASSUME RxTypes(Near), SenderTypes, SenderTypes', RxClock(line), NEW c, Sends(c), Ready
  PROVE  InStep' /\ StillOnLine = <<>> /\ OnLine' = <<c>> /\ Age' = 0
  <1>1. slot = PAUSE \/ (slot = 9 /\ SlotEnds)
    BY DEF Sends, MayStart
  <1>2. PAUSE = 10 /\ NOISE = 11 /\ CALM = 12
    BY DEF PAUSE, NOISE, CALM
  <1>3. Rests(Near') /\ StillOnLine = <<>>
    <2>1. CASE slot = 9
      <3>1. InFrame /\ SlotEnds
        BY <1>1, <1>2, <2>1 DEF Ready, InNoise
      <3> QED BY <2>1, <3>1, FrameEnds
    <2>2. CASE slot = PAUSE
      <3>1. Calms
        BY <1>2, <2>2 DEF Ready, InFrame, InNoise
      <3> QED BY <2>2, <3>1, PauseRests
    <2> QED BY <1>1, <2>1, <2>2
  <1> QED BY <1>3, FrameBegins DEF Sends, InStep

\* What the receiver reports is what is on the line.
LEMMA ReportsOnLine ==
  ASSUME RxTypes(Near), SenderTypes, InStep, rx_valid
  PROVE  OnLine = <<rx_data>> /\ Age = Reported
  <1>1. InFrame
    BY DEF InStep, InPause, InNoise
  <1>2. SenderTypes /\ Age \in Nat /\ slot \in 0 .. 9
    BY <1>1, LineInFrame DEF InFrame
  <1>3. RxAt(Near, sending, Age)
    BY <1>1 DEF InFrame, Tracks
  <1> PICK p \in Int : p = Age
    BY <1>2
  <1>4. p = Reported /\ Near.data = sending
    <2>1. Near.valid
      BY DEF Near
    <2>2. Near.valid => p = Reported /\ Near.data = sending
      BY <1>3, BitTimeAgrees, ReportedOnce
    <2> QED BY <2>1, <2>2, Zenon
  <1>5. Reported \in Nat
    BY BitTimeAgrees DEF Reported, Agree
  <1> QED BY <1>2, <1>4, <1>5 DEF OnLine, Near

\* Every clock keeps the invariant; the first pause that the receiver sees after
\* a reset is as good as any.
LEMMA LineClockKeeps ==
  ASSUME LineInv, LineClock
  PROVE  LineInv'
  <1>1. RxTypes(Near) /\ SenderTypes /\ RxClock(line)
    BY DEF LineInv, LineClock
  <1>2. RxTypes(Near') /\ SenderTypes'
    BY <1>1, RxTypesKept, NearSteps, SenderTypesKept DEF LineClock
  <1>3. torn' = (torn /\ ~SeesPause)
    BY DEF LineClock
  <1>4. CASE torn'
    <2>1. torn /\ due = <<>>
      BY <1>3, <1>4, Zenon DEF LineInv
    <2>2. Left = <<>>
      BY <2>1 DEF Left
    <2>3. due' = <<>>
      BY <1>4, <2>2 DEF LineClock
    <2> QED BY <1>2, <1>4, <2>3 DEF LineInv
  <1>5. CASE ~torn'
    <2>1. Ready /\ Left = StillOnLine
      <3>1. CASE ~torn
        <4>1. InStep /\ due = OnLine
          BY <3>1 DEF LineInv
        <4>2. rx_valid => OnLine = <<rx_data>>
          BY <1>1, <4>1, ReportsOnLine
        <4>3. Tail(<<rx_data>>) = <<>> /\ <<rx_data>> # <<>>
          OBVIOUS
        <4> QED BY <4>1, <4>2, <4>3 DEF Left, StillOnLine, Ready, InStep, InPause
      <3>2. CASE torn /\ SeesPause
        <4>1. due = <<>> /\ OnLine = <<>>
          BY <3>2 DEF LineInv, SeesPause, OnLine, PAUSE
        <4> QED BY <3>2, <4>1 DEF SeesPause, Ready, Calms, Left, StillOnLine
      <3> QED BY <1>3, <1>5, <3>1, <3>2, Zenon
    <2>2. CASE SendsNothing /\ due' = Left
      BY <1>1, <1>2, <1>5, <2>1, <2>2, NothingSent DEF LineInv
    <2>3. CASE \E c \in Characters :
                  Sends(c) /\ due' = IF torn' THEN <<>> ELSE AndDue(Left, c)
      <3>1. PICK c \in Characters : Sends(c) /\ due' = AndDue(Left, c)
        BY <1>5, <2>3
      <3>2. InStep' /\ StillOnLine = <<>> /\ OnLine' = <<c>>
        BY <1>1, <1>2, <2>1, <3>1, OneSent
      <3>3. AndDue(<<>>, c) = <<c>>
        BY DEF AndDue
      <3> QED BY <1>2, <1>5, <2>1, <3>1, <3>2, <3>3 DEF LineInv
    <2> QED BY <2>2, <2>3 DEF LineClock
  <1> QED BY <1>4, <1>5

\* LineInv holds from the beginning.
LEMMA LineInvariant == LineSpec => []LineInv
  <1>1. LineInit => LineInv
    <2> SUFFICES ASSUME LineInit PROVE LineInv
      OBVIOUS
    <2>1. RxTypes(Near) /\ SenderTypes
      BY SenderParameters DEF LineInit, RxInit, SenderInit, RxTypes, SenderTypes, Near,
         IsFrame, NoBits, PAUSE
    <2>2. InPause /\ OnLine = <<>> /\ due = <<>> /\ ~torn
      BY DEF LineInit, RxInit, SenderInit, InPause, Calms, OnLine, PAUSE
    <2> QED BY <2>1, <2>2 DEF LineInv, InStep
  <1>2. LineInv /\ PressReset => LineInv'
    <2> SUFFICES ASSUME LineInv, PressReset PROVE LineInv'
      OBVIOUS
    <2>1. RxTypes(Near')
      BY DEF PressReset, RxReset, RxTypes, Near, IsFrame, NoBits
    <2>2. SenderTypes'
      BY DEF PressReset, senderVars, LineInv, SenderTypes, IsFrame
    <2> QED BY <2>1, <2>2 DEF LineInv, PressReset
  <1>3. LineInv /\ UNCHANGED lineVars => LineInv'
    <2> SUFFICES ASSUME LineInv, UNCHANGED lineVars PROVE LineInv'
      OBVIOUS
    <2> QED BY DEF lineVars, rxVars, senderVars, LineInv, RxTypes, SenderTypes, IsFrame,
       InStep, InFrame, InPause, InNoise, OnLine, Near, Age, Reported, Calms, NoiseAt,
       NoisyAt, HALF_DELAY
  <1> QED BY <1>1, <1>2, <1>3, LineClockKeeps, PTL DEF LineSpec

\* What the receiver reports is what was sent and not yet reported, whatever the
\* speed within the tolerance, the pauses, the disturbances and the resets.
THEOREM ReceivesWhatWasSent == LineSpec => []ReceivedAsSent
  <1>1. LineInv => ReceivedAsSent
    <2> SUFFICES ASSUME LineInv, ~torn PROVE /\ rx_valid => due = <<rx_data>>
                                             /\ Len(due) <= 1
      BY DEF ReceivedAsSent
    <2>1. RxTypes(Near) /\ SenderTypes /\ InStep /\ due = OnLine
      BY DEF LineInv
    <2>2. rx_valid => due = <<rx_data>>
      BY <2>1, ReportsOnLine
    <2>3. Len(due) <= 1
      <3>1. due = <<sending>> \/ due = <<>>
        BY <2>1 DEF OnLine
      <3>2. Len(<<sending>>) = 1 /\ Len(<<>>) = 0
        OBVIOUS
      <3> QED BY <3>1, <3>2
    <2> QED BY <2>2, <2>3
  <1> QED BY <1>1, LineInvariant, PTL

\* Nothing is still due when the sender may begin its next frame: every character
\* has been reported by then, also of a sender that makes no pause.
MissesNothing == ~torn /\ MayStart => Left = <<>>

\* The safety half of AllReceived.
THEOREM ReportsInTime == LineSpec => []MissesNothing
  <1>1. LineInv => MissesNothing
    <2> SUFFICES ASSUME LineInv, ~torn, MayStart PROVE Left = <<>>
      BY DEF MissesNothing
    <2>1. RxTypes(Near) /\ SenderTypes /\ InStep /\ due = OnLine
      BY DEF LineInv
    <2>2. Tail(<<rx_data>>) = <<>> /\ <<rx_data>> # <<>>
      OBVIOUS
    <2>3. rx_valid => due = <<rx_data>>
      BY <2>1, ReportsOnLine
    <2>4. CASE rx_valid
      BY <2>2, <2>3, <2>4 DEF Left
    <2>5. CASE ~rx_valid
      <3>1. slot = PAUSE \/ (slot = 9 /\ SlotEnds)
        BY DEF MayStart
      <3>2. CASE slot = PAUSE
        BY <2>1, <2>5, <3>2 DEF OnLine, Left, PAUSE
      <3>3. CASE slot = 9 /\ SlotEnds
        <4>1. InFrame
          BY <2>1, <3>3 DEF InStep, InPause, InNoise, PAUSE, NOISE, CALM
        <4>2. StillOnLine = <<>>
          BY <2>1, <3>3, <4>1, AllReported
        <4> QED BY <2>1, <2>5, <4>2 DEF StillOnLine, Left
      <3> QED BY <3>1, <3>2, <3>3
    <2> QED BY <2>4, <2>5
  <1> QED BY <1>1, LineInvariant, PTL
-----------------------------------------------------------------------------
\* The sequence that holds x or nothing.
Maybe(b, x) == IF b THEN <<x>> ELSE <<>>

\* It is one, and as long as that says.
LEMMA MaybeOne ==
  ASSUME NEW T, NEW x \in T, NEW b
  PROVE  /\ Maybe(b, x) \in Seq(T)
         /\ b => Maybe(b, x) = <<x>> /\ Len(Maybe(b, x)) = 1
         /\ ~b => Maybe(b, x) = <<>> /\ Len(Maybe(b, x)) = 0
  <1>1. <<x>> \in Seq(T) /\ Len(<<x>>) = 1
    OBVIOUS
  <1>2. <<>> \in Seq(T) /\ Len(<<>>) = 0
    OBVIOUS
  <1>3. CASE b
    BY <1>1, <1>3 DEF Maybe
  <1>4. CASE ~b
    BY <1>2, <1>4 DEF Maybe
  <1> QED BY <1>3, <1>4

\* The characters on their way are as many as in the four places.
LEMMA FourLong ==
  ASSUME NEW T, NEW w \in Seq(T), NEW s \in Seq(T), NEW p \in Seq(T), NEW l \in Seq(T)
  PROVE  /\ w \o s \o p \o l \in Seq(T)
         /\ Len(w \o s \o p \o l) = Len(w) + Len(s) + Len(p) + Len(l)
  <1>1. w \o s \in Seq(T) /\ Len(w \o s) = Len(w) + Len(s)
    BY ConcatProperties
  <1>2. (w \o s) \o p \in Seq(T) /\ Len((w \o s) \o p) = Len(w \o s) + Len(p)
    BY <1>1, ConcatProperties
  <1>3. /\ ((w \o s) \o p) \o l \in Seq(T)
        /\ Len(((w \o s) \o p) \o l) = Len((w \o s) \o p) + Len(l)
    BY <1>2, ConcatProperties
  <1> QED BY <1>1, <1>2, <1>3

\* The first of a sequence goes, and the rest stays.
LEMMA FirstGoes ==
  ASSUME NEW T, NEW x \in T, NEW z \in Seq(T)
  PROVE  Head(<<x>> \o z) = x /\ Tail(<<x>> \o z) = z /\ <<x>> \o z # <<>>
  <1> DEFINE y == <<x>> \o z
  <1>1. <<x>> \in Seq(T) /\ Len(<<x>>) = 1 /\ <<x>>[1] = x
    OBVIOUS
  <1>2. /\ y \in Seq(T) /\ Len(y) = 1 + Len(z)
        /\ \A i \in 1 .. 1 + Len(z) : y[i] = IF i <= 1 THEN <<x>>[i] ELSE z[i - 1]
    BY <1>1, ConcatProperties
  <1>3. Len(z) \in Nat
    BY LenProperties
  <1>4. y[1] = x /\ \A i \in 1 .. Len(z) : y[i + 1] = z[i]
    BY <1>1, <1>2, <1>3
  <1> HIDE DEF y
  <1>5. y # <<>>
    BY <1>2, <1>3
  <1>6. /\ Tail(y) \in Seq(T) /\ Len(Tail(y)) = Len(z)
        /\ \A i \in 1 .. Len(Tail(y)) : Tail(y)[i] = y[i + 1]
    BY <1>2, <1>3, <1>5, HeadTailProperties
  <1>7. Tail(y) = z
    BY <1>4, <1>6, SeqEqual
  <1>8. Head(y) = x
    BY <1>4
  <1> QED BY <1>5, <1>7, <1>8 DEF y

\* The characters in four places.
Row(w, s, p, l) == w \o s \o p \o l

\* x is the first of them, and the others stay.
FirstTaken(x, s, p, l) == /\ Head(Row(<<x>>, s, p, l)) = x
                          /\ Row(<<x>>, s, p, l) # <<>>
                          /\ Tail(Row(<<x>>, s, p, l)) = Row(<<>>, s, p, l)

\* So it is when x stands in the first place.
LEMMA FirstOfFour ==
  ASSUME NEW T, NEW x \in T, NEW s \in Seq(T), NEW p \in Seq(T), NEW l \in Seq(T)
  PROVE  FirstTaken(x, s, p, l)
  <1>1. <<x>> \in Seq(T) /\ s \o p \in Seq(T) /\ (s \o p) \o l \in Seq(T)
    BY ConcatProperties
  <1>2. (<<x>> \o s) \o p = <<x>> \o (s \o p)
    BY <1>1, ConcatAssociative
  <1>3. (<<x>> \o (s \o p)) \o l = <<x>> \o ((s \o p) \o l)
    BY <1>1, ConcatAssociative
  <1>4. <<>> \o s = s
    BY ConcatEmptySeq
  <1> QED BY <1>1, <1>2, <1>3, <1>4, FirstGoes DEF FirstTaken, Row

\* Concatenation by another name, for the provers: they know too much about `\o'.
Cat(x, y) == x \o y

\* Brackets do not matter,
LEMMA Brackets ==
  ASSUME NEW T, NEW x \in Seq(T), NEW y \in Seq(T), NEW z \in Seq(T)
  PROVE  Cat(x, y) \in Seq(T) /\ Cat(Cat(x, y), z) = Cat(x, Cat(y, z))
  BY ConcatProperties, ConcatAssociative DEF Cat

\* nothing does not count,
LEMMA Nothing ==
  ASSUME NEW T, NEW x \in Seq(T)
  PROVE  <<>> \in Seq(T) /\ Cat(x, <<>>) = x /\ Cat(<<>>, x) = x
  BY ConcatEmptySeq DEF Cat

\* when the characters of two places are in three and e comes to them.
Regrouped(x, s, p, l, m, n, e) ==
    Cat(Cat(Cat(x, s), p), Cat(l, e)) = Cat(Cat(Cat(x, m), n), e)

\* They stand in the same row.
LEMMA Regroup ==
  ASSUME NEW T, NEW x \in Seq(T), NEW s \in Seq(T), NEW p \in Seq(T), NEW l \in Seq(T),
         NEW m \in Seq(T), NEW n \in Seq(T), NEW e \in Seq(T),
         Cat(Cat(s, p), l) = Cat(m, n)
  PROVE  Regrouped(x, s, p, l, m, n, e)
  <1>1. Cat(Cat(Cat(x, s), p), Cat(l, e)) = Cat(Cat(x, Cat(Cat(s, p), l)), e)
    BY Brackets
  <1>2. Cat(x, Cat(m, n)) = Cat(Cat(x, m), n)
    BY Brackets
  <1> QED BY <1>1, <1>2, Zenon DEF Regrouped
-----------------------------------------------------------------------------
\* The clocks since the transmitter has taken its character.
TxAge == CASE tx_state = "START_BIT" -> tx_counter
           [] tx_state = "DATA"      -> DELAY_FRAMES * (tx_bit + 1) + tx_counter
           [] tx_state = "STOP_BIT"  -> 9 * DELAY_FRAMES + tx_counter
           [] OTHER                  -> 10 * DELAY_FRAMES

TxTypes ==
    /\ \/ tx_state = "IDLE" /\ tx_counter = 0
       \/ tx_state \in {"START_BIT", "STOP_BIT"} /\ tx_counter \in 0 .. DELAY_FRAMES - 1
       \/ /\ tx_state = "DATA" /\ tx_counter \in 0 .. DELAY_FRAMES - 1
          /\ tx_bit \in 0 .. 7
    /\ IsFrame(data_reg)

\* The line follows the transmitter, and the far end the line, one clock behind.
Sending ==
    /\ ~tx_ready
    /\ LineWas(TxAge - 1, tx, DELAY_FRAMES, data_reg)
    /\ Tracks(FarEnd, DELAY_FRAMES, data_reg, TxAge - 1)

Silent == /\ tx_ready /\ tx = 1
          /\ far_state = "IDLE" /\ far_meta = 1 /\ far_sync = 1
          /\ far_valid => far_data = data_reg

\* The characters on their way: on the line back, in the transmitter's input,
\* in the waiting place and on the line to the probe.
OnWire   == Maybe(far_valid \/ (~tx_ready /\ TxAge <= Reported + 1), data_reg)
Starting == Maybe(tx_start, tx_data)
Waiting  == Maybe(pending_valid, pending_data)

\* A waiting character is passed on before the next one comes: that one has been
\* begun after the last one came back, when most of its frame was already sent.
WaitsInTime ==
    /\ pending_valid /\ OnWire = <<>> /\ OnLine # <<>> => Age < TxAge - (Reported + 1)
    /\ tx_start => /\ tx_ready /\ ~pending_valid /\ ~far_valid
                   /\ OnLine # <<>> => Age < DELAY_FRAMES

EchoInv ==
    /\ RxTypes(Near) /\ SenderTypes /\ InStep
    /\ TxTypes /\ RxTypes(FarEnd)
    /\ Sending \/ Silent
    /\ tx_start \in BOOLEAN /\ pending_valid \in BOOLEAN
    /\ IsFrame(tx_data) /\ IsFrame(pending_data)
    /\ owed = OnWire \o Starting \o Waiting \o OnLine
    /\ Len(owed) <= 2
    /\ WaitsInTime

\* A probe whose clock agrees with that of a sender agrees with itself.
LEMMA ProbeAgrees ==
  ASSUME SenderTypes
  PROVE  Agree(DELAY_FRAMES, HALF_DELAY, DELAY_FRAMES)
  <1> PICK t \in Nat : t = bit_time
    BY BitTimeAgrees DEF Agree
  <1> PICK h \in Nat : h = HALF_DELAY
    BY BitTimeAgrees DEF Agree
  <1> PICK d \in Nat : d = DELAY_FRAMES
    BY BitTimeAgrees DEF Agree
  <1>1. h > 0 /\ 2 * h <= d /\ 9 * t <= h + 9 * d /\ h + 9 * d + 4 <= 10 * t
    BY BitTimeAgrees DEF Agree
  <1>2. d <= 2 * h + 1
    BY DEF HALF_DELAY
  <1>3. h + 4 <= d
    <2> SUFFICES ASSUME d < h + 4 PROVE FALSE
      OBVIOUS
    <2>1. h \in {1, 2, 3}
      BY <1>1
    <2>2. d \in 2 .. 6
      BY <1>1, <2>1
    <2>3. t <= d
      BY <1>1, <2>1, <2>2
    <2> QED BY <1>1, <2>3
  <1> QED BY <1>1, <1>3 DEF Agree

\* Where the transmitter is in its frame.
LEMMA TxAges ==
  /\ tx_state = "START_BIT" => TxAge = tx_counter
  /\ tx_state = "DATA" => TxAge = DELAY_FRAMES * (tx_bit + 1) + tx_counter
  /\ tx_state = "STOP_BIT" => TxAge = 9 * DELAY_FRAMES + tx_counter
  /\ tx_state = "IDLE" => TxAge = 10 * DELAY_FRAMES
  BY DEF TxAge

\* The same in the next clock.
LEMMA TxAgesNext ==
  /\ tx_state' = "START_BIT" => TxAge' = tx_counter'
  /\ tx_state' = "DATA" => TxAge' = DELAY_FRAMES * (tx_bit' + 1) + tx_counter'
  /\ tx_state' = "STOP_BIT" => TxAge' = 9 * DELAY_FRAMES + tx_counter'
  /\ tx_state' = "IDLE" => TxAge' = 10 * DELAY_FRAMES
  BY DEF TxAge

\* It is a number, whatever the line does.
LEMMA TxAgeTyped == ASSUME TxTypes PROVE TxAge \in Nat /\ TxAge <= 10 * DELAY_FRAMES
  <1> PICK d \in Nat : d = DELAY_FRAMES /\ d > 0
    BY SerialParameters
  <1>1. CASE tx_state = "DATA"
    <2> PICK j \in 0 .. 7 : j = tx_bit
      BY <1>1 DEF TxTypes
    <2>1. tx_counter \in 0 .. d - 1 /\ TxAge = d * (j + 1) + tx_counter
      BY <1>1, TxAges DEF TxTypes
    <2> PICK m \in Nat : m = d * (j + 1)
      OBVIOUS
    <2>2. m + d * (7 - j) = 8 * d /\ d * (7 - j) \in Nat
      OBVIOUS
    <2>3. m <= 8 * d
      BY <2>2
    <2> QED BY <2>1, <2>3
  <1>2. CASE tx_state # "DATA"
    BY <1>2, TxAges DEF TxTypes
  <1> QED BY <1>1, <1>2

\* The transmitter puts the bit in which it is on the line.
LEMMA TxSendsBit ==
  ASSUME TxTypes, ~tx_ready, NEW S, TxClock(S)
  PROVE  /\ TxAge \in Nat /\ TxAge < 10 * DELAY_FRAMES
         /\ LineWas(TxAge, tx', DELAY_FRAMES, data_reg)
  <1> PICK d \in Nat : d = DELAY_FRAMES
    BY SerialParameters
  <1>1. CASE tx_state = "START_BIT"
    <2>1. tx' = BitAt(data_reg, 0) /\ tx_counter \in 0 .. d - 1
      BY <1>1 DEF TxClock, TxIdle, TxStartBit, TxData, TxStopBit, TxTypes, BitAt
    <2>2. TxAge = 0 * d + tx_counter
      BY <1>1, <2>1, TxAges
    <2> QED BY <2>1, <2>2, SentBit
  <1>2. CASE tx_state = "DATA"
    <2>1. tx' = data_reg[tx_bit] /\ tx_counter \in 0 .. d - 1 /\ tx_bit \in 0 .. 7
      BY <1>2 DEF TxClock, TxIdle, TxStartBit, TxData, TxStopBit, TxTypes
    <2>2. tx' = BitAt(data_reg, tx_bit + 1) /\ tx_bit + 1 \in 0 .. 9
      BY <2>1, InnerBit
    <2>3. TxAge = (tx_bit + 1) * d + tx_counter
      BY <1>2, <2>1, TxAges
    <2> QED BY <2>1, <2>2, <2>3, SentBit
  <1>3. CASE tx_state = "STOP_BIT"
    <2>1. tx' = BitAt(data_reg, 9) /\ tx_counter \in 0 .. d - 1
      BY <1>3 DEF TxClock, TxIdle, TxStartBit, TxData, TxStopBit, TxTypes, BitAt
    <2>2. TxAge = 9 * d + tx_counter /\ 9 \in 0 .. 9
      BY <1>3, <2>1, TxAges
    <2> QED BY <2>1, <2>2, SentBit
  <1> QED BY <1>1, <1>2, <1>3 DEF TxTypes, tx_ready

\* The transmitter goes through a frame clock by clock.
LEMMA TxGoesOn ==
  ASSUME TxTypes, ~tx_ready, NEW S, TxClock(S)
  PROVE  TxTypes' /\ data_reg' = data_reg /\ TxAge' = TxAge + 1
  <1> PICK d \in Nat : d = DELAY_FRAMES /\ d > 0
    BY SerialParameters
  <1>1. IsFrame(data_reg)
    BY DEF TxTypes
  <1>2. CASE tx_state = "START_BIT"
    <2>1. /\ data_reg' = data_reg /\ tx_counter \in 0 .. d - 1
          /\ tx_counter' = IF tx_counter = d - 1 THEN 0 ELSE tx_counter + 1
          /\ IF tx_counter = d - 1 THEN tx_bit' = 0 /\ tx_state' = "DATA"
                                   ELSE tx_bit' = tx_bit /\ tx_state' = tx_state
      BY <1>2 DEF TxClock, TxIdle, TxStartBit, TxData, TxStopBit, TxTypes, TxCounts, TxDone
    <2>2. TxAge = tx_counter
      BY <1>2, TxAges
    <2>3. CASE tx_counter = d - 1
      <3>1. tx_state' = "DATA" /\ tx_bit' = 0 /\ tx_counter' = 0
        BY <2>1, <2>3
      <3>2. TxAge' = d * (0 + 1) + 0
        BY <3>1, TxAgesNext
      <3>3. TxAge' = TxAge + 1
        BY <2>2, <2>3, <3>2
      <3> QED BY <1>1, <2>1, <3>1, <3>3 DEF TxTypes, IsFrame
    <2>4. CASE tx_counter # d - 1
      <3>1. tx_state' = "START_BIT" /\ tx_counter' = tx_counter + 1
        BY <1>2, <2>1, <2>4
      <3>2. TxAge' = TxAge + 1 /\ tx_counter' \in 0 .. d - 1
        BY <2>1, <2>2, <2>4, <3>1, TxAgesNext
      <3> QED BY <1>1, <2>1, <3>1, <3>2 DEF TxTypes, IsFrame
    <2> QED BY <2>3, <2>4
  <1>3. CASE tx_state = "DATA"
    <2>1. /\ data_reg' = data_reg /\ tx_counter \in 0 .. d - 1 /\ tx_bit \in 0 .. 7
          /\ tx_counter' = IF tx_counter = d - 1 THEN 0 ELSE tx_counter + 1
          /\ IF tx_counter = d - 1
             THEN /\ tx_bit' = (tx_bit + 1) % 8
                  /\ tx_state' = IF tx_bit = 7 THEN "STOP_BIT" ELSE "DATA"
             ELSE tx_bit' = tx_bit /\ tx_state' = tx_state
      BY <1>3 DEF TxClock, TxIdle, TxStartBit, TxData, TxStopBit, TxTypes, TxCounts, TxDone
    <2> PICK j \in 0 .. 7 : j = tx_bit
      BY <2>1
    <2>2. TxAge = d * (j + 1) + tx_counter
      BY <1>3, TxAges
    <2> PICK dj \in Nat : dj = d * j
      OBVIOUS
    <2>3. d * (j + 1) = dj + d /\ d * ((j + 1) + 1) = dj + d + d
      OBVIOUS
    <2>4. CASE tx_counter = d - 1 /\ j = 7
      <3>1. tx_state' = "STOP_BIT" /\ tx_counter' = 0
        BY <2>1, <2>4
      <3>2. TxAge' = 9 * d + 0
        BY <3>1, TxAgesNext
      <3>3. TxAge' = TxAge + 1
        BY <2>2, <2>4, <3>2
      <3> QED BY <1>1, <2>1, <3>1, <3>3 DEF TxTypes, IsFrame
    <2>5. CASE tx_counter = d - 1 /\ j # 7
      <3>1. tx_state' = "DATA" /\ tx_counter' = 0 /\ tx_bit' = j + 1
        BY <2>1, <2>5
      <3>2. TxAge' = d * ((j + 1) + 1) + 0
        BY <3>1, TxAgesNext
      <3>3. TxAge' = TxAge + 1
        BY <2>2, <2>3, <2>5, <3>2
      <3>4. j + 1 \in 0 .. 7
        BY <2>5
      <3> QED BY <1>1, <2>1, <3>1, <3>3, <3>4 DEF TxTypes, IsFrame
    <2>6. CASE tx_counter # d - 1
      <3>1. tx_state' = "DATA" /\ tx_counter' = tx_counter + 1 /\ tx_bit' = j
        BY <1>3, <2>1, <2>6
      <3>2. TxAge' = d * (j + 1) + (tx_counter + 1)
        BY <3>1, TxAgesNext
      <3>3. TxAge' = TxAge + 1 /\ tx_counter' \in 0 .. d - 1
        BY <2>1, <2>2, <2>3, <2>6, <3>1, <3>2
      <3> QED BY <1>1, <2>1, <3>1, <3>3 DEF TxTypes, IsFrame
    <2> QED BY <2>4, <2>5, <2>6
  <1>4. CASE tx_state = "STOP_BIT"
    <2>1. /\ data_reg' = data_reg /\ tx_counter \in 0 .. d - 1
          /\ tx_counter' = IF tx_counter = d - 1 THEN 0 ELSE tx_counter + 1
          /\ tx_state' = IF tx_counter = d - 1 THEN "IDLE" ELSE "STOP_BIT"
      BY <1>4 DEF TxClock, TxIdle, TxStartBit, TxData, TxStopBit, TxTypes, TxCounts, TxDone
    <2>2. TxAge = 9 * d + tx_counter
      BY <1>4, TxAges
    <2>3. CASE tx_counter = d - 1
      <3>1. tx_state' = "IDLE" /\ tx_counter' = 0
        BY <2>1, <2>3
      <3>2. TxAge' = 10 * d
        BY <3>1, TxAgesNext
      <3>3. TxAge' = TxAge + 1
        BY <2>2, <2>3, <3>2
      <3> QED BY <1>1, <2>1, <3>1, <3>3 DEF TxTypes, IsFrame
    <2>4. CASE tx_counter # d - 1
      <3>1. tx_state' = "STOP_BIT" /\ tx_counter' = tx_counter + 1
        BY <2>1, <2>4
      <3>2. TxAge' = TxAge + 1 /\ tx_counter' \in 0 .. d - 1
        BY <2>1, <2>2, <2>4, <3>1, TxAgesNext
      <3> QED BY <1>1, <2>1, <3>1, <3>2 DEF TxTypes, IsFrame
    <2> QED BY <2>3, <2>4
  <1> QED BY <1>2, <1>3, <1>4 DEF TxTypes, tx_ready

\* What of OnWire has not come back after this clock.
StillOnWire == IF far_valid THEN <<>> ELSE OnWire

\* The far end reports in one clock of the frame.
LEMMA FarReports ==
  ASSUME SenderTypes, TxTypes, RxTypes(FarEnd), Sending, TxAge \in Nat
  PROVE  /\ far_valid => TxAge - 1 = Reported /\ far_data = data_reg
         /\ ~far_valid => TxAge - 1 # Reported
  <1>1. RxAt(FarEnd, data_reg, TxAge - 1)
    BY DEF Sending, Tracks
  <1> PICK p \in Int : p = TxAge - 1
    OBVIOUS
  <1>2. /\ FarEnd.valid => p = Reported /\ FarEnd.data = data_reg
        /\ ~FarEnd.valid => p # Reported
    BY <1>1, ProbeAgrees, ReportedOnce
  <1>3. FarEnd.valid = far_valid /\ FarEnd.data = far_data
    BY DEF FarEnd
  <1> QED BY <1>2, <1>3, Zenon

\* The far end follows the transmitter, one clock behind.
LEMMA FarTracks ==
  ASSUME SenderTypes, TxTypes, RxTypes(FarEnd), Sending, NEW S, TxClock(S),
         Far!RxClock(tx)
  PROVE  Tracks(FarEnd', DELAY_FRAMES, data_reg, TxAge)
  <1> PICK a \in Nat : a = TxAge /\ a < 10 * DELAY_FRAMES
    BY TxSendsBit DEF Sending
  <1>1. /\ LineWas(a - 1, tx, DELAY_FRAMES, data_reg)
        /\ Tracks(FarEnd, DELAY_FRAMES, data_reg, a - 1)
    BY DEF Sending
  <1>2. Agree(DELAY_FRAMES, HALF_DELAY, DELAY_FRAMES) /\ IsFrame(data_reg)
    BY ProbeAgrees DEF TxTypes
  <1>3. RxStep(FarEnd, tx, FarEnd')
    BY FarSteps
  <1>4. a - 1 \in Int /\ 0 - 1 <= a - 1 /\ a - 1 < 10 * DELAY_FRAMES
    BY <1>2 DEF Agree
  <1>5. Tracks(FarEnd', DELAY_FRAMES, data_reg, (a - 1) + 1)
    BY <1>1, <1>2, <1>3, <1>4, TracksOn
  <1>6. (a - 1) + 1 = TxAge
    OBVIOUS
  <1> QED BY <1>5, <1>6, Zenon

\* A frame on the line goes on, and at its end the line has come to rest.
LEMMA SendingGoesOn ==
  ASSUME SenderTypes, TxTypes, RxTypes(FarEnd), Sending, NEW S, TxClock(S),
         Far!RxClock(tx)
  PROVE  Sending' \/ Silent'
  <1>1. Tracks(FarEnd', DELAY_FRAMES, data_reg, TxAge)
    BY FarTracks
  <1> PICK a \in Nat : a = TxAge
    BY TxSendsBit DEF Sending
  <1>2. /\ a < 10 * DELAY_FRAMES /\ LineWas(a, tx', DELAY_FRAMES, data_reg)
        /\ data_reg' = data_reg /\ TxAge' = a + 1
    BY TxSendsBit, TxGoesOn DEF Sending
  <1>3. CASE ~tx_ready'
    <2>1. TxAge' - 1 = a
      BY <1>2
    <2>2. /\ LineWas(TxAge' - 1, tx', DELAY_FRAMES, data_reg')
          /\ Tracks(FarEnd', DELAY_FRAMES, data_reg', TxAge' - 1)
      BY <1>1, <1>2, <2>1, Zenon
    <2> QED BY <1>3, <2>2, Zenon DEF Sending
  <1>4. CASE tx_ready'
    <2> PICK d \in Nat : d = DELAY_FRAMES
      BY SerialParameters
    <2> PICK r \in Nat : r = Reported
      BY ProbeAgrees DEF Reported, Agree
    <2>1. Agree(d, HALF_DELAY, d) /\ r <= 10 * d - 1 /\ d > 2
      BY ProbeAgrees DEF Agree, Reported
    <2>2. a = 10 * d - 1
      <3>1. tx_state' = "IDLE"
        BY <1>4 DEF tx_ready
      <3>2. a + 1 = 10 * d
        BY <1>2, <3>1, TxAgesNext
      <3> QED BY <3>2
    <2>3. /\ LineWas(a, tx', d, data_reg) /\ LineWas(a - 1, FarEnd'.meta, d, data_reg)
          /\ LineWas(a - 2, FarEnd'.sync, d, data_reg) /\ RxAt(FarEnd', data_reg, a)
      BY <1>1, <1>2 DEF Tracks
    <2>4. tx' = 1 /\ FarEnd'.meta = 1 /\ FarEnd'.sync = 1
      <3>1. /\ 9 * d <= a /\ a < (9 + 1) * d
            /\ 9 * d <= a - 1 /\ a - 1 < (9 + 1) * d
            /\ 9 * d <= a - 2 /\ a - 2 < (9 + 1) * d /\ 9 \in 0 .. 9
        BY <2>1, <2>2
      <3> QED BY <2>3, <3>1 DEF LineWas, BitAt
    <2>5. /\ FarEnd'.state = "IDLE"
          /\ FarEnd'.valid => FarEnd'.data = data_reg
      <3>1. RxTypes(FarEnd')
        BY RxTypesKept, FarSteps
      <3>2. a \in Int /\ a >= Reported
        BY <2>1, <2>2
      <3> QED BY <2>1, <2>3, <3>1, <3>2, ReportedOnce
    <2>6. /\ FarEnd'.state = far_state' /\ FarEnd'.meta = far_meta'
          /\ FarEnd'.sync = far_sync' /\ FarEnd'.valid = far_valid'
          /\ FarEnd'.data = far_data'
      BY DEF FarEnd
    <2> QED BY <1>2, <1>4, <2>4, <2>5, <2>6, Zenon DEF Silent
  <1> QED BY <1>3, <1>4

\* A free transmitter takes a character,
LEMMA SilentEnds ==
  ASSUME TxTypes, Silent, NEW c, IsFrame(c), TxClock({c}), Far!RxClock(tx)
  PROVE  TxTypes' /\ Sending' /\ data_reg' = c /\ TxAge' = 0 /\ ~far_valid'
  <1> PICK d \in Nat : d = DELAY_FRAMES /\ d > 0
    BY SerialParameters
  <1>1. tx_state = "IDLE" /\ tx_counter = 0
    BY DEF Silent, TxTypes, tx_ready
  <1>2. tx_state' = "START_BIT" /\ data_reg' = c /\ tx_counter' = 0 /\ tx' = 1
    BY <1>1 DEF Silent, TxClock, TxIdle, TxStartBit, TxData, TxStopBit
  <1>3. TxTypes'
    <2>1. 0 \in 0 .. d - 1
      OBVIOUS
    <2> QED BY <1>2, <2>1 DEF TxTypes, IsFrame
  <1>4. TxAge' = 0
    BY <1>2, TxAgesNext
  <1>5. Rests(FarEnd')
    <2>1. FarEnd.state = "IDLE" /\ FarEnd.meta = 1 /\ FarEnd.sync = 1 /\ tx = 1
      BY DEF Silent, FarEnd
    <2>2. RxStep(FarEnd, 1, FarEnd')
      BY <2>1, FarSteps
    <2> QED BY <2>1, <2>2, RestStays
  <1>6. Tracks(FarEnd', d, c, 0 - 1)
    <2>1. \A s \in 0 .. 9 : s * d \in Nat
      OBVIOUS
    <2>2. LineWas((0 - 1) - 1, FarEnd'.meta, d, c) /\ LineWas((0 - 1) - 2, FarEnd'.sync, d, c)
      BY <1>5, <2>1 DEF LineWas, Rests
    <2>3. RxAt(FarEnd', c, 0 - 1)
      BY <1>5 DEF RxAt, Rests
    <2> QED BY <2>2, <2>3 DEF Tracks
  <1>7. LineWas(0 - 1, tx', d, c)
    <2>1. \A s \in 0 .. 9 : s * d \in Nat
      OBVIOUS
    <2> QED BY <1>2, <2>1 DEF LineWas
  <1>8. Sending'
    <2>1. ~tx_ready'
      BY <1>2 DEF tx_ready
    <2>2. TxAge' - 1 = 0 - 1
      BY <1>4
    <2>3. /\ LineWas(TxAge' - 1, tx', DELAY_FRAMES, data_reg')
          /\ Tracks(FarEnd', DELAY_FRAMES, data_reg', TxAge' - 1)
      BY <1>2, <1>6, <1>7, <2>2, Zenon
    <2> QED BY <2>1, <2>3, Zenon DEF Sending
  <1>9. ~far_valid'
    BY <1>5 DEF FarEnd, Rests
  <1> QED BY <1>2, <1>3, <1>4, <1>8, <1>9

\* or stays free.
LEMMA SilentStays ==
  ASSUME TxTypes, Silent, TxClock({}), Far!RxClock(tx)
  PROVE  TxTypes' /\ Silent' /\ TxAge' = TxAge /\ ~far_valid'
  <1>1. tx_state = "IDLE" /\ tx_counter = 0
    BY DEF Silent, TxTypes, tx_ready
  <1>2. tx_state' = "IDLE" /\ data_reg' = data_reg /\ tx_counter' = 0 /\ tx' = 1
    BY <1>1 DEF Silent, TxClock, TxIdle, TxStartBit, TxData, TxStopBit
  <1>3. TxTypes'
    BY <1>2 DEF TxTypes, IsFrame
  <1>4. TxAge' = TxAge
    BY <1>1, <1>2, TxAges, TxAgesNext
  <1>5. Rests(FarEnd')
    <2>1. FarEnd.state = "IDLE" /\ FarEnd.meta = 1 /\ FarEnd.sync = 1 /\ tx = 1
      BY DEF Silent, FarEnd
    <2>2. RxStep(FarEnd, 1, FarEnd')
      BY <2>1, FarSteps
    <2> QED BY <2>1, <2>2, RestStays
  <1>6. Silent'
    BY <1>2, <1>5 DEF Silent, tx_ready, FarEnd, Rests
  <1>7. ~far_valid'
    BY <1>5 DEF FarEnd, Rests
  <1> QED BY <1>3, <1>4, <1>6, <1>7

\* What the far end reports next is what has been on the line long enough.
LEMMA FarReportsNext ==
  ASSUME SenderTypes, TxTypes, RxTypes(FarEnd), Sending, NEW S, TxClock(S),
         Far!RxClock(tx)
  PROVE  far_valid' <=> TxAge = Reported
  <1>1. RxAt(FarEnd', data_reg, TxAge) /\ RxTypes(FarEnd')
    BY FarTracks, RxTypesKept, FarSteps DEF Tracks
  <1> PICK p \in Int : p = TxAge
    BY TxSendsBit DEF Sending
  <1>2. /\ FarEnd'.valid => p = Reported
        /\ ~FarEnd'.valid => p # Reported
    BY <1>1, ProbeAgrees, ReportedOnce
  <1>3. FarEnd'.valid = far_valid'
    BY DEF FarEnd
  <1> QED BY <1>2, <1>3, Zenon

\* A character that has come back is off the line, and no other one.
LEMMA SendingWire ==
  ASSUME SenderTypes, TxTypes, RxTypes(FarEnd), Sending, NEW S, TxClock(S),
         Far!RxClock(tx)
  PROVE  /\ OnWire' = StillOnWire
         /\ StillOnWire = <<>> => TxAge > Reported
         /\ OnWire = <<>> => TxAge > Reported + 1
  <1> PICK a \in Nat : a = TxAge
    BY TxSendsBit DEF Sending
  <1> PICK r \in Nat : r = Reported
    BY ProbeAgrees DEF Reported, Agree
  <1> PICK x : x = data_reg
    OBVIOUS
  <1>1. a < 10 * DELAY_FRAMES /\ data_reg' = x /\ TxAge' = a + 1 /\ ~tx_ready
    BY TxSendsBit, TxGoesOn DEF Sending
  <1>2. far_valid' <=> a = r
    BY FarReportsNext
  <1>3. far_valid <=> a - 1 = r
    BY FarReports
  <1>4. <<x>> # <<>>
    OBVIOUS
  <1>5. OnWire = IF a <= r + 1 THEN <<x>> ELSE <<>>
    <2>1. OnWire = Maybe(far_valid \/ a <= r + 1, x)
      BY <1>1, Zenon DEF OnWire
    <2>2. far_valid => a <= r + 1
      BY <1>3
    <2> QED BY <2>1, <2>2, Zenon DEF Maybe
  <1>6. StillOnWire = IF a <= r THEN <<x>> ELSE <<>>
    <2>1. a <= r <=> ~(a - 1 = r) /\ a <= r + 1
      OBVIOUS
    <2> QED BY <1>3, <1>5, <2>1, Zenon DEF StillOnWire
  <1>7. OnWire' = IF a <= r THEN <<x>> ELSE <<>>
    <2>1. Reported' = r
      BY DEF Reported, HALF_DELAY
    <2>2. OnWire' = Maybe(far_valid' \/ (~tx_ready' /\ a + 1 <= r + 1), x)
      BY <1>1, <2>1, Zenon DEF OnWire, Maybe
    <2>3. a <= r <=> a = r \/ (~tx_ready' /\ a + 1 <= r + 1)
      <3>1. CASE tx_ready'
        <4>1. tx_state' = "IDLE"
          BY <3>1 DEF tx_ready
        <4>2. a + 1 = 10 * DELAY_FRAMES
          BY <1>1, <4>1, TxAgesNext
        <4>3. r <= 10 * DELAY_FRAMES - 1 /\ DELAY_FRAMES \in Nat
          BY ProbeAgrees DEF Agree, Reported
        <4>4. r <= a
          BY <4>2, <4>3
        <4> QED BY <3>1, <4>4
      <3>2. CASE ~tx_ready'
        BY <3>2
      <3> QED BY <3>1, <3>2
    <2> QED BY <1>2, <2>2, <2>3, Zenon DEF Maybe
  <1>8. (a <= r => <<x>> # <<>>) /\ (~(a <= r) <=> a > r) /\ (~(a <= r + 1) <=> a > r + 1)
    BY <1>4
  <1>9. OnWire' = StillOnWire
    BY <1>6, <1>7
  <1>10. StillOnWire = <<>> => a > r
    BY <1>4, <1>6, <1>8, Zenon
  <1>11. OnWire = <<>> => a > r + 1
    BY <1>4, <1>5, <1>8, Zenon
  <1> QED BY <1>9, <1>10, <1>11

\* The line back and the transmitter in any clock.
LEMMA WireGoes ==
  ASSUME SenderTypes, TxTypes, RxTypes(FarEnd), Sending \/ Silent, IsFrame(tx_data),
         tx_start \in BOOLEAN, tx_start => tx_ready, 
         TxClock(IF tx_start THEN {tx_data} ELSE {}), Far!RxClock(tx)
  PROVE  /\ TxTypes' /\ RxTypes(FarEnd') /\ (Sending' \/ Silent')
         /\ tx_start => StillOnWire = <<>> /\ OnWire' = <<tx_data>>
         /\ ~tx_start => OnWire' = StillOnWire
         /\ tx_ready /\ ~tx_start => tx_ready' /\ ~far_valid' /\ OnWire' = <<>>
         /\ ~tx_ready => /\ TxAge \in Nat /\ TxAge' = TxAge + 1
                         /\ StillOnWire = <<>> => TxAge > Reported
                         /\ OnWire = <<>> => TxAge > Reported + 1
  <1> PICK S : S = IF tx_start THEN {tx_data} ELSE {}
    OBVIOUS
  <1>1. TxClock(S)
    OBVIOUS
  <1>2. RxTypes(FarEnd')
    BY RxTypesKept, FarSteps
  <1>3. CASE Sending
    <2>1. ~tx_ready /\ ~tx_start
      BY <1>3 DEF Sending
    <2>2. TxTypes' /\ TxAge' = TxAge + 1 /\ TxAge \in Nat
      BY <1>1, <2>1, TxGoesOn, TxSendsBit
    <2>3. Sending' \/ Silent'
      BY <1>1, <1>3, SendingGoesOn
    <2>4. /\ OnWire' = StillOnWire
          /\ StillOnWire = <<>> => TxAge > Reported
          /\ OnWire = <<>> => TxAge > Reported + 1
      BY <1>1, <1>3, SendingWire
    <2> QED BY <1>2, <2>1, <2>2, <2>3, <2>4, Zenon
  <1>4. CASE Silent /\ tx_start
    <2>1. S = {tx_data} /\ TxClock({tx_data})
      BY <1>1, <1>4
    <2>2. /\ TxTypes' /\ Sending' /\ data_reg' = tx_data /\ TxAge' = 0 /\ ~far_valid'
      BY <1>4, <2>1, SilentEnds
    <2>3. tx_ready
      BY <1>4 DEF Silent
    <2>4. StillOnWire = <<>>
      BY <2>3, Zenon DEF StillOnWire, OnWire, Maybe
    <2>5. OnWire' = <<tx_data>>
      <3>1. 0 <= Reported' + 1
        BY SerialParameters DEF Reported, HALF_DELAY
      <3>2. ~tx_ready'
        BY <2>2 DEF Sending
      <3>3. far_valid' \/ (~tx_ready' /\ TxAge' <= Reported' + 1)
        BY <2>2, <3>1, <3>2
      <3> QED BY <2>2, <3>3, Zenon DEF OnWire, Maybe
    <2> QED BY <1>2, <1>4, <2>2, <2>3, <2>4, <2>5, Zenon
  <1>5. CASE Silent /\ ~tx_start
    <2>1. S = {} /\ TxClock({})
      BY <1>1, <1>5
    <2>2. TxTypes' /\ Silent' /\ ~far_valid'
      BY <1>5, <2>1, SilentStays
    <2>3. tx_ready /\ tx_ready'
      BY <1>5, <2>2, Zenon DEF Silent
    <2>4. StillOnWire = <<>>
      BY <2>3, Zenon DEF StillOnWire, OnWire, Maybe
    <2>5. OnWire' = <<>>
      BY <2>2, <2>3, Zenon DEF OnWire, Maybe
    <2> QED BY <1>2, <1>5, <2>2, <2>3, <2>4, <2>5, Zenon
  <1> QED BY <1>3, <1>4, <1>5

\* All characters that are held somewhere.
Held == {data_reg, tx_data, pending_data, sending, rx_data}

\* The four places hold a character or none.
LEMMA Places ==
  /\ OnWire \in Seq(Held) /\ Len(OnWire) \in Nat
  /\ OnWire # <<>> => Len(OnWire) = 1
  /\ Starting \in Seq(Held) /\ Len(Starting) \in Nat
  /\ Waiting \in Seq(Held) /\ Len(Waiting) \in Nat
  /\ pending_valid => Waiting = <<pending_data>> /\ Len(Waiting) = 1
  /\ ~pending_valid => Waiting = <<>>
  /\ tx_start => Starting = <<tx_data>>
  /\ ~tx_start => Starting = <<>>
  /\ OnLine \in Seq(Held) /\ Len(OnLine) \in Nat
  /\ OnLine # <<>> => Len(OnLine) = 1
  <1>1. data_reg \in Held /\ tx_data \in Held /\ pending_data \in Held /\ sending \in Held
    BY DEF Held
  <1>2. /\ OnWire \in Seq(Held)
        /\ OnWire # <<>> => Len(OnWire) = 1
    BY <1>1, MaybeOne DEF OnWire
  <1>3. /\ Starting \in Seq(Held)
        /\ tx_start => Starting = <<tx_data>>
        /\ ~tx_start => Starting = <<>>
    BY <1>1, MaybeOne DEF Starting
  <1>4. /\ Waiting \in Seq(Held)
        /\ pending_valid => Waiting = <<pending_data>> /\ Len(Waiting) = 1
        /\ ~pending_valid => Waiting = <<>>
    BY <1>1, MaybeOne DEF Waiting
  <1>5. /\ OnLine \in Seq(Held)
        /\ OnLine # <<>> => Len(OnLine) = 1
    <2>1. OnLine = Maybe(slot \in 0 .. 9 /\ Age <= Reported, sending)
      BY DEF OnLine, Maybe
    <2> QED BY <1>1, <2>1, MaybeOne
  <1>6. \A s \in Seq(Held) : Len(s) \in Nat
    BY LenProperties
  <1> QED BY <1>2, <1>3, <1>4, <1>5, <1>6

\* With one on the wire and one waiting, two are owed already.
LEMMA TwoOwed ==
  ASSUME EchoInv
  PROVE  /\ owed \in Seq(Held) /\ Len(owed) \in Nat
         /\ pending_valid /\ OnWire # <<>> => Len(owed) >= 2 /\ OnLine = <<>>
  <1>1. owed = OnWire \o Starting \o Waiting \o OnLine /\ Len(owed) <= 2
    BY DEF EchoInv
  <1>2. /\ owed \in Seq(Held)
        /\ Len(owed) = Len(OnWire) + Len(Starting) + Len(Waiting) + Len(OnLine)
    <2>1. /\ OnWire \in Seq(Held) /\ Starting \in Seq(Held) /\ Waiting \in Seq(Held)
          /\ OnLine \in Seq(Held)
      BY Places
    <2> HIDE DEF Held
    <2> QED BY <1>1, <2>1, FourLong
  <1> PICK w \in Nat : w = Len(OnWire)
    BY Places
  <1> PICK s \in Nat : s = Len(Starting)
    BY Places
  <1> PICK p \in Nat : p = Len(Waiting)
    BY Places
  <1> PICK l \in Nat : l = Len(OnLine)
    BY Places
  <1>3. w + s + p + l <= 2 /\ Len(owed) = w + s + p + l
    BY <1>1, <1>2
  <1>4. /\ OnWire # <<>> => w = 1
        /\ pending_valid => p = 1
        /\ OnLine # <<>> => l = 1
    BY Places
  <1>5. pending_valid /\ OnWire # <<>> => Len(owed) >= 2 /\ OnLine = <<>>
    <2> SUFFICES ASSUME pending_valid, OnWire # <<>> PROVE Len(owed) >= 2 /\ OnLine = <<>>
      OBVIOUS
    <2>1. w = 1 /\ p = 1
      BY <1>4
    <2>2. l # 1 /\ w + s + p + l >= 2
      BY <1>3, <2>1
    <2> QED BY <1>3, <1>4, <2>2
  <1> QED BY <1>2, <1>3, <1>5

\* A character never comes while another waits or is just passed on.
LEMMA NoCollision ==
  ASSUME EchoInv, rx_valid
  PROVE  ~pending_valid /\ ~tx_start
  <1>1. OnLine = <<rx_data>> /\ Age = Reported
    BY ReportsOnLine DEF EchoInv
  <1>2. OnLine # <<>>
    <2>1. <<rx_data>> # <<>>
      OBVIOUS
    <2> QED BY <1>1, <2>1
  <1> PICK h \in Nat : h = HALF_DELAY
    BY BitTimeAgrees DEF EchoInv, Agree
  <1> PICK d \in Nat : d = DELAY_FRAMES
    BY BitTimeAgrees DEF EchoInv, Agree
  <1>3. Reported = h + 9 * d + 3
    BY DEF Reported
  <1>4. TxAge \in Nat /\ TxAge <= 10 * d
    BY TxAgeTyped DEF EchoInv
  <1>5. ~tx_start
    <2> SUFFICES ASSUME tx_start PROVE FALSE
      OBVIOUS
    <2>1. Age < DELAY_FRAMES
      BY <1>2 DEF EchoInv, WaitsInTime
    <2> QED BY <1>1, <1>3, <2>1
  <1>6. ~pending_valid
    <2> SUFFICES ASSUME pending_valid PROVE FALSE
      OBVIOUS
    <2>1. OnWire = <<>>
      BY <1>2, TwoOwed
    <2>2. Age < TxAge - (Reported + 1)
      BY <1>2, <2>1 DEF EchoInv, WaitsInTime
    <2> QED BY <1>1, <1>3, <1>4, <2>2
  <1> QED BY <1>5, <1>6

\* The probe passes a character on or lets it wait.
LEMMA ProbePasses ==
  ASSUME tx_start \in BOOLEAN, pending_valid \in BOOLEAN, IsFrame(tx_data),
         IsFrame(pending_data), IsFrame(rx_data), tx_start => ~pending_valid,
         rx_valid => ~pending_valid /\ ~tx_start /\ OnLine = <<rx_data>>,
         ProbeClock
  PROVE  /\ tx_start' \in BOOLEAN /\ pending_valid' \in BOOLEAN
         /\ IsFrame(tx_data') /\ IsFrame(pending_data')
         /\ tx_start' => /\ ~pending_valid' /\ tx_ready /\ ~tx_start
                         /\ rx_valid \/ pending_valid
         /\ pending_valid' => ~tx_ready /\ (rx_valid \/ pending_valid)
         /\ Cat(Cat(Starting', Waiting'), StillOnLine) = Cat(Waiting, OnLine)
  <1>1. CASE Forward /\ tx_ready
    <2>1. /\ rx_valid /\ ~pending_valid /\ ~tx_start /\ OnLine = <<rx_data>>
          /\ tx_start' = TRUE /\ tx_data' = rx_data
          /\ pending_data' = pending_data /\ pending_valid' = pending_valid
      BY <1>1 DEF Forward, StartWith
    <2>2. Starting' = <<rx_data>> /\ Waiting' = <<>> /\ Waiting = <<>> /\ StillOnLine = <<>>
      BY <2>1, Zenon DEF Starting, Waiting, StillOnLine, Maybe
    <2>3. Cat(Cat(<<rx_data>>, <<>>), <<>>) = Cat(<<>>, <<rx_data>>)
      <3>1. <<rx_data>> \in Seq({rx_data})
        OBVIOUS
      <3> QED BY <3>1, Nothing
    <2> QED BY <1>1, <2>1, <2>2, <2>3, Zenon
  <1>2. CASE Forward /\ ~tx_ready
    <2>1. /\ rx_valid /\ ~pending_valid /\ ~tx_start /\ OnLine = <<rx_data>>
          /\ tx_start' = FALSE /\ tx_data' = tx_data
          /\ pending_data' = rx_data /\ pending_valid' = TRUE
      BY <1>2 DEF Forward, NoStart
    <2>2. Starting' = <<>> /\ Waiting' = <<rx_data>> /\ Waiting = <<>> /\ StillOnLine = <<>>
      BY <2>1, Zenon DEF Starting, Waiting, StillOnLine, Maybe
    <2>3. Cat(Cat(<<>>, <<rx_data>>), <<>>) = Cat(<<>>, <<rx_data>>)
      <3>1. <<rx_data>> \in Seq({rx_data})
        OBVIOUS
      <3> QED BY <3>1, Nothing
    <2> QED BY <1>2, <2>1, <2>2, <2>3, Zenon
  <1>3. CASE SendPending
    <2>1. /\ ~rx_valid /\ pending_valid /\ ~tx_start /\ tx_ready
          /\ tx_start' = TRUE /\ tx_data' = pending_data
          /\ pending_data' = pending_data /\ pending_valid' = FALSE
      BY <1>3 DEF SendPending, StartWith
    <2>2. /\ Starting' = <<pending_data>> /\ Waiting' = <<>> /\ Waiting = <<pending_data>>
          /\ StillOnLine = OnLine
      BY <2>1, Zenon DEF Starting, Waiting, StillOnLine, Maybe
    <2>3. Cat(<<pending_data>>, <<>>) = <<pending_data>>
      <3>1. <<pending_data>> \in Seq({pending_data})
        OBVIOUS
      <3> QED BY <3>1, Nothing
    <2> QED BY <2>1, <2>2, <2>3, Zenon
  <1>4. CASE NothingToSend
    <2>1. /\ ~rx_valid /\ ~(tx_ready /\ pending_valid)
          /\ tx_start' = FALSE /\ tx_data' = tx_data
          /\ pending_data' = pending_data /\ pending_valid' = pending_valid
      BY <1>4 DEF NothingToSend, NoStart
    <2>2. Starting' = <<>> /\ Waiting' = Waiting /\ StillOnLine = OnLine
      BY <2>1, Zenon DEF Starting, Waiting, StillOnLine, Maybe
    <2>3. Cat(<<>>, Waiting) = Waiting
      <3>1. Waiting \in Seq(Held)
        BY Places
      <3> QED BY <3>1, Nothing
    <2> QED BY <2>1, <2>2, <2>3, Zenon
  <1> QED BY <1>1, <1>2, <1>3, <1>4, Zenon DEF ProbeClock

\* What is owed after a clock, without what is sent in it.
LEMMA TakenIs ==
  ASSUME EchoInv
  PROVE  /\ Taken = StillOnWire \o Starting \o Waiting \o OnLine
         /\ Taken \in Seq(Held) /\ Len(Taken) \in Nat /\ Len(Taken) <= Len(owed)
         /\ far_valid => owed # <<>> /\ Head(owed) = data_reg
  <1>1. owed = OnWire \o Starting \o Waiting \o OnLine
    BY DEF EchoInv
  <1>2. owed \in Seq(Held) /\ Len(owed) \in Nat
    BY TwoOwed
  <1>3. CASE far_valid
    <2>1. OnWire = <<data_reg>> /\ StillOnWire = <<>>
      BY <1>3, Zenon DEF OnWire, Maybe, StillOnWire
    <2>2. data_reg \in Held
      BY DEF Held
    <2>3. /\ Starting \in Seq(Held) /\ Waiting \in Seq(Held) /\ OnLine \in Seq(Held)
      BY Places
    <2> HIDE DEF Held
    <2>4. /\ Head(owed) = data_reg /\ owed # <<>>
          /\ Tail(owed) = <<>> \o Starting \o Waiting \o OnLine
      <3>1. owed = Row(<<data_reg>>, Starting, Waiting, OnLine)
        BY <1>1, <2>1 DEF Row
      <3>2. FirstTaken(data_reg, Starting, Waiting, OnLine)
        BY <2>2, <2>3, FirstOfFour
      <3> QED BY <3>1, <3>2, Zenon DEF FirstTaken, Row
    <2>5. Taken = Tail(owed)
      BY <1>3, <2>4 DEF Taken
    <2>6. Tail(owed) \in Seq(Held) /\ Len(Tail(owed)) = Len(owed) - 1
      BY <1>2, <2>4, HeadTailProperties
    <2>7. Len(Tail(owed)) \in Nat
      BY <2>6, LenProperties
    <2>8. Len(Taken) \in Nat /\ Len(Taken) <= Len(owed)
      BY <1>2, <2>5, <2>6, <2>7
    <2> QED BY <2>1, <2>4, <2>5, <2>6, <2>8, Zenon
  <1>4. CASE ~far_valid
    <2>1. Taken = owed /\ StillOnWire = OnWire
      BY <1>4, Zenon DEF Taken, StillOnWire
    <2> QED BY <1>1, <1>2, <1>4, <2>1
  <1> QED BY <1>3, <1>4

\* The places of the next clock hold what is owed then.
LEMMA OwedMoves ==
  ASSUME EchoInv, NEW c, NEW sent, sent = <<>> \/ sent = <<c>>,
         Cat(Cat(Starting', Waiting'), StillOnLine) = Cat(Waiting, OnLine),
         OnWire' = Cat(StillOnWire, Starting), OnLine' = Cat(StillOnLine, sent),
         owed' = Cat(Taken, sent)
  PROVE  owed' = OnWire' \o Starting' \o Waiting' \o OnLine'
  <1> DEFINE T == {data_reg, tx_data, pending_data, sending, rx_data, c,
                   data_reg', tx_data', pending_data'}
  <1>1. /\ Starting' \in Seq(T) /\ Waiting' \in Seq(T) /\ OnWire' \in Seq(T)
    BY MaybeOne DEF Starting, Waiting, OnWire
  <1>2. Waiting \in Seq(T)
    BY MaybeOne DEF Waiting
  <1>3. OnLine \in Seq(T) /\ StillOnLine \in Seq(T)
    <2>1. OnLine = Maybe(slot \in 0 .. 9 /\ Age <= Reported, sending)
      BY DEF OnLine, Maybe
    <2>2. OnLine \in Seq(T)
      BY <2>1, MaybeOne
    <2>3. <<>> \in Seq(T)
      OBVIOUS
    <2> QED BY <2>2, <2>3 DEF StillOnLine
  <1>4. sent \in Seq(T)
    <2>1. <<>> \in Seq(T) /\ <<c>> \in Seq(T)
      OBVIOUS
    <2> QED BY <2>1
  <1>5. Taken = Cat(Cat(OnWire', Waiting), OnLine)
    BY TakenIs DEF Cat
  <1> HIDE DEF T
  <1>6. Regrouped(OnWire', Starting', Waiting', StillOnLine, Waiting, OnLine, sent)
    BY <1>1, <1>2, <1>3, <1>4, Regroup
  <1>7. owed' = Cat(Cat(Cat(OnWire', Starting'), Waiting'), OnLine')
    BY <1>5, <1>6, Zenon DEF Regrouped
  <1> QED BY <1>7 DEF Cat

\* The sender sends nothing in a clock or one character, if it may.
LEMMA SenderGoes ==
  ASSUME Ahead <= 2, EchoInv, EchoClock
  PROVE  /\ SenderTypes' /\ InStep'
         /\ \E c, sent :
               /\ sent = <<>> \/ sent = <<c>>
               /\ OnLine' = Cat(StillOnLine, sent) /\ owed' = Cat(Taken, sent)
               /\ sent = <<>> /\ OnLine' # <<>> => Age' = Age + 1
               /\ sent # <<>> => Age' = 0 /\ Len(owed) < 2 /\ StillOnLine = <<>>
         /\ Len(owed') <= 2
  <1>1. RxTypes(Near) /\ SenderTypes /\ RxClock(line) /\ Ready
    BY DEF EchoInv, EchoClock, Ready, InStep, InPause
  <1>2. SenderTypes'
    BY <1>1, SenderTypesKept DEF EchoClock
  <1>3. /\ Taken \in Seq(Held) /\ Len(Taken) \in Nat /\ Len(Taken) <= Len(owed)
        /\ Len(owed) \in Nat /\ Len(owed) <= 2
    BY TakenIs, TwoOwed DEF EchoInv
  <1>4. StillOnLine \in Seq(Held)
    BY Places DEF StillOnLine
  <1>5. CASE SendsNothing /\ owed' = Taken
    <2>1. /\ InStep' /\ OnLine' = StillOnLine
          /\ slot' \in 0 .. 9 => Age' = Age + 1
      BY <1>1, <1>2, <1>5, NothingSent
    <2>2. OnLine' # <<>> => slot' \in 0 .. 9
      BY DEF OnLine
    <2>3. Cat(StillOnLine, <<>>) = StillOnLine /\ Cat(Taken, <<>>) = Taken
      <3> HIDE DEF Held
      <3> QED BY <1>3, <1>4, Nothing
    <2>4. Len(owed') <= 2
      BY <1>3, <1>5
    <2>5. /\ OnLine' = Cat(StillOnLine, <<>>) /\ owed' = Cat(Taken, <<>>)
          /\ OnLine' # <<>> => Age' = Age + 1
      BY <1>5, <2>1, <2>2, <2>3, Zenon
    <2> QED BY <1>2, <2>1, <2>4, <2>5, Zenon
  <1>6. ASSUME NEW c \in Characters, Len(owed) < Ahead, Sends(c), owed' = Append(Taken, c)
        PROVE  /\ InStep' /\ OnLine' = Cat(StillOnLine, <<c>>) /\ owed' = Cat(Taken, <<c>>)
               /\ Age' = 0 /\ Len(owed) < 2 /\ StillOnLine = <<>> /\ Len(owed') <= 2
    <2>1. InStep' /\ StillOnLine = <<>> /\ OnLine' = <<c>> /\ Age' = 0
      BY <1>1, <1>2, <1>6, OneSent
    <2>2. Cat(<<>>, <<c>>) = <<c>>
      <3>1. <<c>> \in Seq({c})
        OBVIOUS
      <3> QED BY <3>1, Nothing
    <2> DEFINE T == Held \cup {c}
    <2>3. Taken \in Seq(T) /\ c \in T
      <3>1. Held \subseteq T /\ c \in T
        OBVIOUS
      <3> HIDE DEF T, Held
      <3> QED BY <1>3, <3>1, SeqMonotonic
    <2> HIDE DEF T, Held
    <2>4. Append(Taken, c) = Cat(Taken, <<c>>)
      BY <2>3, AppendIsConcat DEF Cat
    <2>5. Len(Append(Taken, c)) = Len(Taken) + 1
      BY <2>3, AppendProperties
    <2>6. Len(owed) < 2
      BY <1>3, <1>6, AheadAssumption
    <2>7. Len(owed') <= 2
      BY <1>3, <1>6, <2>5, <2>6
    <2> QED BY <1>6, <2>1, <2>2, <2>4, <2>6, <2>7
  <1>7. CASE \E c \in Characters : Len(owed) < Ahead /\ Sends(c) /\ owed' = Append(Taken, c)
    <2>1. PICK c \in Characters :
                  Len(owed) < Ahead /\ Sends(c) /\ owed' = Append(Taken, c)
      BY <1>7
    <2>2. /\ InStep' /\ OnLine' = Cat(StillOnLine, <<c>>) /\ owed' = Cat(Taken, <<c>>)
          /\ Age' = 0 /\ Len(owed) < 2 /\ StillOnLine = <<>> /\ Len(owed') <= 2
      BY <1>6, <2>1
    <2>3. <<c>> # <<>>
      OBVIOUS
    <2> QED BY <1>2, <2>2, <2>3, Zenon
  <1> QED BY <1>5, <1>7 DEF EchoClock

\* The waiting place is free again in time.
LEMMA WaitsOn ==
  ASSUME Ahead <= 2, EchoInv, EchoClock
  PROVE  WaitsInTime'
  <1>1. /\ SenderTypes /\ TxTypes /\ RxTypes(Near) /\ RxTypes(FarEnd) /\ InStep
        /\ Sending \/ Silent
        /\ tx_start \in BOOLEAN /\ pending_valid \in BOOLEAN
        /\ IsFrame(tx_data) /\ IsFrame(pending_data) /\ WaitsInTime
    BY DEF EchoInv
  <1>2. /\ TxClock(IF tx_start THEN {tx_data} ELSE {})
        /\ Far!RxClock(tx) /\ ProbeClock
    BY DEF EchoClock
  <1>3. /\ tx_start => tx_ready /\ ~pending_valid
        /\ pending_valid /\ OnWire = <<>> /\ OnLine # <<>> => Age < TxAge - (Reported + 1)
    BY <1>1 DEF WaitsInTime
  <1>4. rx_valid => ~pending_valid /\ ~tx_start /\ OnLine = <<rx_data>>
    BY <1>1, <1>2, NoCollision, ReportsOnLine
  <1>5. /\ tx_start => StillOnWire = <<>> /\ OnWire' = <<tx_data>>
        /\ ~tx_start => OnWire' = StillOnWire
        /\ tx_ready /\ ~tx_start => tx_ready' /\ ~far_valid' /\ OnWire' = <<>>
        /\ ~tx_ready => /\ TxAge \in Nat /\ TxAge' = TxAge + 1
                        /\ StillOnWire = <<>> => TxAge > Reported
                        /\ OnWire = <<>> => TxAge > Reported + 1
    BY <1>1, <1>2, <1>3, WireGoes
  <1>6. /\ tx_start' => /\ ~pending_valid' /\ tx_ready /\ ~tx_start
                        /\ rx_valid \/ pending_valid
        /\ pending_valid' => ~tx_ready /\ (rx_valid \/ pending_valid)
    BY <1>1, <1>2, <1>3, <1>4, ProbePasses DEF RxTypes, Near
  <1>7. PICK c, sent :
               /\ sent = <<>> \/ sent = <<c>>
               /\ OnLine' = Cat(StillOnLine, sent) /\ owed' = Cat(Taken, sent)
               /\ sent = <<>> /\ OnLine' # <<>> => Age' = Age + 1
               /\ sent # <<>> => Age' = 0 /\ Len(owed) < 2 /\ StillOnLine = <<>>
    BY SenderGoes
  <1>8. sent = <<>> /\ OnLine' # <<>> => Age' = Age + 1 /\ ~rx_valid /\ OnLine # <<>>
    <2>1. Cat(<<>>, <<>>) = <<>>
      BY DEF Cat
    <2> QED BY <1>7, <2>1, Zenon DEF StillOnLine
  <1>9. /\ pending_valid /\ OnWire # <<>> => Len(owed) >= 2 /\ OnLine = <<>>
        /\ Len(owed) \in Nat
    BY TwoOwed
  <1> PICK h \in Nat : h = HALF_DELAY
    BY <1>1, BitTimeAgrees DEF Agree
  <1> PICK d \in Nat : d = DELAY_FRAMES
    BY <1>1, BitTimeAgrees DEF Agree
  <1> PICK r \in Nat : r = Reported /\ r = h + 9 * d + 3
    BY DEF Reported
  <1>10. d > 0 /\ Reported' = r /\ DELAY_FRAMES' = d
    BY SerialParameters DEF Reported, HALF_DELAY
  <1>11. OnLine # <<>> => Age \in Nat
    BY <1>1, LineInFrame DEF OnLine
  <1>12. ASSUME pending_valid', OnWire' = <<>>, OnLine' # <<>>
         PROVE  Age' < TxAge' - (r + 1)
    <2>1. ~tx_ready /\ (rx_valid \/ pending_valid)
      BY <1>6, <1>12
    <2>2. ~tx_start /\ StillOnWire = <<>>
      BY <1>3, <1>5, <1>12, <2>1
    <2>3. TxAge \in Nat /\ TxAge' = TxAge + 1 /\ TxAge > r
      BY <1>5, <2>1, <2>2
    <2>4. CASE sent # <<>>
      <3>1. Age' = 0 /\ Len(owed) < 2
        BY <1>7, <2>4
      <3>2. ~rx_valid => TxAge > r + 1
        <4>1. ~rx_valid => pending_valid
          BY <2>1
        <4>2. pending_valid => OnWire = <<>>
          BY <1>9, <3>1
        <4> QED BY <1>5, <2>1, <4>1, <4>2
      <3>3. CASE rx_valid
        <4>1. TxAge' - (r + 1) > 0
          BY <2>3
        <4> QED BY <3>1, <4>1
      <3>4. CASE ~rx_valid
        <4>1. TxAge' - (r + 1) > 0
          BY <2>3, <3>2, <3>4
        <4> QED BY <3>1, <4>1
      <3> QED BY <3>3, <3>4
    <2>5. CASE sent = <<>>
      <3>1. Age' = Age + 1 /\ ~rx_valid /\ OnLine # <<>>
        BY <1>8, <1>12, <2>5
      <3>2. pending_valid /\ OnWire = <<>>
        BY <1>9, <2>1, <3>1
      <3>3. Age < TxAge - (r + 1) /\ Age \in Nat
        BY <1>3, <1>11, <3>1, <3>2
      <3> QED BY <2>3, <3>1, <3>3
    <2> QED BY <2>4, <2>5
  <1>13. ASSUME tx_start', OnLine' # <<>>
         PROVE  Age' < d
    <2>1. ~pending_valid' /\ tx_ready /\ ~tx_start /\ (rx_valid \/ pending_valid)
      BY <1>6, <1>13
    <2>2. CASE sent # <<>>
      BY <1>7, <1>10, <2>2
    <2>3. CASE sent = <<>>
      <3>1. Age' = Age + 1 /\ ~rx_valid /\ OnLine # <<>>
        BY <1>8, <1>13, <2>3
      <3>2. pending_valid /\ OnWire = <<>>
        BY <1>9, <2>1, <3>1
      <3>3. Age < TxAge - (r + 1) /\ Age \in Nat
        BY <1>3, <1>11, <3>1, <3>2
      <3>4. TxAge = 10 * d
        BY <2>1, TxAges DEF tx_ready
      <3> QED BY <3>1, <3>3, <3>4
    <2> QED BY <2>2, <2>3
  <1>14. tx_start' => tx_ready' /\ ~pending_valid' /\ ~far_valid'
    BY <1>5, <1>6
  <1> QED BY <1>10, <1>12, <1>13, <1>14 DEF WaitsInTime

\* Every clock keeps the invariant of the probe.
LEMMA EchoClockKeeps ==
  ASSUME Ahead <= 2, EchoInv, EchoClock
  PROVE  EchoInv'
  <1>1. /\ SenderTypes /\ TxTypes /\ RxTypes(Near) /\ RxTypes(FarEnd) /\ InStep
        /\ Sending \/ Silent
        /\ tx_start \in BOOLEAN /\ pending_valid \in BOOLEAN
        /\ IsFrame(tx_data) /\ IsFrame(pending_data) /\ IsFrame(rx_data)
        /\ tx_start => tx_ready /\ ~pending_valid
    BY DEF EchoInv, WaitsInTime, RxTypes, Near
  <1>2. /\ TxClock(IF tx_start THEN {tx_data} ELSE {})
        /\ Far!RxClock(tx) /\ ProbeClock /\ RxClock(line)
    BY DEF EchoClock
  <1>3. rx_valid => ~pending_valid /\ ~tx_start /\ OnLine = <<rx_data>>
    BY <1>1, <1>2, NoCollision, ReportsOnLine
  <1>4. /\ TxTypes' /\ RxTypes(FarEnd') /\ (Sending' \/ Silent')
        /\ tx_start => StillOnWire = <<>> /\ OnWire' = <<tx_data>>
        /\ ~tx_start => OnWire' = StillOnWire
    BY <1>1, <1>2, WireGoes
  <1>5. /\ tx_start' \in BOOLEAN /\ pending_valid' \in BOOLEAN
        /\ IsFrame(tx_data') /\ IsFrame(pending_data')
        /\ Cat(Cat(Starting', Waiting'), StillOnLine) = Cat(Waiting, OnLine)
    BY <1>1, <1>2, <1>3, ProbePasses
  <1>6. RxTypes(Near')
    BY <1>1, <1>2, RxTypesKept, NearSteps
  <1>7. /\ SenderTypes' /\ InStep' /\ Len(owed') <= 2
        /\ \E c, sent : /\ sent = <<>> \/ sent = <<c>>
                        /\ OnLine' = Cat(StillOnLine, sent) /\ owed' = Cat(Taken, sent)
    BY SenderGoes
  <1>8. OnWire' = Cat(StillOnWire, Starting)
    <2>1. CASE tx_start
      <3>1. Starting = <<tx_data>>
        BY <2>1, Places
      <3>2. <<tx_data>> \in Seq({tx_data})
        OBVIOUS
      <3>3. Cat(<<>>, <<tx_data>>) = <<tx_data>>
        BY <3>2, Nothing
      <3> QED BY <1>4, <2>1, <3>1, <3>3, Zenon
    <2>2. CASE ~tx_start
      <3>1. Starting = <<>>
        BY <2>2, Places
      <3>2. StillOnWire \in Seq(Held)
        <4>1. OnWire \in Seq(Held) /\ <<>> \in Seq(Held)
          BY Places
        <4> QED BY <4>1 DEF StillOnWire
      <3>3. Cat(StillOnWire, <<>>) = StillOnWire
        BY <3>2, Nothing
      <3> QED BY <1>4, <2>2, <3>1, <3>3, Zenon
    <2> QED BY <2>1, <2>2
  <1>9. owed' = OnWire' \o Starting' \o Waiting' \o OnLine'
    BY <1>5, <1>7, <1>8, OwedMoves
  <1>10. WaitsInTime'
    BY WaitsOn
  <1> QED BY <1>4, <1>5, <1>6, <1>7, <1>9, <1>10 DEF EchoInv

\* A character that comes back is the oldest that is owed.
LEMMA EchoIsOwed == ASSUME EchoInv PROVE EchoesInOrder
  <1> SUFFICES ASSUME far_valid PROVE owed # <<>> /\ far_data = Head(owed)
    BY DEF EchoesInOrder
  <1>1. owed # <<>> /\ Head(owed) = data_reg
    BY TakenIs
  <1>2. /\ SenderTypes /\ TxTypes /\ RxTypes(FarEnd) /\ (Sending \/ Silent)
    BY DEF EchoInv
  <1>3. far_data = data_reg
    <2>1. CASE Sending
      <3>1. TxAge \in Nat
        BY <1>2, <2>1, TxAgeTyped DEF Sending
      <3> QED BY <1>2, <2>1, <3>1, FarReports
    <2>2. CASE Silent
      BY <2>2 DEF Silent
    <2> QED BY <1>2, <2>1, <2>2
  <1> QED BY <1>1, <1>3

\* The invariant of the echo. A sender that keeps at most two characters ahead is
\* what it takes.
LEMMA EchoInvariant == ASSUME Ahead <= 2 PROVE EchoSpec => []EchoInv
  <1>1. EchoInit => EchoInv
    <2> SUFFICES ASSUME EchoInit PROVE EchoInv
      OBVIOUS
    <2>1. RxTypes(Near) /\ RxTypes(FarEnd) /\ SenderTypes /\ TxTypes
      BY SenderParameters DEF EchoInit, RxInit, SenderInit, TxInit, Far!RxInit, RxTypes,
         Near, FarEnd, SenderTypes, TxTypes, IsFrame, NoBits, Far!NoBits, PAUSE
    <2>2. InStep /\ OnLine = <<>>
      BY DEF EchoInit, RxInit, SenderInit, InStep, InPause, Calms, OnLine, PAUSE
    <2>3. Silent
      BY DEF EchoInit, TxInit, Far!RxInit, Silent, tx_ready
    <2>4. /\ tx_start = FALSE /\ pending_valid = FALSE /\ far_valid = FALSE /\ owed = <<>>
          /\ tx_ready /\ IsFrame(tx_data) /\ IsFrame(pending_data)
      BY DEF EchoInit, TxInit, Far!RxInit, tx_ready, IsFrame, NoBits
    <2>5. OnWire = <<>> /\ Starting = <<>> /\ Waiting = <<>>
      BY <2>4, Zenon DEF OnWire, Starting, Waiting, Maybe
    <2>6. owed = OnWire \o Starting \o Waiting \o OnLine /\ Len(owed) <= 2
      <3>1. <<>> = <<>> \o <<>> \o <<>> \o <<>> /\ Len(<<>>) <= 2
        OBVIOUS
      <3> QED BY <2>2, <2>4, <2>5, <3>1
    <2>7. WaitsInTime
      BY <2>4 DEF WaitsInTime
    <2> QED BY <2>1, <2>2, <2>3, <2>4, <2>6, <2>7 DEF EchoInv
  <1>2. EchoInv /\ UNCHANGED echoVars => EchoInv'
    <2> SUFFICES ASSUME EchoInv, UNCHANGED echoVars PROVE EchoInv'
      OBVIOUS
    <2>1. /\ UNCHANGED rxVars /\ UNCHANGED farVars /\ UNCHANGED senderVars
          /\ UNCHANGED txVars /\ UNCHANGED <<tx_start, tx_data, owed>>
          /\ UNCHANGED <<pending_valid, pending_data>>
      BY DEF echoVars
    <2>2. /\ Near' = Near /\ FarEnd' = FarEnd /\ Age' = Age /\ TxAge' = TxAge
          /\ tx_ready' = tx_ready /\ Reported' = Reported
      BY <2>1 DEF rxVars, farVars, senderVars, txVars, Near, FarEnd, Age, TxAge, tx_ready,
         Reported, HALF_DELAY
    <2>3. SenderTypes' /\ TxTypes' /\ IsFrame(tx_data') /\ IsFrame(pending_data')
      BY <2>1 DEF senderVars, txVars, EchoInv, SenderTypes, TxTypes, IsFrame
    <2>4. InStep' /\ OnLine' = OnLine
      BY <2>1, <2>2 DEF rxVars, senderVars, EchoInv, InStep, InFrame, InPause, InNoise,
         OnLine, Calms, NoiseAt, NoisyAt, HALF_DELAY
    <2>5. Sending' \/ Silent'
      BY <2>1, <2>2 DEF farVars, txVars, EchoInv, Sending, Silent
    <2>6. OnWire' = OnWire /\ Starting' = Starting /\ Waiting' = Waiting
      BY <2>1, <2>2 DEF farVars, txVars, OnWire, Starting, Waiting
    <2>7. WaitsInTime'
      BY <2>1, <2>2, <2>4, <2>6 DEF farVars, EchoInv, WaitsInTime
    <2> QED BY <2>1, <2>2, <2>3, <2>4, <2>5, <2>6, <2>7 DEF EchoInv
  <1> QED BY <1>1, <1>2, EchoClockKeeps, PTL DEF EchoSpec

\* The characters that a sender sends come back as they were sent, in their order
\* and each of them once, at every speed of the probe, for every sender within the
\* tolerance, its pauses and disturbances, if it keeps at most two characters
\* ahead: the place for one waiting character is then enough.
THEOREM EchoesComeBack == ASSUME Ahead <= 2 PROVE EchoSpec => []EchoesInOrder
  BY EchoInvariant, EchoIsOwed, PTL

\* The probe has passed on everything that it has been sent, and the line back has
\* brought it.
AtRest == /\ slot = PAUSE
          /\ ~tx_start /\ ~pending_valid
          /\ tx_ready /\ ~far_valid

KeepsNothing == AtRest => owed = <<>>

\* The safety half of EchoComes: when sender, probe and line are at rest no
\* character is owed any more, so that none is lost or left in the waiting place.
THEOREM EchoLosesNothing == ASSUME Ahead <= 2 PROVE EchoSpec => []KeepsNothing
  <1>1. EchoInv => KeepsNothing
    <2> SUFFICES ASSUME EchoInv, AtRest PROVE owed = <<>>
      BY DEF KeepsNothing
    <2>1. ~far_valid /\ tx_ready /\ ~tx_start /\ ~pending_valid /\ slot = PAUSE
      BY DEF AtRest
    <2>2. OnWire = <<>> /\ Starting = <<>> /\ Waiting = <<>>
      BY <2>1, Zenon DEF OnWire, Starting, Waiting, Maybe
    <2>3. OnLine = <<>>
      BY <2>1 DEF OnLine, PAUSE
    <2>4. owed = OnWire \o Starting \o Waiting \o OnLine
      BY DEF EchoInv
    <2>5. <<>> = <<>> \o <<>> \o <<>> \o <<>>
      OBVIOUS
    <2> QED BY <2>2, <2>3, <2>4, <2>5
  <1> QED BY <1>1, EchoInvariant, PTL
-----------------------------------------------------------------------------
\* Positions of the beam.
Beams == [en : BOOLEAN, x : Int, y : Int]

\* c is the position one clock after b.
Follows(b, c) == c.en /\ c.x > 0 => b.en /\ b.x = c.x - 1 /\ b.y = c.y

\* The word that the port reads, and the window in which it is shown.
Requested(b) ==
    /\ b.en
    /\ b.x \in REQUEST_X_START .. REQUEST_X_END
    /\ b.y \in Y_MARGIN .. REQUEST_Y_END

Address(b) == (((b.y - Y_MARGIN) \div 2) % 128) * FB_WIDTH
              + (((b.x - REQUEST_X_START) \div 2) % 128)

Fetched(b) ==
    IF Requested(b) /\ Address(b) < FB_WIDTH * FB_HEIGHT THEN {Address(b)} ELSE {}

InWindow(c) ==
    /\ c.en
    /\ c.x \in X_MARGIN .. X_MARGIN + FB_WIDTH * SCALE
    /\ c.y \in Y_MARGIN .. Y_MARGIN + FB_HEIGHT * SCALE

Cell(b)  == <<b.x \div CHAR_SIZE, b.y \div CHAR_SIZE>>
Point(b) == <<b.x % CHAR_SIZE, b.y % CHAR_SIZE>>

Newest == beams[Len(beams)]

Counters == pixel_count \in 0 .. 1023 /\ line_count \in 0 .. 511

\* What is in the registers of the first stage belongs to the newest position
\* behind the beam, what is in those of the second to the one before it.
FirstStage ==
    /\ Follows(Newest, Beam)
    /\ video_pixel = Fetched(Newest)
    /\ request_en = Newest.en
    /\ Newest.en => cell_read = Cell(Newest) /\ request_glyph = Point(Newest)

SecondStage ==
    /\ lcd_rgb = WordAt(beams[2])
    /\ render_en = beams[1].en
    /\ beams[1].en => cell_read_data = Cell(beams[1]) /\ render_glyph = Point(beams[1])

VideoInv ==
    /\ Counters
    /\ beams \in Seq(Beams) /\ Len(beams) <= 2
    /\ beams # <<>> => FirstStage
    /\ Len(beams) = 2 => SecondStage

\* The addresses of the words of the framebuffer are below its size.
LEMMA AddressBelow ==
  ASSUME NEW w \in Nat, NEW h \in Nat, NEW row \in 0 .. h - 1, NEW col \in 0 .. w - 1
  PROVE  row * w + col < w * h
  <1> PICK k \in Nat : h = row + 1 + k
    <2>1. h - row - 1 \in Nat /\ h = row + 1 + (h - row - 1)
      OBVIOUS
    <2> QED BY <2>1
  <1>1. w * h = row * w + w + w * k
    OBVIOUS
  <1>2. w * k \in Nat
    OBVIOUS
  <1>3. row * w \in Nat /\ col < w
    OBVIOUS
  <1> QED BY <1>1, <1>2, <1>3

\* Half of a distance within a picture of n words counts one of its words, and
\* seven bits hold it.
LEMMA Halved ==
  ASSUME NEW n \in 1 .. 128, NEW d \in Int, 0 <= d, d <= 2 * n - 1
  PROVE  d \div 2 \in 0 .. n - 1 /\ (d \div 2) % 128 = d \div 2
  <1>1. d \div 2 \in 0 .. n - 1
    OBVIOUS
  <1> PICK q \in 0 .. 127 : q = d \div 2
    BY <1>1
  <1>2. q % 128 = q
    OBVIOUS
  <1> QED BY <1>1, <1>2

\* The prefetch makes up for the latency of the port, at the edges too.
LEMMA PrefetchFits ==
  ASSUME NEW b \in Beams, NEW c \in Beams, Follows(b, c)
  PROVE  (IF InWindow(c) THEN Fetched(b) ELSE {}) = WordAt(c)
  <1>1. /\ FB_WIDTH \in 1 .. 128 /\ FB_HEIGHT \in 1 .. 128
        /\ X_MARGIN \in Nat /\ X_MARGIN > 0 /\ Y_MARGIN \in Nat
    BY VideoParameters
  <1>2. b.x \in Int /\ b.y \in Int /\ c.x \in Int /\ c.y \in Int
    BY DEF Beams
  <1> PICK w \in 1 .. 128 : w = FB_WIDTH
    BY <1>1
  <1> PICK h \in 1 .. 128 : h = FB_HEIGHT
    BY <1>1
  <1> PICK dx \in Int : dx = c.x - X_MARGIN
    BY <1>1, <1>2
  <1> PICK dy \in Int : dy = c.y - Y_MARGIN
    BY <1>1, <1>2
  <1> DEFINE inside == c.en /\ dx \in 0 .. 2 * w - 1 /\ dy \in 0 .. 2 * h - 1
             edge   == c.en /\ dx \in 0 .. 2 * w /\ dy \in 0 .. 2 * h
  <1>3. InWindow(c) <=> edge
    BY <1>1, <1>2 DEF InWindow, SCALE
  <1>4. WordAt(c) = IF inside THEN {(dy \div 2) * w + (dx \div 2)} ELSE {}
    <2>1. inside <=> /\ c.en
                     /\ c.x \in X_MARGIN .. X_MARGIN + SCALE * FB_WIDTH - 1
                     /\ c.y \in Y_MARGIN .. Y_MARGIN + SCALE * FB_HEIGHT - 1
      BY <1>1, <1>2 DEF SCALE
    <2> HIDE DEF inside
    <2> QED BY <2>1 DEF WordAt, SCALE
  <1>5. ASSUME edge
        PROVE  /\ b.en /\ b.x - REQUEST_X_START = dx /\ b.y - Y_MARGIN = dy
               /\ Requested(b) <=> inside
    <2>1. c.en /\ c.x > 0
      BY <1>1, <1>2, <1>5
    <2>2. b.en /\ b.x = c.x - 1 /\ b.y = c.y
      BY <2>1 DEF Follows
    <2>3. b.x - REQUEST_X_START = dx /\ b.y - Y_MARGIN = dy
      BY <1>1, <1>2, <2>2 DEF REQUEST_X_START, PREFETCH_PIXELS
    <2>4. Requested(b) <=> inside
      BY <1>1, <1>2, <1>5, <2>2 DEF Requested, REQUEST_X_START, REQUEST_X_END,
         REQUEST_Y_END, PREFETCH_PIXELS, SCALE
    <2> QED BY <2>2, <2>3, <2>4
  <1>6. CASE inside
    <2>1. edge
      BY <1>6
    <2>2. /\ dx \div 2 \in 0 .. w - 1 /\ (dx \div 2) % 128 = dx \div 2
          /\ dy \div 2 \in 0 .. h - 1 /\ (dy \div 2) % 128 = dy \div 2
      BY <1>6, Halved
    <2>3. Address(b) = (dy \div 2) * w + (dx \div 2)
      BY <1>5, <2>1, <2>2 DEF Address
    <2>4. (dy \div 2) * w + (dx \div 2) < w * h
      BY <2>2, AddressBelow
    <2>5. Requested(b)
      BY <1>5, <1>6, <2>1
    <2>6. Fetched(b) = {(dy \div 2) * w + (dx \div 2)}
      BY <2>3, <2>4, <2>5 DEF Fetched
    <2> HIDE DEF inside, edge
    <2> QED BY <1>3, <1>4, <1>6, <2>1, <2>6
  <1>7. CASE ~inside
    <2>1. InWindow(c) => ~Requested(b)
      BY <1>3, <1>5, <1>7
    <2>2. InWindow(c) => Fetched(b) = {}
      BY <2>1 DEF Fetched
    <2> HIDE DEF inside
    <2> QED BY <1>4, <1>7, <2>2
  <1> QED BY <1>6, <1>7

\* In one line the beam goes to the right by one pixel a clock.
LEMMA BeamMoves ==
  ASSUME Counters, TimingClock
  PROVE  Counters' /\ Follows(Beam, Beam')
  <1>1. /\ H_BP \in Nat /\ V_BP \in Nat /\ H_PIXELS \in Nat /\ V_LINES \in Nat
        /\ H_TOTAL \in Int /\ V_TOTAL \in Int
    BY TimingParameters DEF H_TOTAL, V_TOTAL
  <1>2. Counters'
    <2>1. /\ \A p \in 0 .. 1023 : (p + 1) % 1024 \in 0 .. 1023
          /\ \A l \in 0 .. 511 : (l + 1) % 512 \in 0 .. 511
      OBVIOUS
    <2>2. pixel_count \in 0 .. 1023 /\ line_count \in 0 .. 511
      BY DEF Counters
    <2>3. pixel_count' = 0 \/ pixel_count' = (pixel_count + 1) % 1024
      BY DEF TimingClock
    <2>4. \/ line_count' = 0
          \/ line_count' = (line_count + 1) % 512
          \/ line_count' = line_count
      BY Zenon DEF TimingClock, NextLine
    <2>5. pixel_count' \in 0 .. 1023
      BY <2>1, <2>2, <2>3
    <2>6. line_count' \in 0 .. 511
      BY <2>1, <2>2, <2>4
    <2> QED BY <2>5, <2>6 DEF Counters
  <1>3. ASSUME lcd_en', lcd_x' > 0
        PROVE  lcd_en /\ lcd_x = lcd_x' - 1 /\ lcd_y = lcd_y'
    <2>1. /\ pixel_count' \in H_BP .. H_BP + H_PIXELS - 1
          /\ pixel_count' - H_BP > 0 /\ lcd_x' = pixel_count' - H_BP
          /\ LineVisible'
      BY <1>3 DEF lcd_en, lcd_x
    <2>2. pixel_count' > 0
      <3>1. pixel_count' \in Int
        BY <1>2 DEF Counters
      <3>2. \A p \in Int, q \in Nat : p - q > 0 => p > 0
        OBVIOUS
      <3> QED BY <1>1, <2>1, <3>1, <3>2
    <2>3. pixel_count' = (pixel_count + 1) % 1024 /\ line_count' = line_count
      BY <2>2 DEF TimingClock
    <2>4. pixel_count' = pixel_count + 1
      BY <2>2, <2>3 DEF Counters
    <2>5. pixel_count \in H_BP .. H_BP + H_PIXELS - 1 /\ pixel_count - H_BP = lcd_x' - 1
      BY <1>1, <2>1, <2>4 DEF Counters
    <2>6. LineVisible /\ lcd_y' = lcd_y
      BY <2>1, <2>3 DEF LineVisible, lcd_y
    <2> QED BY <2>5, <2>6 DEF lcd_en, lcd_x
  <1> QED BY <1>2, <1>3 DEF Follows, Beam

\* What the history keeps when the next position comes.
Kept(s) == IF Len(s) = 2 THEN Tail(s) ELSE s

\* It is at most one position, the newest.
LEMMA KeptAtMostOne ==
  ASSUME NEW S, NEW s \in Seq(S), Len(s) <= 2
  PROVE  /\ Kept(s) \in Seq(S) /\ Len(Kept(s)) <= 1
         /\ Len(Kept(s)) = 1 => s # <<>> /\ Kept(s)[1] = s[Len(s)]
  <1> PICK n \in Nat : n = Len(s)
    BY LenProperties
  <1>3. n <= 2
    OBVIOUS
  <1>4. s = <<>> => n = 0
    <2>1. Len(<<>>) = 0
      BY EmptySeq
    <2> QED BY <2>1
  <1>1. CASE n = 2
    <2>1. s # <<>>
      BY <1>1, <1>4
    <2> PICK r \in Seq(S) : r = Tail(s)
      BY <2>1, HeadTailProperties
    <2>2. Len(r) = Len(s) - 1 /\ \A i \in 1 .. Len(r) : r[i] = s[i + 1]
      BY <2>1, HeadTailProperties
    <2>3. Len(r) = 1
      BY <1>1, <2>2
    <2>4. ASSUME NEW i \in 1 .. 1 PROVE r[i] = s[i + 1] /\ i + 1 = 2
      BY <2>2, <2>3
    <2>5. r[1] = s[2]
      <3>1. 1 \in 1 .. 1
        OBVIOUS
      <3> QED BY <2>4, <3>1
    <2>6. Kept(s) = r
      BY <1>1 DEF Kept
    <2> QED BY <1>1, <2>1, <2>3, <2>5, <2>6
  <1>2. CASE n # 2
    <2>1. Kept(s) = s
      BY <1>2 DEF Kept
    <2>2. n = 1 => s # <<>>
      BY <1>4
    <2> QED BY <1>2, <1>3, <2>1, <2>2
  <1> QED BY <1>1, <1>2

\* The history keeps the last two positions.
LEMMA LastTwo ==
  ASSUME NEW S, NEW s \in Seq(S), Len(s) <= 2, NEW b \in S, NEW t,
         t = Append(Kept(s), b)
  PROVE  /\ t \in Seq(S) /\ Len(t) <= 2 /\ t[Len(t)] = b
         /\ Len(t) = 2 => s # <<>> /\ t[1] = s[Len(s)] /\ t[2] = b
  <1> PICK r \in Seq(S) : r = Kept(s)
    BY KeptAtMostOne
  <1> PICK m \in Nat : m = Len(r)
    BY LenProperties
  <1>3. m <= 1
    BY KeptAtMostOne
  <1>1. /\ t \in Seq(S) /\ Len(t) = m + 1 /\ t[m + 1] = b
        /\ \A k \in 1 .. m : t[k] = r[k]
    BY AppendProperties
  <1>2. m = 1 => s # <<>> /\ t[1] = s[Len(s)] /\ t[2] = b
    <2>1. ASSUME NEW k \in 1 .. 1, m = k PROVE t[k] = r[k]
      BY <1>1, <2>1
    <2>2. m = 1 => t[1] = r[1]
      BY <2>1
    <2>3. m = 1 => s # <<>> /\ r[1] = s[Len(s)]
      BY KeptAtMostOne
    <2>4. m = 1 => t[2] = b
      <3>1. m = 1 => m + 1 = 2
        OBVIOUS
      <3> QED BY <1>1, <3>1
    <2> QED BY <2>2, <2>3, <2>4
  <1> QED BY <1>1, <1>2, <1>3

\* The position of the beam is one.
LEMMA BeamTyped ==
  ASSUME Counters
  PROVE  Beam \in Beams
  <1>1. H_BP \in Nat /\ V_BP \in Nat
    BY TimingParameters
  <1>2. lcd_en \in BOOLEAN /\ lcd_x \in Int /\ lcd_y \in Int
    BY <1>1 DEF Counters, lcd_en, lcd_x, lcd_y, LineVisible
  <1> QED BY <1>2 DEF Beam, Beams

\* A clock moves what belongs to a position one stage on.
LEMMA VideoClockKeeps ==
  ASSUME VideoInv, VideoClock
  PROVE  VideoInv'
  <1>1. Counters /\ Counters' /\ Follows(Beam, Beam') /\ Beam \in Beams
    BY BeamMoves, BeamTyped DEF VideoInv, VideoClock
  <1>2. /\ beams' \in Seq(Beams) /\ Len(beams') <= 2 /\ beams'[Len(beams')] = Beam
        /\ Len(beams') = 2 => /\ beams # <<>> /\ beams'[1] = Newest
                              /\ beams'[2] = Beam
    BY <1>1, LastTwo DEF VideoInv, VideoClock, Newest, Kept
  <1>3. Newest' = Beam
    BY <1>2 DEF Newest
  <1>4. Beam.en = lcd_en /\ Beam.x = lcd_x /\ Beam.y = lcd_y
    BY DEF Beam
  <1>5. FirstStage'
    <2>1. Follows(Newest', Beam')
      BY <1>1, <1>3
    <2>2. video_pixel' = Fetched(Beam)
      BY <1>4 DEF VideoClock, FramebufferPort, Fetched, Requested, Address, video_en,
         video_addr, fb_x, fb_y
    <2>3. /\ request_en' = Beam.en
          /\ Beam.en => cell_read' = Cell(Beam) /\ request_glyph' = Point(Beam)
      BY <1>4 DEF VideoClock, RequestClock, Cell, Point
    <2> QED BY <1>3, <2>1, <2>2, <2>3 DEF FirstStage
  <1>6. ASSUME Len(beams') = 2
        PROVE  SecondStage'
    <2>1. FirstStage /\ beams'[1] = Newest /\ beams'[2] = Beam
      BY <1>2, <1>6 DEF VideoInv
    <2>2. lcd_rgb' = WordAt(Beam)
      <3>1. Newest \in Beams
        <4>1. Len(beams) \in 1 .. Len(beams)
          BY <1>2, <1>6, EmptySeq, LenProperties DEF VideoInv
        <4> QED BY <4>1, ElementOfSeq DEF Newest, VideoInv
      <3>2. lcd_rgb' = IF InWindow(Beam) THEN Fetched(Newest) ELSE {}
        BY <1>4, <2>1 DEF VideoClock, PictureClock, display_in_framebuffer, InWindow,
           FirstStage
      <3> QED BY <1>1, <2>1, <3>1, <3>2, PrefetchFits DEF FirstStage
    <2>3. /\ render_en' = Newest.en
          /\ Newest.en => cell_read_data' = Cell(Newest) /\ render_glyph' = Point(Newest)
      BY <2>1 DEF VideoClock, ConsolePort, RenderClock, FirstStage
    <2> QED BY <2>1, <2>2, <2>3 DEF SecondStage
  <1> QED BY <1>1, <1>2, <1>5, <1>6 DEF VideoInv

\* Wherever the counters start and whenever the reset button is pressed, the
\* invariant of the pipelines holds.
LEMMA VideoInvariant == VideoSpec => []VideoInv
  <1>1. VideoInit => VideoInv
    <2>1. <<>> \in Seq(Beams) /\ Len(<<>>) = 0
      BY EmptySeq
    <2> QED BY <2>1, VideoParameters DEF VideoInit, VideoInv, Counters
  <1>2. VideoInv /\ VideoReset => VideoInv'
    <2>1. <<>> \in Seq(Beams) /\ Len(<<>>) = 0
      BY EmptySeq
    <2> QED BY <2>1 DEF VideoReset, TimingReset, VideoInv, Counters
  <1>3. VideoInv /\ UNCHANGED videoVars => VideoInv'
    BY DEF videoVars, timingVars, pictureVars, textVars, VideoInv, Counters, FirstStage,
       SecondStage, Newest, Beam, lcd_en, lcd_x, lcd_y, LineVisible
  <1> QED BY <1>1, <1>2, <1>3, VideoClockKeeps, PTL DEF VideoSpec

\* Every word of the framebuffer is shown in its place and nothing beside it,
\* for every size and place of the picture, every panel and every power-on value
\* of the counters.
THEOREM PictureIsInPlace == VideoSpec => []PictureInPlace
  <1>1. VideoInv => PictureInPlace
    BY DEF VideoInv, SecondStage, PictureInPlace
  <1> QED BY <1>1, VideoInvariant, PTL

\* Every cell of the screen is shown in its place with the glyph that belongs to
\* it.
THEOREM TextIsInPlace == VideoSpec => []TextInPlace
  <1>1. VideoInv => TextInPlace
    BY DEF VideoInv, SecondStage, TextInPlace, text_pixel, PointAt, Cell, Point
  <1> QED BY <1>1, VideoInvariant, PTL

\* Lines of a frame, counted in clocks.
LEMMA LinesInClocks ==
  ASSUME NEW T \in Nat, NEW n \in Nat
  PROVE  /\ n * T \in Nat
         /\ (n + 1) * T = n * T + T
         /\ T * (n + 1) = n * T + T
         /\ 0 * T = 0
  OBVIOUS

\* From every power-on value of the counters the beam comes to the start of a
\* frame, nearer at each clock, and then at every H_TOTAL times V_TOTAL clocks,
\* for every panel.
THEOREM FrameAlwaysComesRound == VideoSpec => FrameComesRound
  <1> DEFINE Round ==
               \/ FrameLeft > 1 /\ FrameLeft' = FrameLeft - 1
               \/ /\ FrameLeft = 1 \/ VideoReset
                  /\ pixel_count' = 0 /\ line_count' = 0
                  /\ FrameLeft' = H_TOTAL * V_TOTAL
             Lines(l) == IF l < V_TOTAL THEN V_TOTAL - 1 - l ELSE 511 - l
             Clocks(p) == IF p < H_TOTAL THEN H_TOTAL - p ELSE 1024 - p + H_TOTAL
  <1>1. /\ H_TOTAL \in 1 .. 1024
        /\ V_TOTAL \in 1 .. 512
        /\ H_TOTAL \in Nat
    <2>1. /\ H_PIXELS \in 1 .. 512 /\ V_LINES \in 1 .. 512
          /\ H_FP \in Nat /\ H_BP \in Nat /\ V_FP \in Nat /\ V_BP \in Nat
          /\ H_TOTAL <= 1024 /\ V_TOTAL <= 512
      BY TimingParameters
    <2> QED BY <2>1 DEF H_TOTAL, V_TOTAL
  <1>2. Clocks(0) = H_TOTAL /\ Lines(0) = V_TOTAL - 1
    BY <1>1
  <1>3. PICK n \in Nat : n + 1 = V_TOTAL
    BY <1>1
  <1>4. H_TOTAL + Lines(0) * H_TOTAL = H_TOTAL * V_TOTAL
    <2>1. PICK p \in Nat : p = n * H_TOTAL
      BY <1>1, LinesInClocks
    <2>2. H_TOTAL * (n + 1) = p + H_TOTAL
      BY <1>1, <2>1, LinesInClocks
    <2>3. Lines(0) = n
      BY <1>2, <1>3
    <2> HIDE DEF Lines
    <2> QED BY <1>1, <1>3, <2>1, <2>2, <2>3
  <1>5. /\ FrameLeft = Clocks(pixel_count) + Lines(line_count) * H_TOTAL
        /\ FrameLeft' = Clocks(pixel_count') + Lines(line_count') * H_TOTAL
    BY DEF FrameLeft, H_TOTAL, V_TOTAL
  <1>6. ASSUME pixel_count' = 0, line_count' = 0
        PROVE  FrameLeft' = H_TOTAL * V_TOTAL
    BY <1>2, <1>4, <1>5, <1>6
  <1>7. ASSUME VideoInv, VideoClock
        PROVE  Round
    <2>1. pixel_count \in 0 .. 1023 /\ line_count \in 0 .. 511 /\ TimingClock
      BY <1>7 DEF VideoInv, Counters, VideoClock
    <2>2. PICK m \in Nat : m = Lines(line_count)
      <3>1. Lines(line_count) \in Nat
        BY <1>1, <2>1
      <3> QED BY <3>1
    <2>3. PICK r \in Nat : r = m * H_TOTAL
      <3>1. m * H_TOTAL \in Nat
        BY <1>1, <2>2, LinesInClocks
      <3> QED BY <3>1
    <2>4. FrameLeft = Clocks(pixel_count) + r
      BY <1>5, <2>2, <2>3
    <2>5. CASE pixel_count # H_TOTAL - 1
      <3>1. /\ pixel_count' = (pixel_count + 1) % 1024
            /\ line_count' = line_count
        BY <2>5, <2>1 DEF TimingClock
      <3>2. /\ Clocks(pixel_count) > 1
            /\ Clocks(pixel_count') = Clocks(pixel_count) - 1
        BY <1>1, <2>1, <2>5, <3>1
      <3>3. FrameLeft' = Clocks(pixel_count') + r
        BY <1>5, <2>2, <2>3, <3>1
      <3>4. Clocks(pixel_count) \in Nat
        BY <1>1, <2>1
      <3> HIDE DEF Clocks
      <3> QED BY <2>3, <2>4, <3>2, <3>3, <3>4
    <2>6. CASE pixel_count = H_TOTAL - 1
      <3>1. pixel_count' = 0 /\ NextLine
        BY <2>6, <2>1 DEF TimingClock
      <3>2. Clocks(pixel_count) = 1 /\ Clocks(pixel_count') = H_TOTAL
        BY <1>1, <2>6, <3>1
      <3>3. CASE m = 0
        <4>1. line_count' = 0
          BY <1>1, <2>1, <2>2, <3>1, <3>3 DEF NextLine
        <4>2. FrameLeft = 1
          BY <2>3, <2>4, <3>2, <3>3, LinesInClocks, <1>1
        <4> QED BY <1>6, <3>1, <4>1, <4>2
      <3>4. CASE m # 0
        <4>1. PICK k \in Nat : k = m - 1 /\ m = k + 1
          BY <3>4
        <4>2. Lines(line_count') = k
          <5>1. line_count # V_TOTAL - 1 /\ line_count # 511
            BY <1>1, <2>1, <2>2, <3>4
          <5>2. line_count' = (line_count + 1) % 512
            BY <3>1, <5>1 DEF NextLine
          <5>3. line_count' = line_count + 1
            BY <2>1, <5>1, <5>2
          <5> QED BY <1>1, <2>1, <2>2, <4>1, <5>1, <5>3
        <4>3. PICK s \in Nat : s = k * H_TOTAL /\ r = s + H_TOTAL
          <5>1. k * H_TOTAL \in Nat /\ (k + 1) * H_TOTAL = k * H_TOTAL + H_TOTAL
            BY <1>1, LinesInClocks
          <5> QED BY <2>3, <4>1, <5>1
        <4>4. FrameLeft' = H_TOTAL + s /\ FrameLeft = 1 + r
          BY <1>5, <2>4, <3>2, <4>2, <4>3
        <4>5. \A h \in 1 .. 1024 : 1 + (s + h) > 1 /\ h + s = (1 + (s + h)) - 1
          BY <4>3
        <4> QED BY <1>1, <4>3, <4>4, <4>5
      <3> QED BY <3>3, <3>4
    <2> QED BY <2>5, <2>6
  <1>8. ASSUME VideoReset
        PROVE  Round
    <2>1. pixel_count' = 0 /\ line_count' = 0
      BY <1>8 DEF VideoReset, TimingReset
    <2> QED BY <1>6, <1>8, <2>1
  <1>9. VideoInv /\ [VideoClock \/ VideoReset]_videoVars => [Round]_videoVars
    BY <1>7, <1>8
  <1> QED BY <1>9, VideoInvariant, PTL DEF VideoSpec, FrameComesRound
=============================================================================
