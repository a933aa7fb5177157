--------------------------- MODULE UsbTunnelProofs ---------------------------
(***************************************************************************)
(* Theorems about UsbTunnel, for any datagrams, any base and cap whose     *)
(* lengths fit four digits, any kernel buffer and any number of breaks.    *)
(*                                                                         *)
(* What is in transit from one relay to the other (in its write buffer, on *)
(* the connection and in the other's reassembly buffer) is the frames of   *)
(* the datagrams it has put on the connection and the other has not read   *)
(* (BytesInv).  So read_frame() finds a frame where the last one ended,    *)
(* and each datagram it extracts comes after those before it (NumbersInv). *)
(***************************************************************************)
EXTENDS UsbTunnel, SequenceTheorems, TLAPS

-----------------------------------------------------------------------------
(* Headers                                                                 *)

LEMMA DivMod ==
    ASSUME NEW m \in Nat \ {0}, NEW a \in Nat
    PROVE  /\ a \div m \in Nat
           /\ a = m * (a \div m) + (a % m)
           /\ a % m \in 0..(m - 1)
<1>1. a \div m \in Int /\ a = m * (a \div m) + (a % m) /\ a % m \in 0..(m - 1)
  OBVIOUS
<1>2. a \div m >= 0
  <2> SUFFICES ASSUME a \div m <= -1 PROVE FALSE
    BY <1>1
  <2>1. PICK q \in Nat : a \div m = -1 - q
    BY <1>1
  <2>2. m * (-1 - q) = -m - m * q /\ m * q >= 0
    OBVIOUS
  <2> QED
    BY <1>1, <2>1, <2>2
<1> QED
  BY <1>1, <1>2

\* A number below ByteBase * m is a number below m once its last digit is shifted out.
LEMMA ShiftedBelow ==
    ASSUME NEW b \in Nat \ {0}, NEW m \in Nat, NEW n \in Nat, n < b * m
    PROVE  n \div b < m
<1> SUFFICES ASSUME n \div b >= m PROVE FALSE
  BY DivMod
<1>1. n \div b \in Nat /\ n = b * (n \div b) + (n % b) /\ n % b >= 0
  BY DivMod
<1>2. PICK q \in Nat : n \div b = m + q
  BY <1>1
<1>3. b * (m + q) = b * m + b * q /\ b * q >= 0
  OBVIOUS
<1>4. b * m \in Nat /\ b * q \in Nat
  OBVIOUS
<1> QED
  BY <1>1, <1>2, <1>3, <1>4

LEMMA SmallDiv ==
    ASSUME NEW b \in Nat \ {0}, NEW n \in Nat, n < b
    PROVE  n % b = n
<1>1. n \div b < 1
  BY ShiftedBelow
<1>2. n \div b = 0 /\ n = b * (n \div b) + (n % b)
  BY <1>1, DivMod
<1>3. b * 0 = 0
  OBVIOUS
<1> QED
  BY <1>2, <1>3, DivMod

\* read_frame() decodes the length that write_frame() encoded, for every length below
\* the fourth power of the base.
LEMMA HeaderDecodes ==
    ASSUME NEW n \in Nat, n < ByteBase * ByteBase * ByteBase * ByteBase, NEW x,
           \A j \in 1..4 : x[j] = Header(n)[j]
    PROVE  FrameLen(x) = n
<1> DEFINE B == ByteBase
           q1 == n \div B
           q2 == q1 \div B
           q3 == q2 \div B
<1>1. B \in Nat \ {0}
  BY TunnelAssumption
<1> HIDE DEF B
<1>0. \A a \in Nat : a \div B \in Nat /\ a = B * (a \div B) + (a % B) /\ a % B \in Nat
  <2> SUFFICES ASSUME NEW a \in Nat
               PROVE  a \div B \in Nat /\ a = B * (a \div B) + (a % B) /\ a % B \in Nat
    OBVIOUS
  <2>1. a \div B \in Nat /\ a = B * (a \div B) + (a % B) /\ a % B \in 0..(B - 1)
    BY <1>1, DivMod
  <2> QED
    BY <1>1, <2>1
<1>2. q1 \in Nat /\ n = B * q1 + (n % B) /\ n % B \in Nat
  BY <1>0
<1> HIDE DEF q1
<1>3. q2 \in Nat /\ q1 = B * q2 + (q1 % B) /\ q1 % B \in Nat
  BY <1>0, <1>2
<1> HIDE DEF q2
<1>4. q3 \in Nat /\ q2 = B * q3 + (q2 % B) /\ q2 % B \in Nat
  BY <1>0, <1>3
<1> HIDE DEF q3
<1>5. q3 % B = q3
  <2>1. B * B * B * B = B * (B * B * B) /\ B * B * B = B * (B * B)
        /\ B * B * B \in Nat /\ B * B \in Nat
    BY <1>1
  <2>2. q1 < B * B * B
    BY <1>1, <2>1, ShiftedBelow DEF q1, B
  <2>3. q2 < B * B
    BY <1>1, <1>2, <2>1, <2>2, ShiftedBelow DEF q2
  <2>4. q3 < B
    BY <1>1, <1>3, <2>3, ShiftedBelow DEF q3
  <2> QED
    BY <1>1, <1>4, <2>4, SmallDiv
<1>6. x[1] = n % B /\ x[2] = q1 % B /\ x[3] = q2 % B /\ x[4] = q3
  BY <1>5 DEF Header, Shifted, q1, q2, q3, B
<1> DEFINE m1 == n % B
           m2 == q1 % B
           m3 == q2 % B
<1>7. FrameLen(x) = m1 + B * m2 + B * B * m3 + B * B * B * q3
  BY <1>6 DEF FrameLen, B
<1>8. n = B * q1 + m1 /\ q1 = B * q2 + m2 /\ q2 = B * q3 + m3
      /\ q1 \in Nat /\ q2 \in Nat /\ q3 \in Nat /\ m1 \in Nat /\ m2 \in Nat /\ m3 \in Nat
  BY <1>2, <1>3, <1>4
<1> HIDE DEF m1, m2, m3
<1>9. B * q1 = B * (B * q2) + B * m2
  BY <1>1, <1>8
<1>10. B * (B * q2) = B * (B * (B * q3)) + B * (B * m3)
  <2>1. B * q2 = B * (B * q3) + B * m3
    BY <1>1, <1>8
  <2>2. B * (B * (B * q3) + B * m3) = B * (B * (B * q3)) + B * (B * m3)
    BY <1>1, <1>8
  <2> QED
    BY <2>1, <2>2
<1>11. B * B * m3 = B * (B * m3) /\ B * B * B * q3 = B * (B * (B * q3))
  BY <1>1, <1>8
<1>12. B * m2 \in Nat /\ B * (B * m3) \in Nat /\ B * (B * (B * q3)) \in Nat
  BY <1>1, <1>8
<1> QED
  BY <1>7, <1>8, <1>9, <1>10, <1>11, <1>12

\* A frame is bytes, at least a header of them.
LEMMA FrameType ==
    ASSUME NEW p \in Seq(Bytes)
    PROVE  /\ Frame(p) \in Seq(Bytes)
           /\ Len(Frame(p)) = 4 + Len(p)
           /\ \A j \in 1..4 : Frame(p)[j] = Header(Len(p))[j]
           /\ \A j \in 1..Len(p) : Frame(p)[4 + j] = p[j]
<1>1. ByteBase \in Nat \ {0} /\ Bytes = 0..ByteBase - 1
  BY TunnelAssumption DEF Bytes
<1>2. \A n \in Nat : n % ByteBase \in Bytes /\ n \div ByteBase \in Nat
  BY <1>1, DivMod
<1>3. Header(Len(p)) \in Seq(Bytes) /\ Len(Header(Len(p))) = 4
  <2> DEFINE n1 == Len(p)
             n2 == n1 \div ByteBase
             n3 == n2 \div ByteBase
             n4 == n3 \div ByteBase
  <2>1. Header(Len(p)) = <<n1 % ByteBase, n2 % ByteBase, n3 % ByteBase, n4 % ByteBase>>
    BY DEF Header, Shifted
  <2>2. n1 \in Nat /\ n2 \in Nat /\ n3 \in Nat /\ n4 \in Nat
    BY <1>2
  <2> HIDE DEF n1, n2, n3, n4
  <2>3. \A e1, e2, e3, e4 \in Bytes : <<e1, e2, e3, e4>> \in Seq(Bytes)
    OBVIOUS
  <2> QED
    BY <1>2, <2>1, <2>2, <2>3
<1> DEFINE h == Header(Len(p))
<1>4. Frame(p) = h \o p /\ h \in Seq(Bytes) /\ Len(h) = 4
  BY <1>3 DEF Frame
<1> HIDE DEF h
<1>5. /\ h \o p \in Seq(Bytes) /\ Len(h \o p) = Len(h) + Len(p)
      /\ \A j \in 1..Len(h) + Len(p) : (h \o p)[j] = IF j <= Len(h) THEN h[j] ELSE p[j - Len(h)]
  BY <1>4, ConcatProperties
<1>6. /\ Frame(p) \in Seq(Bytes) /\ Len(Frame(p)) = 4 + Len(p)
      /\ \A j \in 1..4 : Frame(p)[j] = h[j]
      /\ \A j \in 1..Len(p) : Frame(p)[4 + j] = p[j]
  <2>1. Len(p) \in Nat
    OBVIOUS
  <2>2. \A j \in 1..4 + Len(p) : Frame(p)[j] = IF j <= 4 THEN h[j] ELSE p[j - 4]
    BY <1>4, <1>5
  <2>3. \A j \in 1..4 : Frame(p)[j] = h[j]
    BY <2>1, <2>2
  <2>4. ASSUME NEW j \in 1..Len(p) PROVE Frame(p)[4 + j] = p[j]
    <3>1. 4 + j \in 1..4 + Len(p) /\ ~(4 + j <= 4) /\ (4 + j) - 4 = j
      BY <2>1
    <3> QED
      BY <2>2, <3>1
  <2> QED
    BY <1>4, <1>5, <2>3, <2>4
<1> QED
  BY <1>6 DEF h

-----------------------------------------------------------------------------
(* Frames in a sequence of bytes                                           *)

Numbers(r) == 1..Len(Payload[r])
FrameOf(r, d) == Frame(Payload[r][d])

\* Where each frame of the datagrams ds after the first n ends.
Cuts(r, ds, n) ==
    {cut \in [n..Len(ds) -> Nat] :
        /\ cut[n] = 0
        /\ \A i, j \in n..Len(ds) : i <= j => cut[i] <= cut[j]
        /\ \A i \in n + 1..Len(ds) : cut[i] = cut[i - 1] + Len(FrameOf(r, ds[i]))}

\* The bytes x begin the frames of the datagrams ds of r after the first n, or are
\* them when whole.
FramesIn(x, r, ds, n, whole) ==
    \E cut \in Cuts(r, ds, n) :
        /\ Len(x) <= cut[Len(ds)]
        /\ whole => Len(x) = cut[Len(ds)]
        /\ \A i \in n + 1..Len(ds) : \A j \in 1..Len(FrameOf(r, ds[i])) :
             cut[i - 1] + j <= Len(x) => x[cut[i - 1] + j] = FrameOf(r, ds[i])[j]

LEMMA FrameOfType ==
    ASSUME NEW r \in Relays, NEW d \in Numbers(r)
    PROVE  /\ Payload[r][d] \in Seq(Bytes)
           /\ Len(Payload[r][d]) \in 1..kMaxFramePayload
           /\ FrameOf(r, d) \in Seq(Bytes)
           /\ Len(FrameOf(r, d)) = 4 + Len(Payload[r][d])
           /\ \A j \in 1..4 : FrameOf(r, d)[j] = Header(Len(Payload[r][d]))[j]
           /\ \A j \in 1..Len(Payload[r][d]) : FrameOf(r, d)[4 + j] = Payload[r][d][j]
<1>1. Payload[r] \in Seq(Seq(Bytes)) /\ d \in 1..Len(Payload[r])
  BY TunnelAssumption DEF Numbers
<1>2. Payload[r][d] \in Seq(Bytes)
  BY <1>1, ElementOfSeq
<1>3. Len(Payload[r][d]) \in 1..kMaxFramePayload
  BY <1>1, TunnelAssumption
<1> QED
  BY <1>2, <1>3, FrameType DEF FrameOf

\* Nothing written is no frames.
LEMMA NoFrames ==
    ASSUME NEW r
    PROVE  FramesIn(<<>>, r, <<>>, 0, TRUE)
<1> DEFINE cut == [i \in 0..0 |-> 0]
<1>1. Len(<<>>) = 0 /\ 0..0 = {0} /\ 1..0 = {}
  OBVIOUS
<1>2. cut \in Cuts(r, <<>>, 0)
  BY <1>1 DEF Cuts
<1>3. cut[0] = 0
  OBVIOUS
<1> QED
  BY <1>1, <1>2, <1>3 DEF FramesIn

\* Taking a datagram for sending appends its frame.
LEMMA FramesAppend ==
    ASSUME NEW r \in Relays, NEW ds \in Seq(Numbers(r)), NEW n \in 0..Len(ds),
           NEW x \in Seq(Bytes), FramesIn(x, r, ds, n, TRUE), NEW d \in Numbers(r)
    PROVE  FramesIn(x \o FrameOf(r, d), r, Append(ds, d), n, TRUE)
<1> DEFINE f == FrameOf(r, d)
           es == Append(ds, d)
           y == x \o f
           m == Len(ds)
<1>1. /\ f \in Seq(Bytes) /\ Len(f) \in Nat
      /\ \A i \in 1..m : Len(FrameOf(r, ds[i])) \in Nat
  <2>1. \A e \in Numbers(r) : FrameOf(r, e) \in Seq(Bytes)
    BY FrameOfType
  <2>2. \A i \in 1..m : ds[i] \in Numbers(r)
    OBVIOUS
  <2> QED
    BY <2>1, <2>2
<1>2. PICK cut \in Cuts(r, ds, n) :
        /\ Len(x) = cut[m]
        /\ \A i \in n + 1..m : \A j \in 1..Len(FrameOf(r, ds[i])) :
             cut[i - 1] + j <= Len(x) => x[cut[i - 1] + j] = FrameOf(r, ds[i])[j]
  BY DEF FramesIn
<1>3. /\ cut \in [n..m -> Nat] /\ cut[n] = 0
      /\ \A i, j \in n..m : i <= j => cut[i] <= cut[j]
      /\ \A i \in n + 1..m : cut[i] = cut[i - 1] + Len(FrameOf(r, ds[i]))
  BY <1>2 DEF Cuts
<1>4. /\ es \in Seq(Numbers(r)) /\ Len(es) = m + 1 /\ m \in Nat /\ n \in 0..m
      /\ es[m + 1] = d /\ \A i \in 1..m : es[i] = ds[i]
  BY AppendProperties
<1>5. /\ Len(y) = Len(x) + Len(f) /\ Len(x) \in Nat
      /\ \A i \in 1..Len(x) + Len(f) : y[i] = IF i <= Len(x) THEN x[i] ELSE f[i - Len(x)]
  BY <1>1, ConcatProperties
<1> HIDE DEF es, y, m, f
<1> DEFINE last == cut[m] + Len(f)
           cut2 == [i \in n..m + 1 |-> IF i <= m THEN cut[i] ELSE last]
<1>a. last \in Nat /\ cut[m] \in Nat /\ last >= cut[m] /\ n \in n..m /\ m \in n..m
      /\ \A i \in n..m + 1 : i # m + 1 => i \in n..m
  BY <1>1, <1>3, <1>4, SMTT(30)
<1>6. /\ cut2 \in [n..m + 1 -> Nat] /\ cut2[m + 1] = last
      /\ \A i \in n..m : cut2[i] = cut[i] /\ cut[i] \in Nat /\ cut[i] <= cut[m]
      /\ n \in n..m /\ m \in n..m
  <2> HIDE DEF last
  <2>1. \A i \in n..m + 1 : (IF i <= m THEN cut[i] ELSE last) \in Nat
    BY <1>3, <1>4, <1>a
  <2>2. cut2 \in [n..m + 1 -> Nat]
    BY <2>1
  <2>3. cut2[m + 1] = last
    BY <1>4, <1>a
  <2>4. ASSUME NEW i \in n..m PROVE cut2[i] = cut[i] /\ cut[i] \in Nat /\ cut[i] <= cut[m]
    BY <1>3, <1>4, <1>a
  <2> QED
    BY <1>a, <2>2, <2>3, <2>4
<1> HIDE DEF cut2
<1>7. cut2 \in Cuts(r, es, n)
  <2>1. cut2[n] = 0
    BY <1>3, <1>6
  <2>2. ASSUME NEW i \in n..m + 1, NEW j \in n..m + 1, i <= j PROVE cut2[i] <= cut2[j]
    <3>1. CASE j <= m
      BY <1>3, <1>4, <1>6, <2>2, <3>1, SMTT(30)
    <3>2. CASE j = m + 1 /\ i <= m
      <4>1. i \in n..m
        BY <1>4, <3>2
      <4> QED
        BY <1>1, <1>6, <1>a, <3>2, <4>1, SMTT(40)
    <3>3. CASE i = m + 1 /\ j = m + 1
      BY <1>6, <1>a, <3>3
    <3> QED
      BY <1>4, <2>2, <3>1, <3>2, <3>3
  <2>3. ASSUME NEW i \in n + 1..m + 1
        PROVE  cut2[i] = cut2[i - 1] + Len(FrameOf(r, es[i]))
    <3>1. CASE i <= m
      <4>1. i \in n + 1..m /\ i - 1 \in n..m /\ i \in n..m /\ i \in 1..m
        BY <1>4, <3>1
      <4> QED
        BY <1>3, <1>4, <1>6, <4>1
    <3>2. CASE i = m + 1
      BY <1>4, <1>6, <1>a, <3>2 DEF f
    <3> QED
      BY <1>4, <3>1, <3>2
  <2> QED
    BY <1>4, <1>6, <2>1, <2>2, <2>3 DEF Cuts
<1>8. Len(y) = cut2[Len(es)]
  BY <1>2, <1>4, <1>5, <1>6
<1>9. ASSUME NEW i \in n + 1..Len(es), NEW j \in 1..Len(FrameOf(r, es[i]))
      PROVE  y[cut2[i - 1] + j] = FrameOf(r, es[i])[j]
  <2>1. CASE i <= m
    <3>1. i \in n + 1..m /\ i - 1 \in n..m /\ i \in n..m /\ i \in 1..m
      BY <1>4, <2>1
    <3>2. /\ j \in 1..Len(FrameOf(r, ds[i])) /\ Len(FrameOf(r, ds[i])) \in Nat
          /\ cut2[i - 1] = cut[i - 1] /\ cut[i - 1] \in Nat
      BY <1>1, <1>4, <1>6, <3>1
    <3>3. cut[i] = cut[i - 1] + Len(FrameOf(r, ds[i])) /\ cut[i] <= cut[m] /\ cut[m] = Len(x)
      BY <1>2, <1>3, <1>6, <3>1
    <3> DEFINE k == cut[i - 1] + j
    <3>4. k \in 1..Len(x)
      <4> DEFINE a == cut[i - 1]
                 l == Len(FrameOf(r, ds[i]))
      <4>1. a \in Nat /\ l \in Nat /\ j \in 1..l /\ a + l <= Len(x) /\ Len(x) \in Nat
        BY <1>5, <3>2, <3>3
      <4> HIDE DEF a, l
      <4>2. a + j \in 1..Len(x)
        BY <4>1
      <4> QED
        BY <4>2 DEF a
    <3>5. x[k] = FrameOf(r, ds[i])[j]
      <4>1. k <= Len(x)
        BY <1>5, <3>4
      <4> QED
        BY <1>2, <3>1, <3>2, <4>1
    <3>6. y[k] = x[k]
      BY <1>1, <1>5, <3>4, SMTT(30)
    <3> QED
      BY <1>4, <3>1, <3>2, <3>5, <3>6
  <2>2. CASE i = m + 1
    <3>1. es[i] = d /\ cut2[i - 1] = Len(x) /\ j \in 1..Len(f)
      BY <1>2, <1>4, <1>6, <1>a, <2>2 DEF f
    <3>2. y[Len(x) + j] = f[j]
      <4>1. Len(x) + j \in 1..Len(x) + Len(f) /\ ~(Len(x) + j <= Len(x)) /\ (Len(x) + j) - Len(x) = j
        BY <1>1, <1>5, <3>1
      <4> QED
        BY <1>5, <4>1
    <3> QED
      BY <3>1, <3>2 DEF f
  <2> QED
    BY <1>4, <2>1, <2>2
<1>10. FramesIn(y, r, es, n, TRUE)
  <2>1. Len(y) <= cut2[Len(es)]
    BY <1>1, <1>5, <1>8
  <2> QED
    BY <1>7, <1>8, <1>9, <2>1 DEF FramesIn
<1> QED
  BY <1>10 DEF y, es, f

LEMMA CutFacts ==
    ASSUME NEW r \in Relays, NEW ds \in Seq(Numbers(r)), NEW n \in 0..Len(ds),
           NEW cut \in Cuts(r, ds, n)
    PROVE  /\ cut \in [n..Len(ds) -> Nat] /\ cut[n] = 0
           /\ \A i, j \in n..Len(ds) : i <= j => cut[i] <= cut[j]
           /\ \A i \in n + 1..Len(ds) :
                /\ cut[i] = cut[i - 1] + Len(FrameOf(r, ds[i]))
                /\ Len(FrameOf(r, ds[i])) \in Nat /\ ds[i] \in Numbers(r)
                /\ cut[i - 1] \in Nat /\ cut[i] \in Nat /\ cut[i] <= cut[Len(ds)]
           /\ cut[Len(ds)] \in Nat
<1>1. /\ cut \in [n..Len(ds) -> Nat] /\ cut[n] = 0
      /\ \A i, j \in n..Len(ds) : i <= j => cut[i] <= cut[j]
      /\ \A i \in n + 1..Len(ds) : cut[i] = cut[i - 1] + Len(FrameOf(r, ds[i]))
  BY DEF Cuts
<1>2. Len(ds) \in n..Len(ds) /\ Len(ds) \in Nat
  OBVIOUS
<1>3. ASSUME NEW i \in n + 1..Len(ds)
      PROVE  i \in n..Len(ds) /\ i - 1 \in n..Len(ds) /\ i \in 1..Len(ds) /\ i <= Len(ds)
  BY <1>2
<1>4. \A i \in 1..Len(ds) : ds[i] \in Numbers(r)
  OBVIOUS
<1>5. \A d \in Numbers(r) : Len(FrameOf(r, d)) \in Nat
  <2> SUFFICES ASSUME NEW d \in Numbers(r) PROVE Len(FrameOf(r, d)) \in Nat
    OBVIOUS
  <2>1. FrameOf(r, d) \in Seq(Bytes)
    BY FrameOfType
  <2> QED
    BY <2>1
<1>6. ASSUME NEW i \in n + 1..Len(ds)
      PROVE  /\ Len(FrameOf(r, ds[i])) \in Nat /\ ds[i] \in Numbers(r)
             /\ cut[i - 1] \in Nat /\ cut[i] \in Nat /\ cut[i] <= cut[Len(ds)]
  BY <1>1, <1>2, <1>3, <1>4, <1>5
<1> QED
  BY <1>1, <1>2, <1>6

\* What a sequence of bytes begins, its beginnings begin too.
LEMMA FramesPrefix ==
    ASSUME NEW r \in Relays, NEW ds \in Seq(Numbers(r)), NEW n \in 0..Len(ds), NEW whole,
           NEW x \in Seq(Bytes), NEW y \in Seq(Bytes), FramesIn(x \o y, r, ds, n, whole)
    PROVE  FramesIn(x, r, ds, n, FALSE)
<1>1. /\ Len(x \o y) = Len(x) + Len(y) /\ Len(x) \in Nat /\ Len(y) \in Nat
      /\ \A i \in 1..Len(x) : (x \o y)[i] = x[i]
  <2>1. Len(x) \in Nat /\ Len(y) \in Nat
    OBVIOUS
  <2> QED
    BY <2>1, ConcatProperties
<1>2. PICK cut \in Cuts(r, ds, n) :
        /\ Len(x \o y) <= cut[Len(ds)]
        /\ \A i \in n + 1..Len(ds) : \A j \in 1..Len(FrameOf(r, ds[i])) :
             cut[i - 1] + j <= Len(x \o y) => (x \o y)[cut[i - 1] + j] = FrameOf(r, ds[i])[j]
  BY DEF FramesIn
<1>3. Len(x) <= cut[Len(ds)]
  <2>1. cut[Len(ds)] \in Nat
    BY CutFacts
  <2> QED
    BY <1>1, <1>2, <2>1
<1>4. ASSUME NEW i \in n + 1..Len(ds), NEW j \in 1..Len(FrameOf(r, ds[i])),
             cut[i - 1] + j <= Len(x)
      PROVE  x[cut[i - 1] + j] = FrameOf(r, ds[i])[j]
  <2>1. cut[i - 1] \in Nat /\ Len(FrameOf(r, ds[i])) \in Nat
    BY CutFacts
  <2>2. cut[i - 1] + j \in 1..Len(x) /\ cut[i - 1] + j <= Len(x \o y)
    BY <1>1, <1>4, <2>1, SMTT(40)
  <2> QED
    BY <1>1, <1>2, <2>2
<1> QED
  BY <1>3, <1>4 DEF FramesIn

LEMMA FramesWeaker ==
    ASSUME NEW x, NEW r, NEW ds, NEW n, NEW strong, NEW weak,
           FramesIn(x, r, ds, n, strong), weak => strong
    PROVE  FramesIn(x, r, ds, n, weak)
BY Zenon DEF FramesIn

\* Once the bytes hold a header, it is that of the first frame; once they hold as much as
\* the frame, they begin with it and go on with the frames of the other datagrams.
LEMMA FramesFirst ==
    ASSUME NEW r \in Relays, NEW ds \in Seq(Numbers(r)), NEW n \in 0..Len(ds),
           NEW whole, NEW x \in Seq(Bytes), FramesIn(x, r, ds, n, whole), Len(x) >= 4
    PROVE  /\ n + 1 \in 1..Len(ds)
           /\ \A j \in 1..4 : x[j] = FrameOf(r, ds[n + 1])[j]
           /\ Len(x) >= Len(FrameOf(r, ds[n + 1])) =>
                /\ \A j \in 1..Len(FrameOf(r, ds[n + 1])) : x[j] = FrameOf(r, ds[n + 1])[j]
                /\ FramesIn(SubSeq(x, Len(FrameOf(r, ds[n + 1])) + 1, Len(x)),
                            r, ds, n + 1, whole)
<1> DEFINE m == Len(ds)
           f == FrameOf(r, ds[n + 1])
           l == Len(f)
<1>1. PICK cut \in Cuts(r, ds, n) :
        /\ Len(x) <= cut[m]
        /\ whole => Len(x) = cut[m]
        /\ \A i \in n + 1..m : \A j \in 1..Len(FrameOf(r, ds[i])) :
             cut[i - 1] + j <= Len(x) => x[cut[i - 1] + j] = FrameOf(r, ds[i])[j]
  BY DEF FramesIn
<1>2. /\ cut \in [n..m -> Nat] /\ cut[n] = 0
      /\ \A i, j \in n..m : i <= j => cut[i] <= cut[j]
      /\ \A i \in n + 1..m :
           /\ cut[i] = cut[i - 1] + Len(FrameOf(r, ds[i]))
           /\ Len(FrameOf(r, ds[i])) \in Nat /\ ds[i] \in Numbers(r)
           /\ cut[i - 1] \in Nat /\ cut[i] \in Nat /\ cut[i] <= cut[m]
      /\ cut[m] \in Nat
  BY CutFacts
<1>3. Len(x) \in Nat /\ m \in Nat /\ n \in 0..m
  OBVIOUS
<1> HIDE DEF m
<1>4. n # m
  BY <1>1, <1>2, <1>3
<1>5. n + 1 \in n + 1..m /\ n + 1 \in 1..m /\ (n + 1) - 1 = n
  BY <1>3, <1>4
<1>6. ds[n + 1] \in Numbers(r) /\ l \in Nat /\ cut[n + 1] = l /\ l >= 4
  <2>1. ds[n + 1] \in Numbers(r) /\ l \in Nat /\ cut[n + 1] = cut[n] + l
    BY <1>2, <1>5
  <2>2. l = 4 + Len(Payload[r][ds[n + 1]]) /\ Payload[r][ds[n + 1]] \in Seq(Bytes)
    BY <2>1, FrameOfType
  <2>3. Len(Payload[r][ds[n + 1]]) \in Nat
    BY <2>2
  <2> HIDE DEF l
  <2> QED
    BY <1>2, <2>1, <2>2, <2>3
<1>7. ASSUME NEW j \in 1..l, j <= Len(x) PROVE x[j] = f[j]
  <2>1. cut[(n + 1) - 1] + j = j
    BY <1>2, <1>5, <1>6
  <2> QED
    BY <1>1, <1>5, <1>7, <2>1
<1> HIDE DEF l
<1>8. \A j \in 1..4 : x[j] = f[j]
  BY <1>3, <1>6, <1>7
<1>9. ASSUME Len(x) >= l
      PROVE  FramesIn(SubSeq(x, l + 1, Len(x)), r, ds, n + 1, whole)
  <2> DEFINE y == SubSeq(x, l + 1, Len(x))
             cut2 == [i \in n + 1..m |-> cut[i] - l]
  <2>1. Len(y) = Len(x) - l /\ \A i \in 1..Len(x) - l : y[i] = x[l + i]
    <3>1. l + 1 \in Int /\ Len(x) \in Int /\ \A i \in l + 1..Len(x) : x[i] \in Bytes
      BY <1>3, <1>6
    <3>2. /\ Len(y) = IF l + 1 <= Len(x) THEN Len(x) - (l + 1) + 1 ELSE 0
          /\ \A i \in 1..Len(x) - (l + 1) + 1 : y[i] = x[l + 1 + i - 1]
      BY <3>1, SubSeqProperties
    <3> HIDE DEF y
    <3>3. Len(x) - (l + 1) + 1 = Len(x) - l
      BY <1>3, <1>6
    <3>4. \A i \in 1..Len(x) - l : l + 1 + i - 1 = l + i
      BY <1>3, <1>6
    <3>5. Len(y) = Len(x) - l
      BY <1>3, <1>6, <1>9, <3>2
    <3> QED
      BY <3>2, <3>3, <3>4, <3>5
  <2> HIDE DEF y
  <2>2. \A i \in n + 1..m : i \in n..m /\ i - 1 \in n..m /\ l <= cut[i] /\ cut[i] \in Nat
    <3> SUFFICES ASSUME NEW i \in n + 1..m
                 PROVE  i \in n..m /\ i - 1 \in n..m /\ l <= cut[i] /\ cut[i] \in Nat
      OBVIOUS
    <3>1. i \in n..m /\ i - 1 \in n..m /\ n + 1 \in n..m /\ n + 1 <= i
      BY <1>3
    <3> QED
      BY <1>2, <1>6, <3>1
  <2>3. /\ cut2 \in [n + 1..m -> Nat]
        /\ \A i \in n + 1..m : cut2[i] = cut[i] - l
    <3>1. \A i \in n + 1..m : cut[i] - l \in Nat
      BY <1>6, <2>2
    <3> QED
      BY <3>1
  <2> HIDE DEF cut2
  <2>4. cut2 \in Cuts(r, ds, n + 1)
    <3>1. cut2[n + 1] = 0
      BY <1>5, <1>6, <2>3
    <3>2. ASSUME NEW i \in n + 1..m, NEW j \in n + 1..m, i <= j PROVE cut2[i] <= cut2[j]
      <4>1. cut[i] <= cut[j] /\ cut[i] \in Nat /\ cut[j] \in Nat
        BY <1>2, <2>2, <3>2
      <4> QED
        BY <1>6, <2>3, <4>1
    <3>3. ASSUME NEW i \in n + 1 + 1..m
          PROVE  cut2[i] = cut2[i - 1] + Len(FrameOf(r, ds[i]))
      <4>1. i \in n + 1..m /\ i - 1 \in n + 1..m
        BY <1>3
      <4>2. /\ cut[i] = cut[i - 1] + Len(FrameOf(r, ds[i])) /\ Len(FrameOf(r, ds[i])) \in Nat
            /\ cut[i - 1] \in Nat
        BY <1>2, <4>1
      <4>3. cut2[i] = cut[i] - l /\ cut2[i - 1] = cut[i - 1] - l
        BY <2>3, <4>1
      <4> QED
        BY <1>6, <4>2, <4>3
    <3> QED
      BY <2>3, <3>1, <3>2, <3>3 DEF Cuts, m
  <2>5. Len(y) <= cut2[m] /\ (whole => Len(y) = cut2[m])
    <3>1. cut2[m] = cut[m] - l
      BY <1>3, <1>5, <2>3
    <3>2. Len(y) <= cut2[m]
      BY <1>1, <1>2, <1>3, <1>6, <2>1, <3>1
    <3>3. ASSUME whole PROVE Len(y) = cut2[m]
      <4>1. Len(x) = cut[m]
        BY <1>1, <3>3, Zenon
      <4> QED
        BY <2>1, <3>1, <4>1
    <3> QED
      BY <3>2, <3>3
  <2>6. ASSUME NEW i \in n + 1 + 1..m, NEW j \in 1..Len(FrameOf(r, ds[i])),
               cut2[i - 1] + j <= Len(y)
        PROVE  y[cut2[i - 1] + j] = FrameOf(r, ds[i])[j]
    <3> DEFINE k == cut2[i - 1] + j
    <3>1. i \in n + 1..m /\ i - 1 \in n + 1..m
      BY <1>3
    <3>2. cut2[i - 1] = cut[i - 1] - l /\ cut2[i - 1] \in Nat /\ cut[i - 1] \in Nat
          /\ Len(FrameOf(r, ds[i])) \in Nat
      BY <1>2, <2>3, <3>1
    <3>3. k \in Nat /\ k >= 1
      BY <3>2, SMTT(40)
    <3>4. l + k = cut[i - 1] + j
      BY <1>6, <3>2, SMTT(30)
    <3> HIDE DEF k
    <3>5. k \in 1..Len(x) - l /\ l + k <= Len(x)
      BY <1>3, <1>6, <2>1, <2>6, <3>3 DEF k
    <3>6. y[k] = x[cut[i - 1] + j] /\ cut[i - 1] + j <= Len(x)
      BY <2>1, <3>4, <3>5
    <3>7. y[k] = FrameOf(r, ds[i])[j]
      BY <1>1, <3>1, <3>6
    <3> QED
      BY <3>7 DEF k
  <2>7. FramesIn(y, r, ds, n + 1, whole)
    BY <2>4, <2>5, <2>6 DEF FramesIn, m
  <2> QED
    BY <2>7 DEF y
<1>10. ASSUME Len(x) >= l PROVE \A j \in 1..l : x[j] = f[j]
  BY <1>3, <1>6, <1>7, <1>10
<1> QED
  BY <1>5, <1>8, <1>9, <1>10 DEF l, m

-----------------------------------------------------------------------------
(* Moving bytes                                                            *)

LEMMA SplitAt ==
    ASSUME NEW S, NEW s \in Seq(S), NEW k \in 0..Len(s)
    PROVE  /\ SubSeq(s, 1, k) \in Seq(S) /\ SubSeq(s, k + 1, Len(s)) \in Seq(S)
           /\ Len(SubSeq(s, 1, k)) = k /\ Len(SubSeq(s, k + 1, Len(s))) = Len(s) - k
           /\ s = SubSeq(s, 1, k) \o SubSeq(s, k + 1, Len(s))
<1>1. Len(s) \in Nat /\ \A i \in 1..Len(s) : s[i] \in S
  OBVIOUS
<1>2. SubSeq(s, 1, k) \in Seq(S) /\ Len(SubSeq(s, 1, k)) = k
  <2>1. 1 \in Int /\ k \in Int /\ \A i \in 1..k : s[i] \in S
    BY <1>1
  <2>2. /\ SubSeq(s, 1, k) \in Seq(S)
        /\ Len(SubSeq(s, 1, k)) = IF 1 <= k THEN k - 1 + 1 ELSE 0
    BY <2>1, SubSeqProperties
  <2> QED
    BY <1>1, <2>2
<1>3. SubSeq(s, k + 1, Len(s)) \in Seq(S) /\ Len(SubSeq(s, k + 1, Len(s))) = Len(s) - k
  <2>1. k + 1 \in Int /\ Len(s) \in Int /\ \A i \in k + 1..Len(s) : s[i] \in S
    BY <1>1
  <2>2. /\ SubSeq(s, k + 1, Len(s)) \in Seq(S)
        /\ Len(SubSeq(s, k + 1, Len(s))) =
             IF k + 1 <= Len(s) THEN Len(s) - (k + 1) + 1 ELSE 0
    BY <2>1, SubSeqProperties
  <2> QED
    BY <1>1, <2>2
<1>4. s = SubSeq(s, 1, k) \o SubSeq(s, k + 1, Len(s))
  <2>1. 1 \in 1..Len(s) + 1 /\ k \in 1 - 1..Len(s) /\ Len(s) \in k..Len(s)
    BY <1>1
  <2> QED
    BY <2>1, ConcatAdjacentSubSeq, SubSeqFull
<1> QED
  BY <1>2, <1>3, <1>4

\* recv() moves bytes from the connection to the reassembly buffer.
LEMMA RecvMoves ==
    ASSUME NEW a \in Seq(Bytes), NEW s \in Seq(Bytes), NEW w \in Seq(Bytes),
           NEW k \in 0..Len(s)
    PROVE  (a \o SubSeq(s, 1, k)) \o SubSeq(s, k + 1, Len(s)) \o w = a \o s \o w
<1> DEFINE s1 == SubSeq(s, 1, k)
           s2 == SubSeq(s, k + 1, Len(s))
<1>1. s1 \in Seq(Bytes) /\ s2 \in Seq(Bytes) /\ s = s1 \o s2
  BY SplitAt
<1> HIDE DEF s1, s2
<1>2. (a \o s1) \o s2 = a \o s
  BY <1>1, ConcatAssociative, SMTT(30)
<1>3. (a \o s1) \o s2 \o w = a \o s \o w
  BY <1>2
<1> QED
  BY <1>3 DEF s1, s2

\* send() moves bytes from write_frame() to the connection.
LEMMA SendMoves ==
    ASSUME NEW a \in Seq(Bytes), NEW s \in Seq(Bytes), NEW w \in Seq(Bytes),
           NEW k \in 0..Len(w)
    PROVE  a \o (s \o SubSeq(w, 1, k)) \o SubSeq(w, k + 1, Len(w)) = a \o s \o w
<1> DEFINE w1 == SubSeq(w, 1, k)
           w2 == SubSeq(w, k + 1, Len(w))
<1>1. w1 \in Seq(Bytes) /\ w2 \in Seq(Bytes) /\ w = w1 \o w2
  BY SplitAt
<1> HIDE DEF w1, w2
<1>2. a \o s \in Seq(Bytes) /\ a \o (s \o w1) = (a \o s) \o w1
  <2>1. a \o s \in Seq(Bytes)
    BY ConcatProperties
  <2>2. (a \o s) \o w1 = a \o (s \o w1)
    BY <1>1, ConcatAssociative, SMTT(40)
  <2> QED
    BY <2>1, <2>2
<1>3. ((a \o s) \o w1) \o w2 = (a \o s) \o w
  <2> DEFINE front == a \o s
  <2>1. front \in Seq(Bytes)
    BY <1>2
  <2> HIDE DEF front
  <2>2. (front \o w1) \o w2 = front \o (w1 \o w2)
    BY <1>1, <2>1, ConcatAssociative, SMTT(40)
  <2>3. (front \o w1) \o w2 = front \o w
    BY <1>1, <2>2
  <2> QED
    BY <2>3 DEF front
<1>4. a \o (s \o w1) \o w2 = a \o s \o w
  BY <1>2, <1>3
<1> QED
  BY <1>4 DEF w1, w2

\* Cutting off the front of the reassembly buffer cuts off the front of what is in transit.
LEMMA CutOffFront ==
    ASSUME NEW a \in Seq(Bytes), NEW t \in Seq(Bytes), NEW k \in 0..Len(a)
    PROVE  SubSeq(a \o t, k + 1, Len(a \o t)) = SubSeq(a, k + 1, Len(a)) \o t
<1> DEFINE a2 == SubSeq(a, k + 1, Len(a))
           x == a \o t
           y == SubSeq(x, k + 1, Len(x))
           z == a2 \o t
<1>1. Len(a) \in Nat /\ Len(t) \in Nat
  OBVIOUS
<1>2. /\ x \in Seq(Bytes) /\ Len(x) = Len(a) + Len(t)
      /\ \A i \in 1..Len(a) + Len(t) : x[i] = IF i <= Len(a) THEN a[i] ELSE t[i - Len(a)]
  BY ConcatProperties
<1> HIDE DEF x
<1>3. /\ a2 \in Seq(Bytes) /\ Len(a2) = Len(a) - k
      /\ \A i \in 1..Len(a) - k : a2[i] = a[k + i]
  <2>1. a2 \in Seq(Bytes) /\ Len(a2) = Len(a) - k
    BY SplitAt
  <2>2. k + 1 \in Int /\ Len(a) \in Int /\ \A i \in k + 1..Len(a) : a[i] \in Bytes
    BY <1>1
  <2>3. \A i \in 1..Len(a) - (k + 1) + 1 : a2[i] = a[k + 1 + i - 1]
    BY <2>2, SubSeqProperties, SMTT(40)
  <2> HIDE DEF a2
  <2>4. ASSUME NEW i \in 1..Len(a) - k PROVE a2[i] = a[k + i]
    <3>1. i \in 1..Len(a) - (k + 1) + 1 /\ k + 1 + i - 1 = k + i
      BY <1>1
    <3> QED
      BY <2>3, <3>1
  <2> QED
    BY <2>1, <2>4
<1> HIDE DEF a2
<1>4. k \in 0..Len(x)
  BY <1>1, <1>2
<1>5. /\ y \in Seq(Bytes) /\ Len(y) = Len(x) - k
      /\ \A i \in 1..Len(x) - k : y[i] = x[k + i]
  <2>1. y \in Seq(Bytes) /\ Len(y) = Len(x) - k
    BY <1>2, <1>4, SplitAt
  <2>2. k + 1 \in Int /\ Len(x) \in Int /\ \A i \in k + 1..Len(x) : x[i] \in Bytes
    BY <1>1, <1>2
  <2>3. \A i \in 1..Len(x) - (k + 1) + 1 : y[i] = x[k + 1 + i - 1]
    BY <2>2, SubSeqProperties
  <2> HIDE DEF y
  <2>4. ASSUME NEW i \in 1..Len(x) - k PROVE y[i] = x[k + i]
    <3>1. i \in 1..Len(x) - (k + 1) + 1 /\ k + 1 + i - 1 = k + i
      BY <1>1, <1>2
    <3> QED
      BY <2>3, <3>1
  <2> QED
    BY <2>1, <2>4
<1> HIDE DEF y
<1>6. /\ z \in Seq(Bytes) /\ Len(z) = Len(a2) + Len(t)
      /\ \A i \in 1..Len(a2) + Len(t) : z[i] = IF i <= Len(a2) THEN a2[i] ELSE t[i - Len(a2)]
  BY <1>3, ConcatProperties
<1> HIDE DEF z
<1>7. Len(y) = Len(z)
  BY <1>1, <1>2, <1>3, <1>5, <1>6
<1>8. ASSUME NEW i \in 1..Len(y) PROVE y[i] = z[i]
  <2>1. i \in 1..Len(x) - k /\ i \in 1..Len(a2) + Len(t) /\ k + i \in 1..Len(a) + Len(t)
    BY <1>1, <1>2, <1>3, <1>4, <1>5
  <2>2. CASE k + i <= Len(a)
    <3>1. i <= Len(a2) /\ i \in 1..Len(a) - k
      BY <1>1, <1>3, <2>1, <2>2
    <3> QED
      BY <1>2, <1>3, <1>5, <1>6, <2>1, <2>2, <3>1
  <2>3. CASE ~(k + i <= Len(a))
    <3>1. ~(i <= Len(a2)) /\ (k + i) - Len(a) = i - Len(a2)
      BY <1>1, <1>3, <2>1, <2>3
    <3> QED
      BY <1>2, <1>5, <1>6, <2>1, <2>3, <3>1
  <2> QED
    BY <2>2, <2>3
<1>9. y = z
  BY <1>5, <1>6, <1>7, <1>8, SeqEqual
<1> QED
  BY <1>9 DEF y, z, x, a2

LEMMA Middle ==
    ASSUME NEW S, NEW s \in Seq(S), NEW a \in Nat, NEW l \in Nat, a + l <= Len(s)
    PROVE  /\ SubSeq(s, a + 1, a + l) \in Seq(S) /\ Len(SubSeq(s, a + 1, a + l)) = l
           /\ \A i \in 1..l : SubSeq(s, a + 1, a + l)[i] = s[a + i]
<1> DEFINE lo == a + 1
           hi == a + l
           z == SubSeq(s, lo, hi)
<1>1. /\ lo \in Int /\ hi \in Int /\ hi - lo + 1 = l /\ (lo <= hi <=> 1 <= l)
      /\ \A i \in lo..hi : i \in 1..Len(s)
      /\ \A i \in 1..l : lo + i - 1 = a + i
  OBVIOUS
<1>2. \A i \in 1..Len(s) : s[i] \in S
  OBVIOUS
<1> HIDE DEF lo, hi
<1>3. /\ z \in Seq(S) /\ Len(z) = IF lo <= hi THEN hi - lo + 1 ELSE 0
      /\ \A i \in 1..hi - lo + 1 : z[i] = s[lo + i - 1]
  BY <1>1, <1>2, SubSeqProperties
<1> HIDE DEF z
<1>4. z \in Seq(S) /\ Len(z) = l /\ \A i \in 1..l : z[i] = s[a + i]
  <2>1. Len(z) = l
    <3>1. CASE 1 <= l
      BY <1>1, <1>3, <3>1
    <3>2. CASE l = 0
      BY <1>1, <1>3, <3>2
    <3> QED
      BY <3>1, <3>2
  <2>2. ASSUME NEW i \in 1..l PROVE z[i] = s[a + i]
    <3>1. i \in 1..hi - lo + 1 /\ lo + i - 1 = a + i
      BY <1>1
    <3> QED
      BY <1>3, <3>1
  <2> QED
    BY <1>3, <2>1, <2>2
<1> QED
  BY <1>4 DEF z, lo, hi

\* What read_frame() finds in x: the length it decodes is that of the next datagram, never
\* beyond the cap; the bytes after a complete header are that datagram, and the frames of
\* the others follow.
FirstIn(x, t, r, ds, n, whole) ==
    /\ n + 1 \in 1..Len(ds) /\ ds[n + 1] \in Numbers(r)
    /\ FrameLen(x) = Len(Payload[r][ds[n + 1]])
    /\ FrameLen(x) \in 1..kMaxFramePayload
    /\ Payload[r][ds[n + 1]] \in Seq(Bytes)
    /\ Len(x) >= 4 + FrameLen(x) =>
         /\ SubSeq(x, 4 + 1, 4 + FrameLen(x)) = Payload[r][ds[n + 1]]
         /\ FramesIn(SubSeq(x, 4 + FrameLen(x) + 1, Len(x)) \o t, r, ds, n + 1, whole)

LEMMA ExtractFirst ==
    ASSUME NEW r \in Relays, NEW ds \in Seq(Numbers(r)), NEW n \in 0..Len(ds), NEW whole,
           NEW x \in Seq(Bytes), NEW t \in Seq(Bytes), FramesIn(x \o t, r, ds, n, whole),
           Len(x) >= 4
    PROVE  FirstIn(x, t, r, ds, n, whole)
<1> DEFINE y == x \o t
           d == ds[n + 1]
           p == Payload[r][d]
           f == FrameOf(r, d)
           len == FrameLen(x)
<1>1. /\ y \in Seq(Bytes) /\ Len(y) = Len(x) + Len(t)
      /\ Len(t) \in Nat /\ Len(x) \in Nat /\ n \in Nat /\ Len(ds) \in Nat
      /\ \A i \in 1..Len(x) : y[i] = x[i]
  <2>1. /\ y \in Seq(Bytes) /\ Len(y) = Len(x) + Len(t)
        /\ \A i \in 1..Len(x) + Len(t) : y[i] = IF i <= Len(x) THEN x[i] ELSE t[i - Len(x)]
    BY ConcatProperties
  <2>2. Len(t) \in Nat /\ Len(x) \in Nat
    OBVIOUS
  <2> HIDE DEF y
  <2> QED
    BY <2>1, <2>2
<1>2. FramesIn(y, r, ds, n, whole)
  OBVIOUS
<1> HIDE DEF y
<1>3. Len(y) >= 4
  BY <1>1
<1>4. /\ n + 1 \in 1..Len(ds)
      /\ \A j \in 1..4 : y[j] = f[j]
      /\ Len(y) >= Len(f) =>
           /\ \A j \in 1..Len(f) : y[j] = f[j]
           /\ FramesIn(SubSeq(y, Len(f) + 1, Len(y)), r, ds, n + 1, whole)
  BY <1>1, <1>2, <1>3, FramesFirst
<1>5. d \in Numbers(r)
  BY <1>4, ElementOfSeq
<1> HIDE DEF d
<1>6. /\ p \in Seq(Bytes) /\ Len(p) \in 1..kMaxFramePayload
      /\ f \in Seq(Bytes) /\ Len(f) = 4 + Len(p)
      /\ \A j \in 1..4 : f[j] = Header(Len(p))[j]
      /\ \A j \in 1..Len(p) : f[4 + j] = p[j]
  BY <1>5, FrameOfType
<1> HIDE DEF p, f
<1>7. Len(p) \in Nat
  BY <1>6
<1>8. len = Len(p)
  <2>1. ASSUME NEW j \in 1..4 PROVE x[j] = Header(Len(p))[j]
    <3>1. j \in 1..Len(x)
      BY <1>1
    <3>2. x[j] = y[j] /\ y[j] = f[j] /\ f[j] = Header(Len(p))[j]
      BY <1>1, <1>4, <1>6, <3>1
    <3> QED
      BY <3>2
  <2> DEFINE b4 == ByteBase * ByteBase * ByteBase * ByteBase
  <2>2. kMaxFramePayload < b4 /\ b4 \in Nat /\ kMaxFramePayload \in Nat
    BY TunnelAssumption
  <2> HIDE DEF b4
  <2>3. Len(p) < b4
    BY <1>6, <2>2
  <2> QED
    BY <1>7, <2>1, <2>3, HeaderDecodes DEF b4
<1> HIDE DEF len
<1>9. ASSUME Len(x) >= 4 + len
      PROVE  /\ SubSeq(x, 4 + 1, 4 + len) = p
             /\ FramesIn(SubSeq(x, 4 + len + 1, Len(x)) \o t, r, ds, n + 1, whole)
  <2>1. Len(y) >= Len(f) /\ 4 + len \in 0..Len(x)
    BY <1>1, <1>6, <1>7, <1>8, <1>9
  <2> DEFINE h == 4
             z == SubSeq(x, h + 1, h + len)
  <2>2. h \in Nat /\ len \in Nat /\ h + len <= Len(x)
    BY <1>1, <1>7, <1>8, <1>9
  <2> HIDE DEF h
  <2>3. z \in Seq(Bytes) /\ Len(z) = len /\ \A i \in 1..len : z[i] = x[h + i]
    BY <2>2, Middle
  <2> HIDE DEF z
  <2>4. ASSUME NEW i \in 1..Len(p) PROVE z[i] = p[i]
    <3>1. 4 + i \in 1..Len(x) /\ 4 + i \in 1..Len(f) /\ i \in 1..len
      BY <1>1, <1>6, <1>7, <1>8, <1>9
    <3>2. z[i] = x[4 + i]
      BY <2>3, <3>1 DEF h
    <3>3. x[4 + i] = f[4 + i]
      BY <1>1, <1>4, <2>1, <3>1
    <3> QED
      BY <1>6, <3>2, <3>3
  <2>5. z = p
    BY <1>6, <1>8, <2>3, <2>4, SeqEqual
  <2> DEFINE e == 4 + len
  <2> HIDE DEF e
  <2>6. SubSeq(y, e + 1, Len(y)) = SubSeq(x, e + 1, Len(x)) \o t
    <3>1. e \in 0..Len(x)
      BY <2>1 DEF e
    <3> QED
      BY <3>1, CutOffFront DEF y
  <2>7. FramesIn(SubSeq(y, e + 1, Len(y)), r, ds, n + 1, whole)
    <3>1. e = Len(f)
      BY <1>6, <1>8 DEF e
    <3> QED
      BY <1>4, <2>1, <3>1
  <2>8. FramesIn(SubSeq(x, e + 1, Len(x)) \o t, r, ds, n + 1, whole)
    BY <2>6, <2>7
  <2> QED
    BY <2>5, <2>8 DEF z, h, e
<1> QED
  BY <1>4, <1>5, <1>6, <1>8, <1>9 DEF p, d, len, FirstIn

-----------------------------------------------------------------------------
(* What is kept per connection and end                                     *)

\* t is s with v for end r of connection c.
Updated(S, s, c, r, v, t) ==
    /\ t \in Seq([Relays -> S]) /\ Len(t) = Len(s)
    /\ \A d \in 1..Len(s), q \in Relays : t[d][q] = IF d = c /\ q = r THEN v ELSE s[d][q]

LEMMA UpdateAt ==
    ASSUME NEW S, NEW s \in Seq([Relays -> S]), NEW c \in 1..Len(s), NEW r \in Relays,
           NEW v \in S, NEW t, t = [s EXCEPT ![c][r] = v]
    PROVE  Updated(S, s, c, r, v, t)
<1> DEFINE e == [s[c] EXCEPT ![r] = v]
<1>1. s[c] \in [Relays -> S]
  BY ElementOfSeq
<1>2. e \in [Relays -> S] /\ \A q \in Relays : e[q] = IF q = r THEN v ELSE s[c][q]
  BY <1>1
<1>3. t = [s EXCEPT ![c] = e]
  OBVIOUS
<1> HIDE DEF e
<1>4. /\ t \in Seq([Relays -> S]) /\ Len(t) = Len(s)
      /\ \A d \in 1..Len(s) : t[d] = IF d = c THEN e ELSE s[d]
  BY <1>2, <1>3, ExceptSeq
<1>5. \A d \in 1..Len(s), q \in Relays : t[d][q] = IF d = c /\ q = r THEN v ELSE s[d][q]
  BY <1>2, <1>4
<1> QED
  BY <1>4, <1>5 DEF Updated

\* t is s with another connection, v for both ends.
Opened(S, s, v, t) ==
    /\ t \in Seq([Relays -> S]) /\ Len(t) = Len(s) + 1
    /\ \A d \in 1..Len(s), q \in Relays : t[d][q] = s[d][q]
    /\ \A q \in Relays : t[Len(s) + 1][q] = v

LEMMA OneMore ==
    ASSUME NEW S, NEW s \in Seq([Relays -> S]), NEW v \in S,
           NEW t, t = Append(s, [r \in Relays |-> v])
    PROVE  Opened(S, s, v, t)
<1> DEFINE e == [r \in Relays |-> v]
<1>1. e \in [Relays -> S] /\ \A q \in Relays : e[q] = v
  OBVIOUS
<1> HIDE DEF e
<1>2. /\ Append(s, e) \in Seq([Relays -> S]) /\ Len(Append(s, e)) = Len(s) + 1
      /\ \A d \in 1..Len(s) : Append(s, e)[d] = s[d]
      /\ Append(s, e)[Len(s) + 1] = e
  BY <1>1, AppendProperties
<1>3. /\ \A d \in 1..Len(s), q \in Relays : Append(s, e)[d][q] = s[d][q]
      /\ \A q \in Relays : Append(s, e)[Len(s) + 1][q] = v
  BY <1>1, <1>2
<1> QED
  BY <1>2, <1>3 DEF e, Opened

-----------------------------------------------------------------------------
(* The invariant                                                           *)

Types ==
    /\ offered \in [Relays -> Nat] /\ \A r \in Relays : offered[r] <= Len(Payload[r])
    /\ udp \in [Relays -> Seq(Nat)]
    /\ conn \in [Relays -> Nat] /\ accepted \in 0..opened
    /\ stream \in Seq([Relays -> Seq(Bytes)])
    /\ sent \in Seq([Relays -> Seq(Nat)]) /\ Len(sent) = opened
    /\ read \in Seq([Relays -> Seq(Seq(Bytes))]) /\ Len(read) = opened
    /\ rx \in [Relays -> Seq(Bytes)] /\ wr \in [Relays -> Seq(Bytes)]
    /\ pc \in [Relays -> {"connect", "select", "read", "udp", "write", "close"}]
    /\ received \in [Relays -> Seq(Seq(Bytes))] /\ udp_ready \in [Relays -> BOOLEAN]

\* The phone holds the connection it made last and the PC the one it accepted last; the PC
\* has not touched those it has still to accept.
ConnInv ==
    /\ conn["phone"] \in {0, opened} /\ conn["pc"] \in {0, accepted}
    /\ \A r \in Relays : (conn[r] = 0 <=> pc[r] = "connect") /\ (wr[r] # <<>> => pc[r] = "write")
    /\ \A c \in 1..opened : c > accepted => sent[c]["pc"] = <<>> /\ read[c]["pc"] = <<>>

\* A relay that is on its way to recvfrom() has a datagram to take.
ReadyInv ==
    \A r \in Relays : pc[r] = "udp" \/ (pc[r] = "read" /\ udp_ready[r]) => udp[r] # <<>>

\* What an engine sends goes through its relay in order, connection after connection.
NumbersInv ==
    \A r \in Relays :
        /\ \A i \in 1..Len(udp[r]) : udp[r][i] \in 1..offered[r]
        /\ \A i, j \in 1..Len(udp[r]) : i < j => udp[r][i] < udp[r][j]
        /\ \A c \in 1..opened : \A i \in 1..Len(sent[c][r]) :
             /\ sent[c][r][i] \in 1..offered[r]
             /\ \A j \in 1..Len(udp[r]) : sent[c][r][i] < udp[r][j]
             /\ \A d \in c..opened : \A j \in 1..Len(sent[d][r]) :
                  c < d \/ i < j => sent[c][r][i] < sent[d][r][j]

\* Everything the engine of r got is something r read from a connection.
ReceivedInv ==
    \A r \in Relays : \A k \in 1..Len(received[r]) :
        \E c \in 1..opened : \E i \in 1..Len(read[c][r]) : received[r][k] = read[c][r][i]

\* The end r of connection c can still read from it, or write to it; the PC accepts later.
Before(c, r) == r = "pc" /\ c > accepted
MayRead(c, r) == conn[r] = c \/ Before(c, r)
MayWrite(c, r) == (conn[r] = c /\ pc[r] # "close") \/ Before(c, r)

\* The bytes between write_frame() of r and the frames the other end has extracted.
On(c, r, buf) == IF conn[r] = c THEN buf[r] ELSE <<>>
InTransit(c, r) == On(c, Other(r), rx) \o stream[c][r] \o On(c, r, wr)

\* What was read is the front of what was put on the connection, and the bytes in transit
\* begin the frames of the rest.  They are those frames as long as r may write: then the
\* next frame begins where the last one ended.
Dir(c, r) ==
    /\ Len(read[c][Other(r)]) <= Len(sent[c][r])
    /\ \A i \in 1..Len(read[c][Other(r)]) : read[c][Other(r)][i] = Payload[r][sent[c][r][i]]
    /\ MayRead(c, Other(r)) =>
         FramesIn(InTransit(c, r), r, sent[c][r], Len(read[c][Other(r)]), MayWrite(c, r))

BytesInv == \A c \in 1..opened, r \in Relays : Dir(c, r)

TunnelInv == Types /\ ConnInv /\ ReadyInv /\ NumbersInv /\ ReceivedInv /\ BytesInv

LEMMA OtherEnd ==
    ASSUME NEW r \in Relays
    PROVE  Other(r) \in Relays /\ Other(r) # r /\ Other(Other(r)) = r
BY DEF Relays, Other

\* The types of one connection and end.
LEMMA TypesAt ==
    ASSUME Types, NEW c \in 1..opened, NEW r \in Relays
    PROVE  /\ stream[c][r] \in Seq(Bytes) /\ sent[c][r] \in Seq(Nat)
           /\ read[c][r] \in Seq(Seq(Bytes)) /\ InTransit(c, r) \in Seq(Bytes)
           /\ opened \in Nat
<1>1. Len(stream) \in Nat /\ Len(sent) = Len(stream) /\ Len(read) = Len(stream)
      /\ c \in 1..Len(stream)
  BY DEF Types, opened
<1>2. stream[c] \in [Relays -> Seq(Bytes)] /\ sent[c] \in [Relays -> Seq(Nat)]
      /\ read[c] \in [Relays -> Seq(Seq(Bytes))]
  BY <1>1, ElementOfSeq DEF Types
<1>3. On(c, Other(r), rx) \in Seq(Bytes) /\ On(c, r, wr) \in Seq(Bytes)
  <2>1. <<>> \in Seq(Bytes)
    OBVIOUS
  <2> QED
    BY <2>1, OtherEnd DEF Types, On
<1>4. On(c, Other(r), rx) \o stream[c][r] \in Seq(Bytes)
  BY <1>2, <1>3, ConcatProperties
<1>5. InTransit(c, r) \in Seq(Bytes)
  BY <1>3, <1>4, ConcatProperties DEF InTransit
<1> QED
  BY <1>1, <1>2, <1>5 DEF opened

\* The numbers of datagrams put on a connection number datagrams.
LEMMA SentNumbers ==
    ASSUME Types, NumbersInv, NEW c \in 1..opened, NEW r \in Relays
    PROVE  sent[c][r] \in Seq(Numbers(r))
<1>1. sent[c][r] \in Seq(Nat) /\ Len(sent[c][r]) \in Nat
  BY TypesAt
<1>2. \A i \in 1..Len(sent[c][r]) : sent[c][r][i] \in 1..offered[r]
  BY DEF NumbersInv
<1>3. offered[r] \in Nat /\ offered[r] <= Len(Payload[r]) /\ Len(Payload[r]) \in Nat
  <2>1. Payload[r] \in Seq(Seq(Bytes))
    BY TunnelAssumption
  <2> QED
    BY <2>1, SMTT(40) DEF Types
<1>4. \A i \in 1..Len(sent[c][r]) : sent[c][r][i] \in Numbers(r)
  BY <1>2, <1>3 DEF Numbers
<1> DEFINE ds == sent[c][r]
<1>5. ds \in [1..Len(ds) -> Numbers(r)] /\ Len(ds) \in Nat
  <2>1. ds \in [1..Len(ds) -> Nat]
    BY <1>1, LenProperties
  <2> QED
    BY <1>1, <1>4, <2>1
<1> HIDE DEF ds
<1>6. ds \in Seq(Numbers(r))
  BY <1>5, SeqDef
<1> QED
  BY <1>6 DEF ds

\* A direction in which nothing happened but that an end closed or accepted.
LEMMA Kept ==
    ASSUME NEW c, NEW r, Dir(c, r),
           read'[c][Other(r)] = read[c][Other(r)], sent'[c][r] = sent[c][r],
           MayRead(c, Other(r))' => /\ MayRead(c, Other(r)) /\ InTransit(c, r)' = InTransit(c, r)
                                    /\ MayWrite(c, r)' => MayWrite(c, r)
    PROVE  Dir(c, r)'
<1> DEFINE n == Len(read[c][Other(r)])
<1>1. ASSUME MayRead(c, Other(r))'
      PROVE  FramesIn(InTransit(c, r)', r, sent[c][r], n, MayWrite(c, r)')
  <2>1. FramesIn(InTransit(c, r)', r, sent[c][r], n, MayWrite(c, r))
    BY <1>1 DEF Dir
  <2>2. MayWrite(c, r)' => MayWrite(c, r)
    BY <1>1
  <2> QED
    BY <2>1, <2>2, FramesWeaker
<1> QED
  BY <1>1 DEF Dir

\* The connection a relay holds outside "connect".
LEMMA Holding ==
    ASSUME Types, ConnInv, NEW r \in Relays, pc[r] # "connect"
    PROVE  /\ conn[r] \in 1..opened /\ opened \in Nat /\ MayRead(conn[r], r)
           /\ conn[Other(r)] \in 0..opened
<1>1. opened \in Nat /\ accepted \in 0..opened
  BY DEF Types, opened
<1>2. conn[r] # 0 /\ conn["phone"] \in {0, opened} /\ conn["pc"] \in {0, accepted}
  BY DEF ConnInv
<1>3. r \in {"pc", "phone"}
  BY DEF Relays
<1> QED
  BY <1>1, <1>2, <1>3 DEF MayRead, Other

\* The same for the reassembly buffer of a relay.
LEMMA NextFrame ==
    ASSUME TunnelInv, NEW r \in Relays, pc[r] = "read", HasHeader(rx[r]),
           NEW c, c = conn[r], NEW o, o = Other(r), NEW n, n = Len(read[c][r])
    PROVE  /\ c \in 1..opened /\ o \in Relays /\ n \in Nat
           /\ FirstIn(rx[r], stream[c][o] \o On(c, o, wr), o, sent[c][o], n, MayWrite(c, o))
<1> DEFINE ds == sent[c][o]
           whole == MayWrite(c, o)
           s1 == stream[c][o]
           w1 == On(c, o, wr)
           t == s1 \o w1
           x == rx[r]
<1>1. /\ Types /\ ConnInv /\ NumbersInv
      /\ c \in 1..opened /\ MayRead(c, r) /\ o \in Relays /\ Other(o) = r
  BY Holding, OtherEnd DEF TunnelInv
<1>2. /\ x \in Seq(Bytes) /\ s1 \in Seq(Bytes) /\ w1 \in Seq(Bytes)
      /\ ds \in Seq(Numbers(o)) /\ read[c][r] \in Seq(Seq(Bytes))
  <2>1. <<>> \in Seq(Bytes)
    OBVIOUS
  <2>2. x \in Seq(Bytes) /\ w1 \in Seq(Bytes)
    BY <1>1, <2>1 DEF Types, On
  <2> QED
    BY <1>1, <2>2, TypesAt, SentNumbers
<1>3. n <= Len(ds) /\ FramesIn(InTransit(c, o), o, ds, n, whole)
  <2>1. Dir(c, o)
    BY <1>1 DEF TunnelInv, BytesInv
  <2> QED
    BY <1>1, <2>1 DEF Dir
<1>4. n \in 0..Len(ds)
  <2>1. n \in Nat
    BY <1>2
  <2>2. Len(ds) \in Nat
    BY <1>2
  <2> QED
    BY <1>3, <2>1, <2>2
<1>5. InTransit(c, o) = (x \o s1) \o w1 /\ Len(x) >= 4
  BY <1>1 DEF InTransit, On, HasHeader, kFrameHeaderSize
<1> HIDE DEF ds, whole, t, x, s1, w1
<1>6. (x \o s1) \o w1 = x \o t /\ t \in Seq(Bytes)
  BY <1>2, ConcatAssociative, ConcatProperties, SMTT(40) DEF t
<1>7. FramesIn(x \o t, o, ds, n, whole)
  BY <1>3, <1>5, <1>6
<1>8. FirstIn(x, t, o, ds, n, whole)
  <2>1. o \in Relays
    BY <1>1
  <2>2. ds \in Seq(Numbers(o)) /\ x \in Seq(Bytes)
    BY <1>2
  <2>3. t \in Seq(Bytes) /\ Len(x) >= 4
    BY <1>5, <1>6
  <2> QED
    BY <2>1, <2>2, <2>3, <1>4, <1>7, ExtractFirst
<1>9. n \in Nat
  BY <1>4
<1> QED
  BY <1>1, <1>8, <1>9, Zenon DEF ds, whole, x, t, s1, w1

-----------------------------------------------------------------------------
(* The actions, connection by connection                                   *)

\* A new connection: nothing on it, and the others as they were.
LEMMA ConnectDoes ==
    ASSUME Types, Connect
    PROVE  /\ Types' /\ opened' = opened + 1 /\ opened \in Nat
           /\ \A c \in 1..opened, r \in Relays :
                stream'[c][r] = stream[c][r] /\ sent'[c][r] = sent[c][r] /\ read'[c][r] = read[c][r]
           /\ \A r \in Relays :
                stream'[opened + 1][r] = <<>> /\ sent'[opened + 1][r] = <<>>
                /\ read'[opened + 1][r] = <<>>
<1>1. <<>> \in Seq(Bytes) /\ <<>> \in Seq(Nat) /\ <<>> \in Seq(Seq(Bytes)) /\ "phone" \in Relays
  BY DEF Relays
<1>2. Opened(Seq(Bytes), stream, <<>>, stream')
  <2>1. stream \in Seq([Relays -> Seq(Bytes)]) /\ stream' = Append(stream, [r \in Relays |-> <<>>])
    BY DEF Types, Connect
  <2> QED
    BY <1>1, <2>1, OneMore
<1>3. Opened(Seq(Nat), sent, <<>>, sent')
  <2>1. sent \in Seq([Relays -> Seq(Nat)]) /\ sent' = Append(sent, [r \in Relays |-> <<>>])
    BY DEF Types, Connect
  <2> QED
    BY <1>1, <2>1, OneMore
<1>4. Opened(Seq(Seq(Bytes)), read, <<>>, read')
  <2>1. read \in Seq([Relays -> Seq(Seq(Bytes))]) /\ read' = Append(read, [r \in Relays |-> <<>>])
    BY DEF Types, Connect
  <2> QED
    BY <1>1, <2>1, OneMore
<1>5. Len(stream) \in Nat /\ Len(sent) = Len(stream) /\ Len(read) = Len(stream)
  <2>1. stream \in Seq([Relays -> Seq(Bytes)])
    BY DEF Types
  <2>2. Len(stream) \in Nat
    BY <2>1
  <2> QED
    BY <2>2 DEF Types, opened
<1>6. Types'
  <2>1. conn' \in [Relays -> Nat] /\ accepted' \in 0..opened'
    <3>1. conn' = [conn EXCEPT !["phone"] = opened + 1] /\ accepted' = accepted
      BY DEF Connect
    <3>2. opened \in Nat /\ opened' = opened + 1
      BY <1>2, <1>5 DEF opened, Opened
    <3>3. conn \in [Relays -> Nat] /\ accepted \in 0..opened
      BY DEF Types
    <3>4. conn' \in [Relays -> Nat]
      <4>1. opened + 1 \in Nat
        BY <3>2
      <4> HIDE DEF opened
      <4> QED
        BY <3>1, <3>3, <4>1
    <3>5. accepted' \in 0..opened'
      BY <3>1, <3>2, <3>3
    <3> QED
      BY <3>4, <3>5
  <2>2. rx' \in [Relays -> Seq(Bytes)] /\ pc' \in [Relays -> {"connect", "select", "read", "udp", "write", "close"}]
    BY <1>1 DEF Types, Connect
  <2> QED
    <3>1. /\ stream' \in Seq([Relays -> Seq(Bytes)]) /\ sent' \in Seq([Relays -> Seq(Nat)])
          /\ read' \in Seq([Relays -> Seq(Seq(Bytes))])
          /\ Len(sent') = opened' /\ Len(read') = opened'
      BY <1>2, <1>3, <1>4, <1>5 DEF opened, Opened
    <3>2. UNCHANGED <<offered, udp, wr, received, udp_ready>>
      BY DEF Connect
    <3> QED
      BY <2>1, <2>2, <3>1, <3>2 DEF Types
<1> QED
  BY <1>2, <1>3, <1>4, <1>5, <1>6 DEF opened, Opened

LEMMA UdpTakeDoes ==
    ASSUME Types, ConnInv, ReadyInv, NumbersInv, NEW r \in Relays, UdpTake(r)
    PROVE  /\ Types' /\ opened' = opened /\ conn[r] \in 1..opened
           /\ udp[r] # <<>> /\ Head(udp[r]) = udp[r][1] /\ 1 \in 1..Len(udp[r])
           /\ Head(udp[r]) \in Numbers(r)
           /\ \A c \in 1..opened, q \in Relays :
                sent'[c][q] = IF c = conn[r] /\ q = r THEN Append(sent[c][q], Head(udp[r]))
                              ELSE sent[c][q]
<1> DEFINE d == Head(udp[r])
           c0 == conn[r]
<1>1. udp[r] # <<>> /\ udp[r] \in Seq(Nat) /\ pc[r] = "udp"
  BY DEF UdpTake, ReadyInv, Types
<1>2. d \in Nat /\ d = udp[r][1] /\ 1 \in 1..Len(udp[r]) /\ Tail(udp[r]) \in Seq(Nat)
  BY <1>1
<1>3. d \in Numbers(r)
  <2>1. d \in 1..offered[r] /\ offered[r] <= Len(Payload[r]) /\ offered[r] \in Nat
    BY <1>2 DEF NumbersInv, Types
  <2>2. Payload[r] \in Seq(Seq(Bytes))
    BY TunnelAssumption
  <2>3. Len(Payload[r]) \in Nat
    BY <2>2
  <2> QED
    BY <2>1, <2>3 DEF Numbers
<1>4. c0 \in 1..opened /\ opened = Len(sent) /\ opened = Len(stream) /\ opened = Len(read)
  BY <1>1, Holding DEF Types, opened
<1>5. sent[c0][r] \in Seq(Nat)
  BY <1>4, TypesAt
<1> DEFINE v == Append(sent[c0][r], d)
<1>6. v \in Seq(Nat)
  BY <1>2, <1>5, AppendProperties
<1>7. sent' = [sent EXCEPT ![c0][r] = v]
  BY DEF UdpTake
<1>8. FrameOf(r, d) \in Seq(Bytes) /\ wr' = [wr EXCEPT ![r] = FrameOf(r, d)]
  BY <1>3, FrameOfType DEF UdpTake, FrameOf
<1> HIDE DEF v, c0, d
<1>9. Updated(Seq(Nat), sent, c0, r, v, sent')
  <2>1. sent \in Seq([Relays -> Seq(Nat)]) /\ c0 \in 1..Len(sent)
    BY <1>4 DEF Types
  <2> QED
    BY <1>6, <1>7, <2>1, UpdateAt
<1>10. Types'
  <2>1. udp' \in [Relays -> Seq(Nat)] /\ wr' \in [Relays -> Seq(Bytes)]
    BY <1>2, <1>8, ZenonT(40) DEF Types, UdpTake
  <2>2. pc' \in [Relays -> {"connect", "select", "read", "udp", "write", "close"}]
    BY DEF Types, UdpTake
  <2> QED
    BY <1>4, <1>9, <2>1, <2>2 DEF Types, UdpTake, tcpVars, opened, Updated
<1>11. opened' = opened
  BY DEF UdpTake, tcpVars, opened
<1> QED
  BY <1>1, <1>2, <1>3, <1>4, <1>9, <1>10, <1>11 DEF v, c0, d, Updated

\* read_frame() of r gives the engine the next datagram p of the n + 1 that the other end o
\* has put on connection c.
Extracts(r, c, o, n, p) ==
    /\ c = conn[r] /\ o = Other(r) /\ n = Len(read[c][r]) /\ p = Payload[o][sent[c][o][n + 1]]
    /\ opened' = opened /\ c \in 1..opened /\ o \in Relays /\ Other(o) = r
    /\ n \in Nat /\ n + 1 \in 1..Len(sent[c][o]) /\ p \in Seq(Bytes)
    /\ rx' = [rx EXCEPT ![r] = SubSeq(rx[r], 4 + FrameLen(rx[r]) + 1, Len(rx[r]))]
    /\ FramesIn(SubSeq(rx[r], 4 + FrameLen(rx[r]) + 1, Len(rx[r]))
                  \o (stream[c][o] \o On(c, o, wr)),
                o, sent[c][o], n + 1, MayWrite(c, o))
    /\ \A d \in 1..opened, q \in Relays :
         read'[d][q] = IF d = c /\ q = r THEN Append(read[d][q], p) ELSE read[d][q]
    /\ received' = received \/ received' = [received EXCEPT ![r] = Append(received[r], p)]

LEMMA ExtractDoes ==
    ASSUME TunnelInv, NEW r \in Relays, ReadExtract(r)
    PROVE  Types' /\ \E c, o, n, p : Extracts(r, c, o, n, p)
<1>0. PICK c, o, n, p : c = conn[r] /\ o = Other(r) /\ n = Len(read[c][r])
                        /\ p = Payload[o][sent[c][o][n + 1]]
  OBVIOUS
<1> DEFINE x == rx[r]
           len == FrameLen(x)
<1>1. Types /\ pc[r] = "read" /\ HasHeader(x) /\ Len(x) >= 4 + len
  BY DEF TunnelInv, ReadExtract, HasFrame, kFrameHeaderSize
<1>2. /\ c \in 1..opened /\ o \in Relays /\ n \in Nat
      /\ FirstIn(x, stream[c][o] \o On(c, o, wr), o, sent[c][o], n, MayWrite(c, o))
  BY <1>0, <1>1, NextFrame
<1>3. /\ n + 1 \in 1..Len(sent[c][o]) /\ p \in Seq(Bytes) /\ len \in 1..kMaxFramePayload
      /\ SubSeq(x, 4 + 1, 4 + len) = p
      /\ FramesIn(SubSeq(x, 4 + len + 1, Len(x)) \o (stream[c][o] \o On(c, o, wr)),
                  o, sent[c][o], n + 1, MayWrite(c, o))
  BY <1>0, <1>1, <1>2 DEF FirstIn
<1> HIDE DEF len
<1> DEFINE x2 == SubSeq(x, 4 + len + 1, Len(x))
           v == Append(read[c][r], p)
<1>4. /\ rx' = [rx EXCEPT ![r] = x2] /\ read' = [read EXCEPT ![c][r] = v]
      /\ received' = [received EXCEPT ![r] =
                        IF r = "pc" \/ peer_known THEN Append(received[r], p) ELSE received[r]]
      /\ pc' = [pc EXCEPT ![r] = AfterRead(r, FALSE)]
  BY <1>0, <1>3 DEF ReadExtract, kFrameHeaderSize, len
<1>5. x \in Seq(Bytes) /\ x2 \in Seq(Bytes)
  <2>1. x \in Seq(Bytes)
    BY <1>1 DEF Types
  <2> HIDE DEF x
  <2>2. Len(x) \in Nat
    BY <2>1
  <2> DEFINE e == 4 + len
  <2>3. e \in 0..Len(x)
    <3>1. kMaxFramePayload \in Nat
      BY TunnelAssumption
    <3>a. len \in 1..kMaxFramePayload
      BY <1>3, Zenon
    <3>2. len \in Nat
      BY <3>1, <3>a
    <3>3. Len(x) >= 4 + len
      BY <1>1 DEF len
    <3> QED
      BY <2>2, <3>2, <3>3
  <2> HIDE DEF e
  <2>4. SubSeq(x, e + 1, Len(x)) \in Seq(Bytes)
    BY <2>1, <2>3, SplitAt
  <2> QED
    BY <2>1, <2>4 DEF e
<1>6. opened = Len(read) /\ opened' = opened /\ read[c][r] \in Seq(Seq(Bytes))
  BY <1>1, <1>2, TypesAt DEF Types, ReadExtract, tcpVars, opened
<1>7. v \in Seq(Seq(Bytes))
  BY <1>3, <1>6, AppendProperties
<1> HIDE DEF v, x2, x
<1>8. Updated(Seq(Seq(Bytes)), read, c, r, v, read')
  <2>1. read \in Seq([Relays -> Seq(Seq(Bytes))]) /\ c \in 1..Len(read)
    BY <1>1, <1>2, <1>6 DEF Types
  <2>2. read' = [read EXCEPT ![c][r] = v]
    BY <1>4
  <2> QED
    BY <1>7, <2>1, <2>2, UpdateAt
<1>9. received' \in [Relays -> Seq(Seq(Bytes))]
  <2>1. received \in [Relays -> Seq(Seq(Bytes))]
    BY <1>1 DEF Types
  <2>2. Append(received[r], p) \in Seq(Seq(Bytes))
    BY <1>3, <2>1, AppendProperties
  <2> QED
    BY <1>4, <2>1, <2>2
<1>10. received' = received \/ received' = [received EXCEPT ![r] = Append(received[r], p)]
  BY <1>1, <1>4 DEF Types
<1>11. Types'
  <2>1. AfterRead(r, FALSE) \in {"udp", "select"}
    BY DEF AfterRead
  <2>2. pc' \in [Relays -> {"connect", "select", "read", "udp", "write", "close"}]
    BY <1>1, <1>4, <2>1 DEF Types
  <2>3. rx' \in [Relays -> Seq(Bytes)]
    BY <1>1, <1>4, <1>5 DEF Types
  <2> QED
    BY <1>1, <1>6, <1>8, <1>9, <2>2, <2>3 DEF Types, ReadExtract, tcpVars, opened, Updated
<1>12. \A d \in 1..opened, q \in Relays :
         read'[d][q] = IF d = c /\ q = r THEN Append(read[d][q], p) ELSE read[d][q]
  BY <1>6, <1>8 DEF v, Updated
<1>13. rx' = [rx EXCEPT ![r] = SubSeq(rx[r], 4 + FrameLen(rx[r]) + 1, Len(rx[r]))]
  BY <1>4, Zenon DEF x2, x, len
<1>14. FramesIn(SubSeq(rx[r], 4 + FrameLen(rx[r]) + 1, Len(rx[r]))
                  \o (stream[c][o] \o On(c, o, wr)),
                o, sent[c][o], n + 1, MayWrite(c, o))
  BY <1>3, Zenon DEF x, len
<1>15. Other(o) = r
  BY <1>0, OtherEnd
<1>16. Extracts(r, c, o, n, p)
  BY <1>0, <1>2, <1>3, <1>6, <1>10, <1>12, <1>13, <1>14, <1>15 DEF Extracts
<1> QED
  BY <1>11, <1>16

LEMMA ReadRecvDoes ==
    ASSUME Types, ConnInv, NEW r \in Relays, ReadRecv(r)
    PROVE  /\ Types' /\ opened' = opened
           /\ \A d \in 1..opened, q \in Relays : InTransit(d, q)' = InTransit(d, q)
<1> DEFINE c == conn[r]
           o == Other(r)
           s == stream[c][o]
           x == rx[r]
<1>1. /\ c \in 1..opened /\ o \in Relays /\ o # r /\ Other(o) = r
      /\ s \in Seq(Bytes) /\ x \in Seq(Bytes)
  <2>1. c \in 1..opened
    BY Holding DEF ReadRecv
  <2>2. o \in Relays /\ o # r /\ Other(o) = r
    BY OtherEnd
  <2>3. x \in Seq(Bytes)
    BY DEF Types
  <2> QED
    BY <2>1, <2>2, <2>3, TypesAt
<1>2. PICK k \in 1..Len(s) :
        /\ rx' = [rx EXCEPT ![r] = x \o SubSeq(s, 1, k)]
        /\ stream' = [stream EXCEPT ![c][o] = SubSeq(s, k + 1, Len(s))]
  BY DEF ReadRecv, Incoming
<1>3. UNCHANGED <<offered, udp, conn, accepted, wr, pc, udp_ready, received, sent, read>>
  BY DEF ReadRecv, histVars
<1> HIDE DEF s, x, c, o
<1> DEFINE s1 == SubSeq(s, 1, k)
           s2 == SubSeq(s, k + 1, Len(s))
<1>4. s1 \in Seq(Bytes) /\ s2 \in Seq(Bytes) /\ k \in 0..Len(s)
  <2>1. k \in 0..Len(s)
    BY <1>1
  <2> QED
    BY <1>1, <2>1, SplitAt
<1>5. x \o s1 \in Seq(Bytes)
  BY <1>1, <1>4, ConcatProperties
<1>6. Updated(Seq(Bytes), stream, c, o, s2, stream')
  <2>1. stream \in Seq([Relays -> Seq(Bytes)]) /\ c \in 1..Len(stream)
    BY <1>1 DEF Types, opened
  <2>2. stream' = [stream EXCEPT ![c][o] = s2]
    BY <1>2
  <2> HIDE DEF s2
  <2> QED
    BY <1>1, <1>4, <2>1, <2>2, UpdateAt
<1>7. rx' = [rx EXCEPT ![r] = x \o s1]
  BY <1>2
<1> HIDE DEF s1, s2
<1>8. opened' = opened /\ stream' \in Seq([Relays -> Seq(Bytes)])
      /\ \A d \in 1..opened, q \in Relays :
           stream'[d][q] = IF d = c /\ q = o THEN s2 ELSE stream[d][q]
  BY <1>6 DEF Updated, opened
<1>9. rx' \in [Relays -> Seq(Bytes)] /\ rx'[r] = x \o s1 /\ \A q \in Relays : q # r => rx'[q] = rx[q]
  BY <1>5, <1>7 DEF Types
<1>10. Types'
  BY <1>3, <1>8, <1>9 DEF Types
<1>11. ASSUME NEW d \in 1..opened, NEW q \in Relays
       PROVE  InTransit(d, q)' = InTransit(d, q)
  <2>1. On(d, q, wr)' = On(d, q, wr)
    BY <1>3 DEF On
  <2>2. CASE d = c /\ q = o
    <3> DEFINE w == On(d, q, wr)
    <3>1. w \in Seq(Bytes)
      <4>1. <<>> \in Seq(Bytes)
        OBVIOUS
      <4> QED
        BY <4>1 DEF On, Types
    <3>2. On(d, Other(q), rx) = x /\ On(d, Other(q), rx)' = x \o s1
      BY <1>1, <1>3, <1>9, <2>2 DEF On, c, x
    <3>3. stream[d][q] = s /\ stream'[d][q] = s2
      BY <1>8, <2>2 DEF s
    <3> HIDE DEF w
    <3>4. (x \o s1) \o s2 \o w = x \o s \o w
      BY <1>1, <1>4, <3>1, RecvMoves, ZenonT(60) DEF s1, s2
    <3>5. InTransit(d, q) = x \o s \o w /\ InTransit(d, q)' = (x \o s1) \o s2 \o w
      BY <2>1, <3>2, <3>3 DEF InTransit, w
    <3> QED
      BY <3>4, <3>5
  <2>3. CASE ~(d = c /\ q = o)
    <3>1. stream'[d][q] = stream[d][q]
      BY <1>8, <2>3
    <3>2. On(d, Other(q), rx)' = On(d, Other(q), rx)
      <4>1. CASE q = o
        BY <1>1, <1>3, <2>3, <4>1 DEF On, c
      <4>2. CASE q # o
        <5>1. Other(q) # r /\ Other(q) \in Relays
          BY <1>1, <4>2, OtherEnd
        <5> QED
          BY <1>3, <1>9, <5>1 DEF On
      <4> QED
        BY <4>1, <4>2
    <3> QED
      BY <2>1, <3>1, <3>2 DEF InTransit
  <2> QED
    BY <2>2, <2>3
<1> QED
  BY <1>8, <1>10, <1>11

LEMMA MinOfTwo ==
    ASSUME NEW a \in Nat, NEW b \in Nat
    PROVE  Min({a, b}) \in Nat /\ Min({a, b}) <= a
<1>1. \E x \in {a, b} : \A y \in {a, b} : x <= y
  <2>1. CASE a <= b
    BY <2>1
  <2>2. CASE b <= a
    BY <2>2
  <2> QED
    BY <2>1, <2>2
<1>2. Min({a, b}) \in {a, b} /\ \A y \in {a, b} : Min({a, b}) <= y
  BY <1>1 DEF Min
<1> QED
  BY <1>2

LEMMA WriteSomeDoes ==
    ASSUME Types, ConnInv, NEW r \in Relays, WriteSome(r)
    PROVE  /\ Types' /\ opened' = opened
           /\ \A d \in 1..opened, q \in Relays : InTransit(d, q)' = InTransit(d, q)
           /\ wr'[r] # <<>> => pc'[r] = "write"
           /\ \A q \in Relays : q # r => wr'[q] = wr[q]
<1> DEFINE c == conn[r]
           s == stream[c][r]
           w == wr[r]
           k == Min({Len(w), Capacity - Len(s)})
<1>1. c \in 1..opened /\ s \in Seq(Bytes) /\ w \in Seq(Bytes) /\ Len(w) \in Nat
  <2>1. c \in 1..opened
    BY Holding DEF WriteSome
  <2>2. w \in Seq(Bytes)
    BY DEF Types
  <2>3. Len(w) \in Nat
    BY <2>2
  <2> QED
    BY <2>1, <2>2, <2>3, TypesAt
<1>2. k \in 0..Len(w)
  <2>1. Len(s) \in Nat /\ Capacity \in Nat /\ ~(Len(s) >= Capacity)
    <3>1. Len(s) \in Nat
      BY <1>1
    <3> QED
      BY <3>1, TunnelAssumption DEF WriteSome, Full
  <2>2. Capacity - Len(s) \in Nat
    BY <2>1
  <2> DEFINE a == Len(w)
             b == Capacity - Len(s)
  <2>3. a \in Nat /\ b \in Nat
    BY <1>1, <2>2
  <2> HIDE DEF a, b
  <2>4. Min({a, b}) \in Nat /\ Min({a, b}) <= a
    BY <2>3, MinOfTwo
  <2>5. Min({a, b}) \in 0..a
    BY <2>3, <2>4
  <2> QED
    BY <2>5 DEF a, b
<1> DEFINE w1 == SubSeq(w, 1, k)
           w2 == SubSeq(w, k + 1, Len(w))
<1>3. /\ stream' = [stream EXCEPT ![c][r] = s \o w1]
      /\ wr' = [wr EXCEPT ![r] = w2]
      /\ pc' = [pc EXCEPT ![r] = IF k < Len(w) THEN "write"
                                 ELSE IF closing[r] THEN "close" ELSE "select"]
      /\ UNCHANGED <<offered, udp, conn, accepted, rx, udp_ready, received, sent, read>>
  BY DEF WriteSome, histVars
<1> HIDE DEF c, s, w, k
<1>4. w1 \in Seq(Bytes) /\ w2 \in Seq(Bytes) /\ Len(w2) = Len(w) - k
  BY <1>1, <1>2, SplitAt
<1> HIDE DEF w1, w2
<1>5. s \o w1 \in Seq(Bytes)
  BY <1>1, <1>4, ConcatProperties
<1> DEFINE s2 == s \o w1
<1> HIDE DEF s2
<1>6. Updated(Seq(Bytes), stream, c, r, s2, stream')
  <2>1. stream \in Seq([Relays -> Seq(Bytes)]) /\ c \in 1..Len(stream)
    BY <1>1 DEF Types, opened
  <2>2. stream' = [stream EXCEPT ![c][r] = s2] /\ s2 \in Seq(Bytes)
    BY <1>3, <1>5 DEF s2
  <2> QED
    BY <2>1, <2>2, UpdateAt
<1>7. opened' = opened /\ stream' \in Seq([Relays -> Seq(Bytes)])
      /\ \A d \in 1..opened, q \in Relays :
           stream'[d][q] = IF d = c /\ q = r THEN s2 ELSE stream[d][q]
  BY <1>6 DEF Updated, opened
<1>8. /\ wr' \in [Relays -> Seq(Bytes)] /\ wr'[r] = w2
      /\ \A q \in Relays : q # r => wr'[q] = wr[q]
  BY <1>3, <1>4 DEF Types
<1>9. pc' \in [Relays -> {"connect", "select", "read", "udp", "write", "close"}]
      /\ (k < Len(w) => pc'[r] = "write")
  BY <1>3 DEF Types
<1>10. Types'
  BY <1>3, <1>7, <1>8, <1>9 DEF Types
<1>11. wr'[r] # <<>> => pc'[r] = "write"
  <2>1. CASE k < Len(w)
    BY <1>9, <2>1
  <2>2. CASE k >= Len(w)
    <3>1. Len(w2) = 0
      BY <1>1, <1>2, <1>4, <2>2
    <3>2. w2 = <<>>
      BY <1>4, <3>1, EmptySeq
    <3> QED
      BY <1>8, <3>2
  <2>3. k < Len(w) \/ k >= Len(w)
    BY <1>1, <1>2
  <2> QED
    BY <2>1, <2>2, <2>3
<1>12. ASSUME NEW d \in 1..opened, NEW q \in Relays
       PROVE  InTransit(d, q)' = InTransit(d, q)
  <2>1. On(d, Other(q), rx)' = On(d, Other(q), rx)
    BY <1>3 DEF On
  <2>2. CASE d = c /\ q = r
    <3> DEFINE a == On(d, Other(q), rx)
    <3>1. a \in Seq(Bytes)
      <4>1. <<>> \in Seq(Bytes)
        OBVIOUS
      <4> QED
        BY <4>1, OtherEnd DEF On, Types
    <3>2. On(d, q, wr) = w /\ On(d, q, wr)' = w2
      BY <1>3, <1>8, <2>2 DEF On, c, w
    <3>3. stream[d][q] = s /\ stream'[d][q] = s \o w1
      BY <1>7, <2>2 DEF s, s2
    <3> HIDE DEF a
    <3>4. a \o (s \o w1) \o w2 = a \o s \o w
      BY <1>1, <1>2, <3>1, SendMoves, ZenonT(60) DEF w1, w2
    <3>5. InTransit(d, q) = a \o s \o w /\ InTransit(d, q)' = a \o (s \o w1) \o w2
      BY <2>1, <3>2, <3>3 DEF InTransit, a
    <3> QED
      BY <3>4, <3>5
  <2>3. CASE ~(d = c /\ q = r)
    <3>1. stream'[d][q] = stream[d][q]
      BY <1>7, <2>3
    <3>2. On(d, q, wr)' = On(d, q, wr)
      BY <1>3, <1>8, <2>3 DEF On, c
    <3> QED
      BY <2>1, <3>1, <3>2 DEF InTransit
  <2> QED
    BY <2>2, <2>3
<1> QED
  BY <1>7, <1>8, <1>10, <1>11, <1>12

-----------------------------------------------------------------------------
(* Every step keeps the invariant                                          *)

\* A decoded length is never beyond the cap: read_frame() never gives up a buffer for it.
LEMMA NeverOversize ==
    ASSUME TunnelInv, NEW r \in Relays, pc[r] = "read"
    PROVE  ~Oversize(rx[r])
<1> SUFFICES ASSUME HasHeader(rx[r]), FrameLen(rx[r]) > kMaxFramePayload
             PROVE  FALSE
  BY DEF Oversize
<1>1. FrameLen(rx[r]) \in 1..kMaxFramePayload
  BY NextFrame DEF FirstIn
<1>2. kMaxFramePayload \in Nat
  BY TunnelAssumption
<1> QED
  BY <1>1, <1>2

LEMMA ReadClosedDoes ==
    ASSUME TunnelInv, NEW r \in Relays, ReadClosed(r)
    PROVE  rx' = rx
<1>1. ~Oversize(rx[r])
  BY NeverOversize DEF ReadClosed
<1> QED
  BY <1>1 DEF ReadClosed, TunnelInv, Types

LEMMA TypesStep ==
    ASSUME TunnelInv, [Next]_vars
    PROVE  Types'
<1>1. Types /\ ConnInv /\ ReadyInv /\ NumbersInv
  BY DEF TunnelInv
<1> DEFINE Pcs == {"connect", "select", "read", "udp", "write", "close"}
<1>2. CASE Connect
  BY <1>1, <1>2, ConnectDoes
<1>3. CASE Accept
  <2>1. /\ accepted' = accepted + 1 /\ accepted < opened
        /\ conn' = [conn EXCEPT !["pc"] = accepted + 1]
        /\ rx' = [rx EXCEPT !["pc"] = <<>>] /\ udp' = [udp EXCEPT !["pc"] = <<>>]
        /\ pc' = [pc EXCEPT !["pc"] = "select"]
        /\ UNCHANGED <<offered, stream, wr, udp_ready, received, sent, read>>
    BY <1>3 DEF Accept, histVars
  <2>2. opened \in Nat /\ accepted \in 0..opened /\ opened' = opened
    BY <1>1, <2>1 DEF Types, opened
  <2>3. accepted + 1 \in Nat /\ accepted + 1 \in 0..opened
    BY <2>1, <2>2
  <2>4. conn' \in [Relays -> Nat]
    <3> DEFINE next == accepted + 1
    <3> HIDE DEF next
    <3>1. next \in Nat /\ conn' = [conn EXCEPT !["pc"] = next]
      BY <2>1, <2>3 DEF next
    <3> QED
      BY <1>1, <3>1 DEF Types
  <2>5. rx' \in [Relays -> Seq(Bytes)] /\ udp' \in [Relays -> Seq(Nat)] /\ pc' \in [Relays -> Pcs]
    <3>1. <<>> \in Seq(Bytes) /\ <<>> \in Seq(Nat)
      OBVIOUS
    <3> QED
      BY <1>1, <2>1, <3>1 DEF Types
  <2>6. accepted' \in 0..opened'
    BY <2>1, <2>2, <2>3
  <2> QED
    BY <1>1, <2>1, <2>2, <2>4, <2>5, <2>6 DEF Types
<1>4. CASE CableBreak \/ UNCHANGED vars
  BY <1>1, <1>4 DEF Types, CableBreak, vars, tcpVars, histVars, opened
<1>5. ASSUME NEW r \in Relays, Select(r) \/ ReadTimeout(r) \/ ReadClosed(r)
      PROVE  Types'
  <2>1. rx' = rx
    BY <1>5, ReadClosedDoes DEF Select, ReadTimeout
  <2>2. pc' \in [Relays -> Pcs] /\ udp_ready' \in [Relays -> BOOLEAN]
    <3>1. \A closed \in BOOLEAN : AfterRead(r, closed) \in Pcs
      BY DEF AfterRead
    <3>2. pc \in [Relays -> Pcs] /\ udp_ready \in [Relays -> BOOLEAN]
      BY <1>1 DEF Types
    <3>3. \E v \in Pcs : pc' = [pc EXCEPT ![r] = v]
      BY <1>5, <3>1 DEF Select, ReadTimeout, ReadClosed
    <3>4. udp_ready' = udp_ready \/ \E v \in BOOLEAN : udp_ready' = [udp_ready EXCEPT ![r] = v]
      BY <1>5 DEF Select, ReadTimeout, ReadClosed
    <3> QED
      BY <3>2, <3>3, <3>4
  <2>3. UNCHANGED <<offered, udp, conn, accepted, stream, wr, received, sent, read>>
    BY <1>5 DEF Select, ReadTimeout, ReadClosed, tcpVars, histVars
  <2> QED
    BY <1>1, <2>1, <2>2, <2>3 DEF Types, opened
<1>6. ASSUME NEW r \in Relays, ReadExtract(r) PROVE Types'
  BY <1>6, ExtractDoes
<1>7. ASSUME NEW r \in Relays, ReadRecv(r) PROVE Types'
  BY <1>1, <1>7, ReadRecvDoes
<1>8. ASSUME NEW r \in Relays, UdpTake(r) PROVE Types'
  BY <1>1, <1>8, UdpTakeDoes
<1>9. ASSUME NEW r \in Relays, WriteSome(r) PROVE Types'
  BY <1>1, <1>9, WriteSomeDoes
<1>10. ASSUME NEW r \in Relays, WriteFails(r) PROVE Types'
  <2>1. <<>> \in Seq(Bytes)
    OBVIOUS
  <2> QED
    BY <1>1, <1>10, <2>1 DEF Types, WriteFails, tcpVars, histVars, opened
<1>11. ASSUME NEW r \in Relays, Close(r) PROVE Types'
  BY <1>1, <1>11 DEF Types, Close, histVars, opened
<1>12. ASSUME NEW r \in Relays, Offer(r) PROVE Types'
  <2>1. /\ offered[r] < Len(Payload[r]) /\ offered' = [offered EXCEPT ![r] = offered[r] + 1]
        /\ udp' = [udp EXCEPT ![r] = Append(udp[r], offered[r] + 1)]
        /\ UNCHANGED <<conn, accepted, stream, wr, rx, pc, udp_ready, received, sent, read>>
    BY <1>12 DEF Offer, tcpVars, histVars
  <2>2. offered \in [Relays -> Nat] /\ udp[r] \in Seq(Nat)
        /\ \A q \in Relays : offered[q] <= Len(Payload[q])
    BY <1>1 DEF Types
  <2> DEFINE n == offered[r] + 1
  <2>3. n \in Nat /\ n <= Len(Payload[r])
    <3>1. Payload[r] \in Seq(Seq(Bytes))
      BY TunnelAssumption
    <3>2. Len(Payload[r]) \in Nat
      BY <3>1
    <3> QED
      BY <2>1, <2>2, <3>2
  <2>4. offered' = [offered EXCEPT ![r] = n] /\ udp' = [udp EXCEPT ![r] = Append(udp[r], n)]
    BY <2>1
  <2> HIDE DEF n
  <2>5. Append(udp[r], n) \in Seq(Nat)
    BY <2>2, <2>3, AppendProperties
  <2>6. offered' \in [Relays -> Nat] /\ \A q \in Relays : offered'[q] <= Len(Payload[q])
    BY <2>2, <2>3, <2>4
  <2>7. udp' \in [Relays -> Seq(Nat)]
    BY <1>1, <2>4, <2>5 DEF Types
  <2> QED
    BY <1>1, <2>1, <2>6, <2>7 DEF Types, opened
<1> QED
  BY <1>2, <1>3, <1>4, <1>5, <1>6, <1>7, <1>8, <1>9, <1>10, <1>11, <1>12 DEF Next, Iterate

\* Only the phone makes connections.
LEMMA OpenedStep ==
    ASSUME TunnelInv, [Next]_vars, ~Connect
    PROVE  opened' = opened
<1>1. Types /\ ConnInv /\ ReadyInv /\ NumbersInv
  BY DEF TunnelInv
<1>2. ASSUME NEW r \in Relays, ReadRecv(r) \/ WriteSome(r) PROVE opened' = opened
  BY <1>1, <1>2, ReadRecvDoes, WriteSomeDoes
<1>3. CASE Accept \/ CableBreak \/ UNCHANGED vars
  BY <1>3 DEF Accept, CableBreak, vars, tcpVars, opened
<1>4. ASSUME NEW r \in Relays,
             \/ Select(r) \/ ReadExtract(r) \/ ReadTimeout(r) \/ ReadClosed(r)
             \/ UdpTake(r) \/ WriteFails(r) \/ Close(r) \/ Offer(r)
      PROVE  opened' = opened
  BY <1>4 DEF Select, ReadExtract, ReadTimeout, ReadClosed, UdpTake, WriteFails, Close, Offer,
     tcpVars, opened
<1> QED
  BY <1>2, <1>3, <1>4 DEF Next, Iterate

LEMMA ConnStep ==
    ASSUME TunnelInv, [Next]_vars
    PROVE  ConnInv' /\ ReadyInv'
<1>1. Types /\ ConnInv /\ ReadyInv /\ NumbersInv
  BY DEF TunnelInv
<1>2. /\ conn \in [Relays -> Nat] /\ pc \in [Relays -> {"connect", "select", "read", "udp", "write", "close"}]
      /\ wr \in [Relays -> Seq(Bytes)] /\ udp \in [Relays -> Seq(Nat)]
      /\ udp_ready \in [Relays -> BOOLEAN]
      /\ opened \in Nat /\ accepted \in 0..opened
      /\ "pc" \in Relays /\ "phone" \in Relays /\ Relays = {"pc", "phone"}
  <2>1. opened \in Nat
    BY <1>1 DEF Types, opened
  <2> QED
    BY <1>1, <2>1 DEF Types, Relays
<1>3. /\ conn["phone"] \in {0, opened} /\ conn["pc"] \in {0, accepted}
      /\ \A r \in Relays : (conn[r] = 0 <=> pc[r] = "connect") /\ (wr[r] # <<>> => pc[r] = "write")
      /\ \A c \in 1..opened : c > accepted => sent[c]["pc"] = <<>> /\ read[c]["pc"] = <<>>
      /\ \A r \in Relays : pc[r] = "udp" \/ (pc[r] = "read" /\ udp_ready[r]) => udp[r] # <<>>
  BY <1>1 DEF ConnInv, ReadyInv
<1>4. CASE Connect
  <2>1. /\ opened' = opened + 1
        /\ \A c \in 1..opened, r \in Relays : sent'[c][r] = sent[c][r] /\ read'[c][r] = read[c][r]
        /\ \A r \in Relays : sent'[opened + 1][r] = <<>> /\ read'[opened + 1][r] = <<>>
    BY <1>1, <1>4, ConnectDoes
  <2>2. /\ pc["phone"] = "connect" /\ conn' = [conn EXCEPT !["phone"] = opened + 1]
        /\ pc' = [pc EXCEPT !["phone"] = "select"]
        /\ UNCHANGED <<udp, accepted, wr, udp_ready>>
    BY <1>4 DEF Connect
  <2> DEFINE m == opened + 1
  <2>3. m \in Nat /\ m # 0 /\ opened' = m /\ m > accepted
    BY <1>2, <2>1
  <2>4. \A c \in 1..m : c \in 1..opened \/ c = m
    BY <1>2
  <2>5. conn' = [conn EXCEPT !["phone"] = m]
    BY <2>2
  <2>6. \A c \in 1..opened' : c > accepted' => sent'[c]["pc"] = <<>> /\ read'[c]["pc"] = <<>>
    BY <1>2, <1>3, <2>1, <2>2, <2>3, <2>4
  <2> HIDE DEF m
  <2>7. conn'["phone"] = m /\ conn'["pc"] = conn["pc"] /\ pc'["phone"] = "select" /\ pc'["pc"] = pc["pc"]
    BY <1>2, <2>2, <2>5
  <2>8. ConnInv'
    BY <1>2, <1>3, <2>2, <2>3, <2>6, <2>7 DEF ConnInv
  <2>9. ReadyInv'
    BY <1>2, <1>3, <2>2, <2>7 DEF ReadyInv
  <2> QED
    BY <2>8, <2>9
<1>5. CASE Accept
  <2>1. /\ pc["pc"] = "connect" /\ accepted < opened /\ accepted' = accepted + 1
        /\ conn' = [conn EXCEPT !["pc"] = accepted + 1]
        /\ udp' = [udp EXCEPT !["pc"] = <<>>] /\ pc' = [pc EXCEPT !["pc"] = "select"]
        /\ UNCHANGED <<stream, wr, udp_ready, sent, read>>
    BY <1>5 DEF Accept, histVars
  <2>2. opened' = opened
    BY <2>1 DEF opened
  <2> DEFINE m == accepted + 1
  <2>3. m \in Nat /\ m # 0 /\ accepted' = m /\ conn' = [conn EXCEPT !["pc"] = m]
        /\ \A c \in 1..opened : c > m => c > accepted
    BY <1>2, <2>1
  <2> HIDE DEF m
  <2>4. conn'["pc"] = m /\ conn'["phone"] = conn["phone"] /\ pc'["pc"] = "select"
        /\ pc'["phone"] = pc["phone"] /\ udp'["phone"] = udp["phone"]
    BY <1>2, <2>1, <2>3
  <2>5. ConnInv'
    <3>1. conn'["phone"] \in {0, opened'} /\ conn'["pc"] \in {0, accepted'}
      BY <1>3, <2>2, <2>3, <2>4
    <3>2. \A r \in Relays : (conn'[r] = 0 <=> pc'[r] = "connect") /\ (wr'[r] # <<>> => pc'[r] = "write")
      BY <1>2, <1>3, <2>1, <2>3, <2>4, SMTT(30)
    <3>3. \A c \in 1..opened' : c > accepted' => sent'[c]["pc"] = <<>> /\ read'[c]["pc"] = <<>>
      BY <1>3, <2>1, <2>2, <2>3
    <3> QED
      BY <3>1, <3>2, <3>3 DEF ConnInv
  <2>6. ReadyInv'
    BY <1>2, <1>3, <2>1, <2>4 DEF ReadyInv
  <2> QED
    BY <2>5, <2>6
<1>6. CASE CableBreak \/ UNCHANGED vars
  <2>1. UNCHANGED <<conn, accepted, opened, pc, wr, sent, read, udp, udp_ready>>
    BY <1>6 DEF CableBreak, vars, tcpVars, histVars, opened
  <2> QED
    BY <1>3, <2>1 DEF ConnInv, ReadyInv
<1>7. ASSUME NEW r \in Relays, Iterate(r) \/ Offer(r), opened' = opened,
             conn'[r] = conn[r], pc'[r] # "connect", pc[r] # "connect",
             conn' = conn, accepted' = accepted,
             \A q \in Relays : q # r => pc'[q] = pc[q] /\ wr'[q] = wr[q],
             wr'[r] # <<>> => pc'[r] = "write",
             \A c \in 1..opened : c > accepted => sent'[c]["pc"] = sent[c]["pc"] /\ read'[c]["pc"] = read[c]["pc"]
      PROVE  ConnInv'
  <2>1. \A q \in Relays : (conn'[q] = 0 <=> pc'[q] = "connect") /\ (wr'[q] # <<>> => pc'[q] = "write")
    BY <1>2, <1>3, <1>7, SMTT(30)
  <2> QED
    BY <1>2, <1>3, <1>7, <2>1, ZenonT(60) DEF ConnInv
<1>8. ASSUME NEW r \in Relays,
             \/ Select(r) \/ ReadTimeout(r) \/ ReadClosed(r) \/ ReadRecv(r) \/ WriteFails(r)
      PROVE  ConnInv'
  <2>1. opened' = opened
    BY <1>1, <1>8, ReadRecvDoes DEF Select, ReadTimeout, ReadClosed, WriteFails, tcpVars, opened
  <2>2. UNCHANGED <<conn, accepted, sent, read>>
    BY <1>8 DEF Select, ReadTimeout, ReadClosed, ReadRecv, WriteFails, tcpVars, histVars
  <2>3. pc[r] # "connect" /\ pc'[r] # "connect"
    BY <1>2, <1>8 DEF Select, ReadTimeout, ReadClosed, ReadRecv, WriteFails, AfterRead
  <2>4. \A q \in Relays : q # r => pc'[q] = pc[q] /\ wr'[q] = wr[q]
    BY <1>2, <1>8 DEF Select, ReadTimeout, ReadClosed, ReadRecv, WriteFails
  <2>5. wr'[r] # <<>> => pc'[r] = "write"
    BY <1>2, <1>3, <1>8 DEF Select, ReadTimeout, ReadClosed, ReadRecv, WriteFails
  <2>6. Iterate(r)
    BY <1>8 DEF Iterate
  <2> QED
    BY <1>7, <2>1, <2>2, <2>3, <2>4, <2>5, <2>6
<1>9. ASSUME NEW r \in Relays, WriteSome(r) PROVE ConnInv'
  <2>1. /\ opened' = opened /\ (wr'[r] # <<>> => pc'[r] = "write")
        /\ \A q \in Relays : q # r => wr'[q] = wr[q]
    BY <1>1, <1>9, WriteSomeDoes
  <2>2. UNCHANGED <<conn, accepted, sent, read>>
    BY <1>9 DEF WriteSome, histVars
  <2>3. pc[r] # "connect" /\ pc'[r] # "connect" /\ \A q \in Relays : q # r => pc'[q] = pc[q]
    BY <1>2, <1>9 DEF WriteSome
  <2>4. Iterate(r)
    BY <1>9 DEF Iterate
  <2> QED
    BY <1>7, <2>1, <2>2, <2>3, <2>4
<1>10. ASSUME NEW r \in Relays, UdpTake(r) PROVE ConnInv'
  <2>1. /\ opened' = opened
        /\ \A c \in 1..opened, q \in Relays :
             ~(c = conn[r] /\ q = r) => sent'[c][q] = sent[c][q]
    BY <1>1, <1>10, UdpTakeDoes
  <2>2. UNCHANGED <<conn, accepted, read>>
    BY <1>10 DEF UdpTake, tcpVars
  <2>3. pc[r] = "udp" /\ pc'[r] = "write" /\ \A q \in Relays : q # r => pc'[q] = pc[q] /\ wr'[q] = wr[q]
    BY <1>2, <1>10 DEF UdpTake
  <2>4. conn[r] # 0
    BY <1>3, <2>3
  <2>5. \A c \in 1..opened : c > accepted => ~(c = conn[r] /\ "pc" = r)
    BY <1>2, <1>3, <2>4
  <2>6. Iterate(r)
    BY <1>10 DEF Iterate
  <2> QED
    BY <1>2, <1>7, <2>1, <2>2, <2>3, <2>5, <2>6
<1>11. ASSUME NEW r \in Relays, ReadExtract(r) PROVE ConnInv'
  <2>1. /\ opened' = opened
        /\ \A c \in 1..opened, q \in Relays :
             ~(c = conn[r] /\ q = r) => read'[c][q] = read[c][q]
    <3>1. PICK c, o, n, p : Extracts(r, c, o, n, p)
      BY <1>11, ExtractDoes
    <3> QED
      BY <3>1 DEF Extracts
  <2>2. UNCHANGED <<conn, accepted, sent, wr>>
    BY <1>11 DEF ReadExtract, tcpVars
  <2>3. pc[r] = "read" /\ pc'[r] \in {"udp", "select"} /\ \A q \in Relays : q # r => pc'[q] = pc[q]
    BY <1>2, <1>11 DEF ReadExtract, AfterRead
  <2>4. conn[r] # 0 /\ wr[r] = <<>>
    BY <1>3, <2>3
  <2>5. \A c \in 1..opened : c > accepted => ~(c = conn[r] /\ "pc" = r)
    BY <1>2, <1>3, <2>4
  <2>6. Iterate(r)
    BY <1>11 DEF Iterate
  <2> QED
    BY <1>2, <1>7, <2>1, <2>2, <2>3, <2>4, <2>5, <2>6
<1>12. ASSUME NEW r \in Relays, Close(r) PROVE ConnInv'
  <2>1. /\ pc[r] = "close" /\ conn' = [conn EXCEPT ![r] = 0] /\ pc' = [pc EXCEPT ![r] = "connect"]
        /\ UNCHANGED <<accepted, opened, wr, sent, read>>
    BY <1>12 DEF Close, histVars, opened
  <2>2. wr[r] = <<>>
    BY <1>3, <2>1
  <2>3. conn'[r] = 0 /\ pc'[r] = "connect" /\ \A q \in Relays : q # r => conn'[q] = conn[q] /\ pc'[q] = pc[q]
    BY <1>2, <2>1
  <2>4. \A q \in Relays : (conn'[q] = 0 <=> pc'[q] = "connect") /\ (wr'[q] # <<>> => pc'[q] = "write")
    BY <1>3, <2>1, <2>2, <2>3
  <2>5. conn'["phone"] \in {0, opened} /\ conn'["pc"] \in {0, accepted}
    BY <1>2, <1>3, <2>3
  <2> QED
    BY <1>3, <2>1, <2>4, <2>5 DEF ConnInv
<1>13. ASSUME NEW r \in Relays, Offer(r) PROVE ConnInv'
  <2>1. UNCHANGED <<conn, accepted, opened, pc, wr, sent, read>>
    BY <1>13 DEF Offer, tcpVars, histVars, opened
  <2> QED
    BY <1>3, <2>1 DEF ConnInv
<1>14. ASSUME NEW r \in Relays, Iterate(r) PROVE ReadyInv'
  <2> SUFFICES ASSUME NEW q \in Relays, pc'[q] = "udp" \/ (pc'[q] = "read" /\ udp_ready'[q])
               PROVE  udp'[q] # <<>>
    BY DEF ReadyInv
  <2>1. CASE q # r
    <3>1. UNCHANGED <<pc[q], udp_ready[q], udp[q]>>
      BY <1>2, <1>14, <2>1 DEF Iterate, Select, ReadExtract, ReadRecv, ReadTimeout, ReadClosed,
         UdpTake, WriteSome, WriteFails, Close
    <3> QED
      BY <1>3, <3>1
  <2>2. CASE q = r /\ Select(r)
    BY <1>2, <2>2 DEF Select
  <2>3. CASE q = r /\ (ReadExtract(r) \/ ReadRecv(r) \/ ReadTimeout(r) \/ ReadClosed(r))
    <3>1. UNCHANGED <<udp_ready, udp>> /\ pc[r] = "read"
      BY <2>3 DEF ReadExtract, ReadRecv, ReadTimeout, ReadClosed
    <3>2. pc'[r] = "udp" => udp_ready[r]
      BY <1>2, <2>3 DEF ReadExtract, ReadRecv, ReadTimeout, ReadClosed, AfterRead
    <3> QED
      BY <1>3, <2>3, <3>1, <3>2
  <2>4. CASE q = r /\ (UdpTake(r) \/ WriteSome(r) \/ WriteFails(r) \/ Close(r))
    <3>1. pc'[r] \notin {"udp", "read"}
      BY <1>2, <2>4 DEF UdpTake, WriteSome, WriteFails, Close
    <3> QED
      BY <2>4, <3>1
  <2> QED
    BY <1>14, <2>1, <2>2, <2>3, <2>4 DEF Iterate
<1>15. ASSUME NEW r \in Relays, Offer(r) PROVE ReadyInv'
  <2>1. UNCHANGED <<pc, udp_ready>> /\ udp' = [udp EXCEPT ![r] = Append(udp[r], offered[r] + 1)]
    BY <1>15 DEF Offer
  <2>2. \A q \in Relays : udp'[q] = udp[q] \/ udp'[q] # <<>>
    <3>1. offered[r] + 1 \in Nat /\ udp[r] \in Seq(Nat)
      BY <1>1 DEF Types
    <3>2. Append(udp[r], offered[r] + 1) # <<>>
      BY <3>1, AppendProperties
    <3> QED
      BY <1>2, <2>1, <3>2
  <2> QED
    BY <1>3, <2>1, <2>2 DEF ReadyInv
<1> QED
  BY <1>4, <1>5, <1>6, <1>8, <1>9, <1>10, <1>11, <1>12, <1>13, <1>14, <1>15 DEF Next, Iterate

LEMMA ReceivedStep ==
    ASSUME TunnelInv, [Next]_vars
    PROVE  ReceivedInv'
<1>1. Types /\ ReceivedInv
  BY DEF TunnelInv
<1>2. ASSUME received' = received, 
             \A c \in 1..opened : c \in 1..opened' /\ \A r \in Relays : read'[c][r] = read[c][r]
      PROVE  ReceivedInv'
  BY <1>1, <1>2 DEF ReceivedInv
<1>3. CASE Connect
  <2>1. /\ opened' = opened + 1 /\ opened \in Nat
        /\ \A c \in 1..opened, r \in Relays : read'[c][r] = read[c][r]
    BY <1>1, <1>3, ConnectDoes
  <2>2. \A c \in 1..opened : c \in 1..opened'
    BY <2>1
  <2>3. received' = received
    BY <1>3 DEF Connect
  <2> QED
    BY <1>2, <2>1, <2>2, <2>3
<1>4. CASE ~Connect /\ ~(\E r \in Relays : ReadExtract(r))
  <2>1. opened' = opened
    BY <1>4, OpenedStep
  <2>2. received' = received /\ read' = read
    BY <1>4 DEF Next, Iterate, Accept, CableBreak, Select, ReadRecv, ReadTimeout, ReadClosed,
       UdpTake, WriteSome, WriteFails, Close, Offer, vars, histVars
  <2> QED
    BY <1>2, <2>1, <2>2
<1>5. ASSUME NEW r \in Relays, ReadExtract(r) PROVE ReceivedInv'
  <2>1. PICK c, o, n, p : Extracts(r, c, o, n, p)
    BY <1>5, ExtractDoes
  <2>2. /\ c \in 1..opened /\ opened' = opened /\ p \in Seq(Bytes)
        /\ \A d \in 1..opened, q \in Relays :
             read'[d][q] = IF d = c /\ q = r THEN Append(read[d][q], p) ELSE read[d][q]
        /\ received' = received \/ received' = [received EXCEPT ![r] = Append(received[r], p)]
    BY <2>1 DEF Extracts
  <2>3. received \in [Relays -> Seq(Seq(Bytes))] /\ received[r] \in Seq(Seq(Bytes))
    BY <1>1 DEF Types
  <2>4. \A d \in 1..opened, q \in Relays :
          /\ read[d][q] \in Seq(Seq(Bytes)) /\ Len(read[d][q]) \in Nat
          /\ Len(read'[d][q]) \in Nat /\ Len(read'[d][q]) >= Len(read[d][q])
          /\ \A i \in 1..Len(read[d][q]) : read'[d][q][i] = read[d][q][i]
    <3> SUFFICES ASSUME NEW d \in 1..opened, NEW q \in Relays
                 PROVE  /\ read[d][q] \in Seq(Seq(Bytes)) /\ Len(read[d][q]) \in Nat
                        /\ Len(read'[d][q]) \in Nat /\ Len(read'[d][q]) >= Len(read[d][q])
                        /\ \A i \in 1..Len(read[d][q]) : read'[d][q][i] = read[d][q][i]
      OBVIOUS
    <3>1. read[d][q] \in Seq(Seq(Bytes)) /\ Len(read[d][q]) \in Nat
      BY <1>1, TypesAt
    <3>2. CASE d = c /\ q = r
      <4>1. read'[d][q] = Append(read[d][q], p)
        BY <2>2, <3>2
      <4>2. /\ Len(Append(read[d][q], p)) = Len(read[d][q]) + 1
            /\ \A i \in 1..Len(read[d][q]) : Append(read[d][q], p)[i] = read[d][q][i]
        BY <2>2, <3>1, AppendProperties
      <4> QED
        BY <3>1, <4>1, <4>2
    <3>3. CASE ~(d = c /\ q = r)
      BY <2>2, <3>1, <3>3, SMTT(30)
    <3> QED
      BY <3>2, <3>3
  <2>5. Len(read'[c][r]) = Len(read[c][r]) + 1 /\ read'[c][r][Len(read[c][r]) + 1] = p
    <3>1. read'[c][r] = Append(read[c][r], p) /\ read[c][r] \in Seq(Seq(Bytes))
      BY <2>2, <2>4
    <3> QED
      BY <2>2, <3>1, AppendProperties
  <2> SUFFICES ASSUME NEW q \in Relays, NEW k \in 1..Len(received'[q])
               PROVE  \E d \in 1..opened : \E i \in 1..Len(read'[d][q]) :
                        received'[q][k] = read'[d][q][i]
    BY <2>2 DEF ReceivedInv
  <2>6. CASE k \in 1..Len(received[q]) /\ received'[q][k] = received[q][k]
    <3>1. PICK d \in 1..opened : \E i \in 1..Len(read[d][q]) : received[q][k] = read[d][q][i]
      BY <1>1, <2>6 DEF ReceivedInv
    <3>2. PICK i \in 1..Len(read[d][q]) : received[q][k] = read[d][q][i]
      BY <3>1
    <3>3. i \in 1..Len(read'[d][q]) /\ read'[d][q][i] = read[d][q][i]
      BY <2>4, <3>2, SMTT(30)
    <3> QED
      BY <2>6, <3>2, <3>3
  <2>7. CASE q = r /\ received'[q][k] = p
    <3>1. Len(read[c][r]) + 1 \in 1..Len(read'[c][r])
      BY <2>2, <2>4, <2>5
    <3> QED
      BY <2>2, <2>5, <2>7, <3>1
  <2>8. \/ k \in 1..Len(received[q]) /\ received'[q][k] = received[q][k]
        \/ q = r /\ received'[q][k] = p
    <3>1. CASE received' = received \/ q # r
      <4>1. received'[q] = received[q]
        BY <2>2, <2>3, <3>1
      <4> QED
        BY <4>1
    <3>2. CASE received' = [received EXCEPT ![r] = Append(received[r], p)] /\ q = r
      <4>1. received'[r] = Append(received[r], p)
        BY <2>3, <3>2
      <4>2. /\ Len(received'[r]) = Len(received[r]) + 1 /\ Len(received[r]) \in Nat
            /\ \A i \in 1..Len(received[r]) : received'[r][i] = received[r][i]
            /\ received'[r][Len(received[r]) + 1] = p
        BY <2>2, <2>3, <4>1, AppendProperties
      <4>3. k \in 1..Len(received[r]) \/ k = Len(received[r]) + 1
        BY <3>2, <4>2
      <4> QED
        BY <3>2, <4>2, <4>3
    <3> QED
      BY <2>2, <3>1, <3>2
  <2> QED
    BY <2>6, <2>7, <2>8
<1> QED
  BY <1>3, <1>4, <1>5

LEMMA NumbersSame ==
    ASSUME NumbersInv, offered' = offered, udp' = udp, sent' = sent, opened' = opened
    PROVE  NumbersInv'
<1>1. ASSUME NEW r \in Relays
      PROVE  /\ \A i \in 1..Len(udp'[r]) : udp'[r][i] \in 1..offered'[r]
             /\ \A i, j \in 1..Len(udp'[r]) : i < j => udp'[r][i] < udp'[r][j]
  BY DEF NumbersInv
<1>2. ASSUME NEW r \in Relays, NEW c \in 1..opened', NEW i \in 1..Len(sent'[c][r])
      PROVE  /\ sent'[c][r][i] \in 1..offered'[r]
             /\ \A j \in 1..Len(udp'[r]) : sent'[c][r][i] < udp'[r][j]
             /\ \A d \in c..opened' : \A j \in 1..Len(sent'[d][r]) :
                  c < d \/ i < j => sent'[c][r][i] < sent'[d][r][j]
  BY DEF NumbersInv
<1> QED
  BY <1>1, <1>2, Zenon DEF NumbersInv

LEMMA NumbersStep ==
    ASSUME TunnelInv, [Next]_vars
    PROVE  NumbersInv'
<1>1. Types /\ ConnInv /\ ReadyInv /\ NumbersInv /\ opened \in Nat
  <2>1. Types
    BY DEF TunnelInv
  <2>2. opened \in Nat
    BY <2>1 DEF Types, opened
  <2> QED
    BY <2>1, <2>2 DEF TunnelInv
<1>2. \A r \in Relays :
        /\ offered[r] \in Nat /\ udp[r] \in Seq(Nat) /\ Len(udp[r]) \in Nat
        /\ \A i \in 1..Len(udp[r]) : udp[r][i] \in 1..offered[r]
        /\ \A i, j \in 1..Len(udp[r]) : i < j => udp[r][i] < udp[r][j]
        /\ \A c \in 1..opened : \A i \in 1..Len(sent[c][r]) :
             /\ sent[c][r][i] \in 1..offered[r]
             /\ \A j \in 1..Len(udp[r]) : sent[c][r][i] < udp[r][j]
             /\ \A d \in c..opened : \A j \in 1..Len(sent[d][r]) :
                  c < d \/ i < j => sent[c][r][i] < sent[d][r][j]
  <2> SUFFICES ASSUME NEW r \in Relays
               PROVE  /\ offered[r] \in Nat /\ udp[r] \in Seq(Nat) /\ Len(udp[r]) \in Nat
                      /\ \A i \in 1..Len(udp[r]) : udp[r][i] \in 1..offered[r]
                      /\ \A i, j \in 1..Len(udp[r]) : i < j => udp[r][i] < udp[r][j]
                      /\ \A c \in 1..opened : \A i \in 1..Len(sent[c][r]) :
                           /\ sent[c][r][i] \in 1..offered[r]
                           /\ \A j \in 1..Len(udp[r]) : sent[c][r][i] < udp[r][j]
                           /\ \A d \in c..opened : \A j \in 1..Len(sent[d][r]) :
                                c < d \/ i < j => sent[c][r][i] < sent[d][r][j]
    OBVIOUS
  <2>1. offered[r] \in Nat /\ udp[r] \in Seq(Nat)
    BY <1>1 DEF Types
  <2>2. Len(udp[r]) \in Nat
    BY <2>1
  <2> QED
    BY <1>1, <2>1, <2>2, Zenon DEF NumbersInv
<1>3. CASE Connect
  <2>1. /\ opened' = opened + 1
        /\ \A c \in 1..opened, r \in Relays : sent'[c][r] = sent[c][r]
        /\ \A r \in Relays : sent'[opened + 1][r] = <<>>
    BY <1>1, <1>3, ConnectDoes
  <2>2. UNCHANGED <<offered, udp>>
    BY <1>3 DEF Connect
  <2>3. \A c \in 1..opened + 1, r \in Relays :
          Len(sent'[c][r]) > 0 => c \in 1..opened
    BY <1>1, <2>1
  <2>4. ASSUME NEW r \in Relays, NEW c \in 1..opened', NEW i \in 1..Len(sent'[c][r])
        PROVE  /\ sent[c][r][i] \in 1..offered[r] /\ sent'[c][r] = sent[c][r]
               /\ \A j \in 1..Len(udp[r]) : sent[c][r][i] < udp[r][j]
               /\ \A d \in c..opened' : \A j \in 1..Len(sent'[d][r]) :
                    c < d \/ i < j => sent[c][r][i] < sent'[d][r][j]
    <3>1. Len(sent'[c][r]) > 0
      OBVIOUS
    <3>2. c \in 1..opened /\ sent'[c][r] = sent[c][r] /\ i \in 1..Len(sent[c][r])
      BY <2>1, <2>3, <3>1
    <3>3. ASSUME NEW d \in c..opened', NEW j \in 1..Len(sent'[d][r]), c < d \/ i < j
          PROVE  sent[c][r][i] < sent'[d][r][j]
      <4>1. Len(sent'[d][r]) > 0 /\ d \in 1..opened + 1
        BY <2>1, <3>2
      <4>2. d \in c..opened /\ sent'[d][r] = sent[d][r]
        BY <2>1, <2>3, <4>1
      <4> QED
        BY <1>2, <3>2, <3>3, <4>2
    <3> QED
      BY <1>2, <3>2, <3>3
  <2>5. \A r \in Relays : udp'[r] = udp[r] /\ offered'[r] = offered[r]
    BY <2>2
  <2>6. ASSUME NEW r \in Relays, NEW c \in 1..opened', NEW i \in 1..Len(sent'[c][r])
        PROVE  /\ sent'[c][r][i] \in 1..offered'[r]
               /\ \A j \in 1..Len(udp'[r]) : sent'[c][r][i] < udp'[r][j]
               /\ \A d \in c..opened' : \A j \in 1..Len(sent'[d][r]) :
                    c < d \/ i < j => sent'[c][r][i] < sent'[d][r][j]
    BY <2>4, <2>5
  <2>7. ASSUME NEW r \in Relays
        PROVE  /\ \A i \in 1..Len(udp'[r]) : udp'[r][i] \in 1..offered'[r]
               /\ \A i, j \in 1..Len(udp'[r]) : i < j => udp'[r][i] < udp'[r][j]
    BY <1>2, <2>5
  <2> QED
    BY <2>6, <2>7, Zenon DEF NumbersInv
<1>4. CASE Accept
  <2>1. /\ opened' = opened /\ UNCHANGED <<offered, sent>>
        /\ udp' = [udp EXCEPT !["pc"] = <<>>]
    BY <1>4 DEF Accept, histVars, opened
  <2>2. \A r \in Relays : udp'[r] = udp[r] \/ Len(udp'[r]) = 0
    BY <1>1, <2>1 DEF Types
  <2> QED
    BY <1>2, <2>1, <2>2, SMTT(40) DEF NumbersInv
<1>5. ASSUME NEW q \in Relays, Offer(q) PROVE NumbersInv'
  <2> DEFINE n == offered[q] + 1
  <2>1. /\ opened' = opened /\ UNCHANGED sent
        /\ offered' = [offered EXCEPT ![q] = n]
        /\ udp' = [udp EXCEPT ![q] = Append(udp[q], n)]
    BY <1>5 DEF Offer, tcpVars, histVars, opened
  <2>2. n \in Nat /\ n = offered[q] + 1
    BY <1>2
  <2> HIDE DEF n
  <2>3. /\ Len(Append(udp[q], n)) = Len(udp[q]) + 1
        /\ \A i \in 1..Len(udp[q]) : Append(udp[q], n)[i] = udp[q][i]
        /\ Append(udp[q], n)[Len(udp[q]) + 1] = n
    BY <1>2, <2>2, AppendProperties
  <2>4. /\ udp'[q] = Append(udp[q], n) /\ offered'[q] = n
        /\ \A r \in Relays : r # q => udp'[r] = udp[r] /\ offered'[r] = offered[r]
    BY <1>1, <2>1 DEF Types
  <2>5. ASSUME NEW r \in Relays
        PROVE  /\ \A i \in 1..Len(udp'[r]) : udp'[r][i] \in 1..offered'[r]
               /\ \A i, j \in 1..Len(udp'[r]) : i < j => udp'[r][i] < udp'[r][j]
               /\ \A c \in 1..opened : \A i \in 1..Len(sent[c][r]) :
                    /\ sent[c][r][i] \in 1..offered'[r]
                    /\ \A j \in 1..Len(udp'[r]) : sent[c][r][i] < udp'[r][j]
    <3>1. CASE r = q
      <4> DEFINE l == Len(udp[q])
                 u == udp'[q]
      <4>1. Len(u) = l + 1 /\ l \in Nat /\ u[l + 1] = n /\ \A i \in 1..l : u[i] = udp[q][i]
        BY <1>2, <2>3, <2>4
      <4>2. \A i \in 1..l + 1 : i \in 1..l \/ i = l + 1
        BY <4>1
      <4>3. \A i \in 1..l : u[i] \in 1..offered[q]
        BY <1>2, <4>1
      <4> HIDE DEF u, l
      <4>4. \A i \in 1..l + 1 : u[i] \in 1..n
        BY <1>2, <2>2, <4>1, <4>2, <4>3
      <4>5. \A i, j \in 1..l + 1 : i < j => u[i] < u[j]
        <5> SUFFICES ASSUME NEW i \in 1..l + 1, NEW j \in 1..l + 1, i < j
                     PROVE  u[i] < u[j]
          OBVIOUS
        <5>1. i \in 1..l
          BY <4>1
        <5>2. CASE j \in 1..l
          BY <1>2, <4>1, <5>1, <5>2 DEF l
        <5>3. CASE j = l + 1
          BY <1>2, <2>2, <4>1, <4>3, <5>1, <5>3
        <5> QED
          BY <4>2, <5>2, <5>3
      <4>6. ASSUME NEW c \in 1..opened, NEW i \in 1..Len(sent[c][q])
            PROVE  /\ sent[c][q][i] \in 1..n
                   /\ \A j \in 1..l + 1 : sent[c][q][i] < u[j]
        <5>1. sent[c][q][i] \in 1..offered[q] /\ \A j \in 1..l : sent[c][q][i] < udp[q][j]
          BY <1>2 DEF l
        <5>2. sent[c][q][i] \in 1..n /\ sent[c][q][i] < n
          BY <1>2, <2>2, <5>1
        <5> QED
          BY <4>1, <4>2, <5>1, <5>2
      <4> QED
        BY <2>4, <3>1, <4>1, <4>4, <4>5, <4>6 DEF u
    <3>2. CASE r # q
      BY <1>2, <2>4, <3>2
    <3> QED
      BY <3>1, <3>2
  <2>6. \A r \in Relays : \A c \in 1..opened : \A i \in 1..Len(sent[c][r]) :
          \A d \in c..opened : \A j \in 1..Len(sent[d][r]) :
            c < d \/ i < j => sent[c][r][i] < sent[d][r][j]
    BY <1>2
  <2>7. ASSUME NEW r \in Relays, NEW c \in 1..opened, NEW i \in 1..Len(sent[c][r])
        PROVE  /\ sent[c][r][i] \in 1..offered'[r]
               /\ \A j \in 1..Len(udp'[r]) : sent[c][r][i] < udp'[r][j]
               /\ \A d \in c..opened : \A j \in 1..Len(sent[d][r]) :
                    c < d \/ i < j => sent[c][r][i] < sent[d][r][j]
    BY <2>5, <2>6
  <2>8. opened' = opened /\ sent' = sent
    BY <2>1
  <2>9. ASSUME NEW r \in Relays, NEW c \in 1..opened', NEW i \in 1..Len(sent'[c][r])
        PROVE  /\ sent'[c][r][i] \in 1..offered'[r]
               /\ \A j \in 1..Len(udp'[r]) : sent'[c][r][i] < udp'[r][j]
               /\ \A d \in c..opened' : \A j \in 1..Len(sent'[d][r]) :
                    c < d \/ i < j => sent'[c][r][i] < sent'[d][r][j]
    BY <2>7, <2>8
  <2>10. ASSUME NEW r \in Relays
        PROVE  /\ \A i \in 1..Len(udp'[r]) : udp'[r][i] \in 1..offered'[r]
               /\ \A i, j \in 1..Len(udp'[r]) : i < j => udp'[r][i] < udp'[r][j]
    BY <2>5
  <2> QED
    BY <2>9, <2>10, Zenon DEF NumbersInv
<1>6. ASSUME NEW q \in Relays, UdpTake(q) PROVE NumbersInv'
  <2> DEFINE d0 == Head(udp[q])
             c0 == conn[q]
             u == Tail(udp[q])
  <2>1. /\ opened' = opened /\ c0 \in 1..opened /\ udp[q] # <<>> /\ d0 = udp[q][1]
        /\ 1 \in 1..Len(udp[q])
        /\ \A c \in 1..opened, r \in Relays :
             sent'[c][r] = IF c = c0 /\ r = q THEN Append(sent[c][r], d0) ELSE sent[c][r]
    BY <1>1, <1>6, UdpTakeDoes
  <2>2. Len(u) = Len(udp[q]) - 1 /\ \A i \in 1..Len(u) : u[i] = udp[q][i + 1]
    BY <1>2, <2>1
  <2>3. /\ UNCHANGED <<offered, accepted, conn>> /\ udp' = [udp EXCEPT ![q] = u]
        /\ pc[q] = "udp"
    BY <1>6 DEF UdpTake, tcpVars
  <2>4. udp'[q] = u /\ \A r \in Relays : r # q => udp'[r] = udp[r]
    BY <1>1, <2>3 DEF Types
  <2>5. ASSUME NEW c \in 1..opened, c > c0 PROVE sent[c][q] = <<>>
    <3>1. c0 # 0
      BY <1>1, <2>1
    <3>2. CASE q = "phone"
      <4>1. c0 = opened
        BY <1>1, <3>1, <3>2 DEF ConnInv
      <4> QED
        BY <1>1, <2>5, <4>1
    <3>3. CASE q = "pc"
      <4>1. c0 = accepted
        BY <1>1, <3>1, <3>3 DEF ConnInv
      <4> QED
        BY <1>1, <2>5, <3>3, <4>1 DEF ConnInv
    <3> QED
      BY <3>2, <3>3 DEF Relays
  <2> HIDE DEF d0, c0, u
  <2>6. ASSUME NEW c \in 1..opened
        PROVE  /\ sent[c][q] \in Seq(Nat) /\ Len(sent[c][q]) \in Nat
               /\ c # c0 => sent'[c][q] = sent[c][q]
               /\ c = c0 => /\ Len(sent'[c][q]) = Len(sent[c][q]) + 1
                            /\ sent'[c][q][Len(sent[c][q]) + 1] = d0
                            /\ \A i \in 1..Len(sent[c][q]) : sent'[c][q][i] = sent[c][q][i]
    <3>1. sent[c][q] \in Seq(Nat)
      BY <1>1, TypesAt
    <3>2. Len(sent[c][q]) \in Nat
      BY <3>1
    <3>3. d0 \in Nat
      BY <1>2, <2>1
    <3>4. ASSUME c = c0
          PROVE  /\ Len(sent'[c][q]) = Len(sent[c][q]) + 1
                 /\ sent'[c][q][Len(sent[c][q]) + 1] = d0
                 /\ \A i \in 1..Len(sent[c][q]) : sent'[c][q][i] = sent[c][q][i]
      <4>1. sent'[c][q] = Append(sent[c][q], d0)
        BY <2>1, <3>4
      <4> QED
        BY <3>1, <3>3, <4>1, AppendProperties
    <3> QED
      BY <2>1, <3>1, <3>2, <3>4
  <2> DEFINE New(c, i) == c = c0 /\ i = Len(sent[c0][q]) + 1 /\ sent'[c][q][i] = d0
             Old(c, i) == i \in 1..Len(sent[c][q]) /\ sent'[c][q][i] = sent[c][q][i]
  <2>7. ASSUME NEW c \in 1..opened, NEW i \in 1..Len(sent'[c][q]) PROVE Old(c, i) \/ New(c, i)
    <3>1. CASE c = c0
      <4>1. i \in 1..Len(sent[c][q]) \/ i = Len(sent[c][q]) + 1
        BY <2>6, <3>1
      <4> QED
        BY <2>6, <3>1, <4>1
    <3>2. CASE c # c0
      BY <2>6, <3>2
    <3> QED
      BY <3>1, <3>2
  <2>8. ASSUME NEW c \in 1..opened, NEW i \in 1..Len(sent'[c][q]), NEW d \in c..opened,
               NEW j \in 1..Len(sent'[d][q]), c < d \/ i < j
        PROVE  sent'[c][q][i] < sent'[d][q][j]
    <3>1. d \in 1..opened /\ c <= d
      BY <1>1
    <3>2. (Old(c, i) \/ New(c, i)) /\ (Old(d, j) \/ New(d, j))
      BY <2>7, <3>1
    <3>3. CASE Old(c, i) /\ Old(d, j)
      BY <1>2, <2>8, <3>3
    <3>4. CASE Old(c, i) /\ New(d, j)
      BY <1>2, <2>1, <3>4
    <3>5. CASE New(c, i)
      <4>1. CASE d = c0
        <5>1. j <= Len(sent[c0][q]) + 1 /\ ~(c < d)
          BY <2>6, <3>1, <3>5, <4>1
        <5>2. i < j /\ i = Len(sent[c0][q]) + 1 /\ Len(sent[c0][q]) \in Nat
          BY <2>1, <2>6, <2>8, <3>5, <5>1
        <5> QED
          BY <5>1, <5>2
      <4>2. CASE d # c0
        <5>1. d > c0
          BY <2>1, <3>1, <3>5, <4>2
        <5>2. sent'[d][q] = <<>>
          BY <2>5, <2>6, <3>1, <4>2, <5>1
        <5> QED
          BY <5>2
      <4> QED
        BY <4>1, <4>2
    <3> HIDE DEF Old, New
    <3> QED
      BY <3>2, <3>3, <3>4, <3>5
  <2>9. ASSUME NEW c \in 1..opened, NEW i \in 1..Len(sent'[c][q])
        PROVE  /\ sent'[c][q][i] \in 1..offered[q]
               /\ \A j \in 1..Len(u) : sent'[c][q][i] < u[j]
    <3>1. \A j \in 1..Len(u) : j + 1 \in 1..Len(udp[q]) /\ 1 < j + 1 /\ u[j] = udp[q][j + 1]
      BY <1>2, <2>2
    <3>2. CASE Old(c, i)
      BY <1>2, <3>1, <3>2
    <3>3. CASE New(c, i)
      BY <1>2, <2>1, <3>1, <3>3
    <3> QED
      BY <2>7, <3>2, <3>3
  <2>10. /\ \A i \in 1..Len(u) : u[i] \in 1..offered[q]
         /\ \A i, j \in 1..Len(u) : i < j => u[i] < u[j]
    <3>1. \A i \in 1..Len(u) : i + 1 \in 1..Len(udp[q]) /\ u[i] = udp[q][i + 1]
      BY <1>2, <2>2
    <3>2. \A i, j \in 1..Len(u) : i < j => i + 1 < j + 1
      BY <1>2, <2>2
    <3> QED
      BY <1>2, <3>1, <3>2
  <2> HIDE DEF New, Old
  <2> SUFFICES ASSUME NEW r \in Relays
               PROVE  /\ \A i \in 1..Len(udp'[r]) : udp'[r][i] \in 1..offered[r]
                      /\ \A i, j \in 1..Len(udp'[r]) : i < j => udp'[r][i] < udp'[r][j]
                      /\ \A c \in 1..opened : \A i \in 1..Len(sent'[c][r]) :
                           /\ sent'[c][r][i] \in 1..offered[r]
                           /\ \A j \in 1..Len(udp'[r]) : sent'[c][r][i] < udp'[r][j]
                           /\ \A d \in c..opened : \A j \in 1..Len(sent'[d][r]) :
                                c < d \/ i < j => sent'[c][r][i] < sent'[d][r][j]
    BY <2>1, <2>3 DEF NumbersInv
  <2>11. CASE r = q
    BY <2>4, <2>8, <2>9, <2>10, <2>11
  <2>12. CASE r # q
    <3>1. udp'[r] = udp[r] /\ \A c \in 1..opened : sent'[c][r] = sent[c][r]
      BY <2>1, <2>4, <2>12
    <3>2. \A c \in 1..opened : \A d \in c..opened : d \in 1..opened
      BY <1>1
    <3> QED
      BY <1>2, <3>1, <3>2
  <2> QED
    BY <2>11, <2>12
<1>7. CASE \/ CableBreak \/ UNCHANGED vars
           \/ \E r \in Relays : \/ Select(r) \/ ReadExtract(r) \/ ReadRecv(r) \/ ReadTimeout(r)
                                \/ ReadClosed(r) \/ WriteSome(r) \/ WriteFails(r) \/ Close(r)
  <2>1. UNCHANGED <<offered, udp, sent>>
    BY <1>7 DEF CableBreak, vars, Select, ReadExtract, ReadRecv, ReadTimeout, ReadClosed,
       WriteSome, WriteFails, Close, histVars
  <2>2. ~Connect
    <3>1. Len(sent) \in Nat
      BY <1>1 DEF Types
    <3>2. Connect => Len(sent') = Len(sent) + 1
      <4> SUFFICES ASSUME Connect PROVE Len(sent') = Len(sent) + 1
        OBVIOUS
      <4>1. opened' = opened + 1 /\ Types'
        BY <1>1, ConnectDoes
      <4> QED
        BY <1>1, <4>1 DEF Types
    <3> QED
      BY <2>1, <3>1, <3>2
  <2>3. opened' = opened
    BY <2>2, OpenedStep
  <2>4. NumbersInv
    BY <1>1
  <2> QED
    BY <2>1, <2>3, <2>4, NumbersSame
<1> QED
  BY <1>3, <1>4, <1>5, <1>6, <1>7 DEF Next, Iterate

\* Bytes move, or nothing does, and no end can do more than before.
LEMMA NothingNew ==
    ASSUME BytesInv, opened' = opened,
           \A c \in 1..opened, r \in Relays :
             /\ read'[c][r] = read[c][r] /\ sent'[c][r] = sent[c][r]
             /\ InTransit(c, r)' = InTransit(c, r)
             /\ MayRead(c, r)' => MayRead(c, r)
             /\ MayWrite(c, r)' => MayWrite(c, r)
    PROVE  BytesInv'
<1> SUFFICES ASSUME NEW c \in 1..opened, NEW r \in Relays
             PROVE  Dir(c, r)'
  BY DEF BytesInv
<1>1. Other(r) \in Relays /\ Dir(c, r)
  BY OtherEnd DEF BytesInv
<1> QED
  BY <1>1, Kept

\* The new connection carries nothing, and no buffer of the last one is left.
LEMMA BytesConnect ==
    ASSUME TunnelInv, Connect
    PROVE  BytesInv'
<1>1. Types /\ ConnInv /\ BytesInv
  BY DEF TunnelInv
<1>0. PICK m : m = opened + 1
  OBVIOUS
<1>2. /\ opened' = m /\ opened \in Nat
      /\ \A c \in 1..opened, r \in Relays :
           stream'[c][r] = stream[c][r] /\ sent'[c][r] = sent[c][r] /\ read'[c][r] = read[c][r]
      /\ \A r \in Relays :
           stream'[m][r] = <<>> /\ sent'[m][r] = <<>> /\ read'[m][r] = <<>>
  BY <1>0, <1>1, ConnectDoes
<1>3. m \in Nat /\ m \notin 0..opened /\ 1..m = 1..opened \cup {m} /\ 0 \notin 1..m
  BY <1>0, <1>2
<1>4. /\ pc["phone"] = "connect" /\ conn' = [conn EXCEPT !["phone"] = m]
      /\ rx' = [rx EXCEPT !["phone"] = <<>>] /\ UNCHANGED <<accepted, wr>>
      /\ pc' = [pc EXCEPT !["phone"] = "select"]
  BY <1>0 DEF Connect
<1>5. /\ conn'["phone"] = m /\ conn'["pc"] = conn["pc"] /\ conn["pc"] \in 0..opened
      /\ conn["phone"] = 0 /\ wr["phone"] = <<>> /\ rx'["phone"] = <<>> /\ rx'["pc"] = rx["pc"]
      /\ pc'["pc"] = pc["pc"]
  <2>1. conn["phone"] = 0 /\ wr["phone"] = <<>>
    BY <1>1, <1>4 DEF ConnInv, Relays
  <2>2. conn["pc"] \in 0..opened
    BY <1>1, <1>2 DEF ConnInv, Types
  <2> QED
    BY <1>1, <1>4, <2>1, <2>2 DEF Types, Relays
<1>6. ASSUME NEW c \in 1..opened, NEW r \in Relays PROVE Dir(c, r)'
  <2>1. c # m /\ c # 0
    BY <1>3
  <2>2. /\ On(c, "phone", rx)' = <<>> /\ On(c, "phone", rx) = <<>>
        /\ On(c, "phone", wr)' = <<>> /\ On(c, "phone", wr) = <<>>
        /\ On(c, "pc", rx)' = On(c, "pc", rx) /\ On(c, "pc", wr)' = On(c, "pc", wr)
    BY <1>4, <1>5, <2>1 DEF On
  <2>3. InTransit(c, r)' = InTransit(c, r)
    BY <1>2, <2>2 DEF InTransit, Relays, Other
  <2>4. \A q \in Relays : (MayRead(c, q)' => MayRead(c, q)) /\ (MayWrite(c, q)' => MayWrite(c, q))
    BY <1>4, <1>5, <2>1 DEF MayRead, MayWrite, Before, Relays
  <2>5. Other(r) \in Relays /\ Dir(c, r)
    BY <1>1, OtherEnd DEF BytesInv
  <2> QED
    BY <1>2, <2>3, <2>4, <2>5, Kept
<1>7. ASSUME NEW r \in Relays PROVE Dir(m, r)'
  <2>1. conn["pc"] # m /\ conn'["pc"] # m
    BY <1>3, <1>5
  <2>2. On(m, Other(r), rx)' = <<>> /\ On(m, r, wr)' = <<>>
    BY <1>4, <1>5, <2>1 DEF On, Relays, Other
  <2>3. InTransit(m, r)' = <<>>
    <3>1. InTransit(m, r)' = <<>> \o <<>> \o <<>>
      BY <1>2, <2>2 DEF InTransit
    <3> QED
      BY <3>1
  <2>4. /\ read'[m][Other(r)] = <<>> /\ sent'[m][r] = <<>> /\ Len(<<>>) = 0
    BY <1>2, OtherEnd
  <2>5. FramesIn(<<>>, r, <<>>, 0, MayWrite(m, r)')
    <3>1. FramesIn(<<>>, r, <<>>, 0, TRUE)
      BY NoFrames
    <3> QED
      BY <3>1, FramesWeaker
  <2> QED
    BY <2>3, <2>4, <2>5 DEF Dir
<1> QED
  BY <1>2, <1>3, <1>6, <1>7 DEF BytesInv

LEMMA BytesAccept ==
    ASSUME TunnelInv, Accept
    PROVE  BytesInv'
<1>1. Types /\ ConnInv /\ BytesInv
  BY DEF TunnelInv
<1> DEFINE m == accepted + 1
<1>2. /\ pc["pc"] = "connect" /\ accepted < opened /\ accepted' = m
      /\ conn' = [conn EXCEPT !["pc"] = m] /\ rx' = [rx EXCEPT !["pc"] = <<>>]
      /\ pc' = [pc EXCEPT !["pc"] = "select"]
      /\ UNCHANGED <<stream, wr, sent, read, opened>>
  BY DEF Accept, histVars, opened
<1>3. accepted \in Nat /\ m > accepted /\ \A c \in 1..opened : c > m => c > accepted
  <2>1. opened \in Nat /\ accepted \in 0..opened
    BY <1>1 DEF Types, opened
  <2> QED
    BY <2>1
<1> HIDE DEF m
<1>4. /\ conn["pc"] = 0 /\ wr["pc"] = <<>> /\ conn'["pc"] = m /\ conn'["phone"] = conn["phone"]
      /\ rx'["pc"] = <<>> /\ rx'["phone"] = rx["phone"] /\ pc'["phone"] = pc["phone"]
  <2>1. conn["pc"] = 0 /\ wr["pc"] = <<>>
    BY <1>1, <1>2 DEF ConnInv, Relays
  <2> QED
    BY <1>1, <1>2, <2>1 DEF Types, Relays
<1>5. ASSUME NEW c \in 1..opened, NEW r \in Relays
      PROVE  /\ InTransit(c, r)' = InTransit(c, r)
             /\ MayRead(c, r)' => MayRead(c, r)
             /\ MayWrite(c, r)' => MayWrite(c, r)
  <2>1. /\ On(c, "phone", rx)' = On(c, "phone", rx) /\ On(c, "phone", wr)' = On(c, "phone", wr)
        /\ On(c, "pc", rx)' = On(c, "pc", rx) /\ On(c, "pc", wr)' = On(c, "pc", wr)
    BY <1>2, <1>4 DEF On
  <2>2. InTransit(c, r)' = InTransit(c, r)
    BY <1>2, <2>1 DEF InTransit, Relays, Other
  <2>3. Before(c, r)' => Before(c, r)
    BY <1>2, <1>3 DEF Before
  <2>4. r = "pc" /\ conn'[r] = c => Before(c, r)
    BY <1>2, <1>3, <1>4 DEF Before
  <2> QED
    BY <1>4, <2>2, <2>3, <2>4 DEF MayRead, MayWrite, Relays
<1> QED
  BY <1>1, <1>2, <1>5, NothingNew

\* The end that closes reads no more, and had written all it had taken or given it up.
LEMMA BytesClose ==
    ASSUME TunnelInv, NEW r \in Relays, Close(r)
    PROVE  BytesInv'
<1>1. Types /\ ConnInv /\ BytesInv
  BY DEF TunnelInv
<1>2. /\ pc[r] = "close" /\ conn' = [conn EXCEPT ![r] = 0]
      /\ pc' = [pc EXCEPT ![r] = "connect"]
      /\ UNCHANGED <<stream, rx, wr, sent, read, opened, accepted>>
  BY DEF Close, histVars, opened
<1>3. /\ wr[r] = <<>> /\ conn'[r] = 0
      /\ \A q \in Relays : q # r => conn'[q] = conn[q] /\ pc'[q] = pc[q]
  BY <1>1, <1>2 DEF ConnInv, Types
<1> SUFFICES ASSUME NEW c \in 1..opened, NEW q \in Relays
             PROVE  Dir(c, q)'
  BY <1>2 DEF BytesInv
<1>5. c # 0 /\ Other(q) \in Relays /\ Dir(c, q)
  <2>1. opened \in Nat
    BY <1>1 DEF Types, opened
  <2> QED
    BY <1>1, <2>1, OtherEnd DEF BytesInv
<1>6. On(c, q, wr)' = On(c, q, wr)
  BY <1>2, <1>3, <1>5 DEF On
<1>7. Before(c, r) => conn[r] # c
  <2>1. accepted \in Nat
    BY <1>1 DEF Types, opened
  <2> QED
    BY <1>1, <1>5, <2>1 DEF Before, ConnInv
<1>8. ASSUME MayRead(c, Other(q))'
      PROVE  MayRead(c, Other(q)) /\ InTransit(c, q)' = InTransit(c, q)
  <2>1. CASE Other(q) = r
    <3>1. Before(c, r)
      BY <1>2, <1>3, <1>5, <1>8, <2>1 DEF MayRead, Before
    <3>2. On(c, r, rx)' = <<>> /\ On(c, r, rx) = <<>>
      BY <1>3, <1>5, <1>7, <3>1 DEF On
    <3> QED
      BY <1>2, <1>6, <2>1, <3>1, <3>2 DEF MayRead, InTransit
  <2>2. CASE Other(q) # r
    <3>1. On(c, Other(q), rx)' = On(c, Other(q), rx)
      BY <1>2, <1>3, <1>5, <2>2 DEF On
    <3>2. MayRead(c, Other(q))
      BY <1>2, <1>3, <1>5, <1>8, <2>2 DEF MayRead, Before
    <3> QED
      BY <1>2, <1>6, <3>1, <3>2 DEF InTransit
  <2> QED
    BY <2>1, <2>2
<1>9. MayWrite(c, q)' => MayWrite(c, q)
  BY <1>2, <1>3, <1>5 DEF MayWrite, Before
<1> QED
  BY <1>2, <1>5, <1>8, <1>9, Kept

\* write_frame() gives up in the middle of a frame: what is on its way only begins the
\* frames, but then r writes nothing more.
LEMMA BytesWriteFails ==
    ASSUME TunnelInv, NEW r \in Relays, WriteFails(r)
    PROVE  BytesInv'
<1>1. Types /\ ConnInv /\ NumbersInv /\ BytesInv
  BY DEF TunnelInv
<1>2. /\ pc[r] = "write" /\ wr' = [wr EXCEPT ![r] = <<>>]
      /\ pc' = [pc EXCEPT ![r] = "close"]
      /\ UNCHANGED <<conn, stream, rx, sent, read, opened, accepted>>
  BY DEF WriteFails, tcpVars, histVars, opened
<1>3. /\ wr'[r] = <<>> /\ pc'[r] = "close"
      /\ \A q \in Relays : q # r => wr'[q] = wr[q] /\ pc'[q] = pc[q]
  BY <1>1, <1>2 DEF Types
<1> SUFFICES ASSUME NEW c \in 1..opened, NEW q \in Relays
             PROVE  Dir(c, q)'
  BY <1>2 DEF BytesInv
<1>4. c # 0 /\ Other(q) \in Relays /\ Dir(c, q)
  <2>1. opened \in Nat
    BY <1>1 DEF Types, opened
  <2> QED
    BY <1>1, <2>1, OtherEnd DEF BytesInv
<1>5. MayRead(c, Other(q))' = MayRead(c, Other(q)) /\ On(c, Other(q), rx)' = On(c, Other(q), rx)
  BY <1>2 DEF MayRead, Before, On
<1>6. CASE ~(q = r /\ conn[r] = c)
  <2>1. On(c, q, wr)' = On(c, q, wr)
    BY <1>2, <1>3, <1>6 DEF On
  <2>2. InTransit(c, q)' = InTransit(c, q)
    BY <1>2, <1>5, <2>1 DEF InTransit
  <2>3. MayWrite(c, q)' => MayWrite(c, q)
    BY <1>2, <1>3, <1>6 DEF MayWrite, Before
  <2> QED
    BY <1>2, <1>4, <1>5, <2>2, <2>3, Kept
<1>7. CASE q = r /\ conn[r] = c
  <2> DEFINE a == On(c, Other(q), rx) \o stream[c][q]
             w == wr[q]
             ds == sent[c][q]
             n == Len(read[c][Other(q)])
  <2>1. InTransit(c, q) = a \o w
    BY <1>7 DEF InTransit, On
  <2>2. a \in Seq(Bytes) /\ w \in Seq(Bytes)
    <3>1. <<>> \in Seq(Bytes)
      OBVIOUS
    <3>2. On(c, Other(q), rx) \in Seq(Bytes) /\ stream[c][q] \in Seq(Bytes) /\ w \in Seq(Bytes)
      BY <1>1, <1>4, <3>1, TypesAt DEF On, Types
    <3> QED
      BY <3>2, ConcatProperties
  <2>3. InTransit(c, q)' = a
    <3>1. InTransit(c, q)' = a \o <<>>
      BY <1>2, <1>3, <1>5, <1>7 DEF InTransit, On
    <3> HIDE DEF a
    <3> QED
      BY <2>2, <3>1, ConcatEmptySeq
  <2>4. ~MayWrite(c, q)'
    <3>1. c = accepted \/ q # "pc"
      BY <1>1, <1>4, <1>7 DEF ConnInv
    <3>2. accepted \in Nat
      BY <1>1 DEF Types, opened
    <3>3. ~Before(c, q)'
      BY <1>2, <3>1, <3>2 DEF Before
    <3> QED
      BY <1>3, <1>7, <3>3 DEF MayWrite
  <2>5. ds \in Seq(Numbers(q)) /\ Len(ds) \in Nat /\ n \in Nat
    <3>1. ds \in Seq(Numbers(q)) /\ read[c][Other(q)] \in Seq(Seq(Bytes))
      BY <1>1, <1>4, SentNumbers, TypesAt
    <3>2. Len(ds) \in Nat
      BY <3>1
    <3>3. n \in Nat
      BY <3>1
    <3> QED
      BY <3>1, <3>2, <3>3
  <2>6. /\ n <= Len(ds)
        /\ \A i \in 1..n : read[c][Other(q)][i] = Payload[q][ds[i]]
        /\ MayRead(c, Other(q)) => FramesIn(a \o w, q, ds, n, MayWrite(c, q))
    BY <1>4, <2>1, Zenon DEF Dir
  <2> HIDE DEF a, w
  <2>7. MayRead(c, Other(q)) => FramesIn(a, q, ds, n, FALSE)
    <3>1. n \in 0..Len(ds)
      BY <2>5, <2>6
    <3> HIDE DEF n, ds
    <3> QED
      BY <2>2, <2>5, <2>6, <3>1, FramesPrefix
  <2>8. MayRead(c, Other(q))' => FramesIn(InTransit(c, q)', q, ds, n, MayWrite(c, q)')
    <3> HIDE DEF n, ds
    <3> QED
      BY <1>5, <2>3, <2>4, <2>7, FramesWeaker
  <2>9. sent'[c][q] = ds /\ read'[c][Other(q)] = read[c][Other(q)]
    BY <1>2
  <2> QED
    BY <2>6, <2>8, <2>9 DEF Dir
<1> QED
  BY <1>6, <1>7

\* write_frame() starts on the frame of the next datagram.
LEMMA BytesUdpTake ==
    ASSUME TunnelInv, NEW r \in Relays, UdpTake(r)
    PROVE  BytesInv'
<1>1. Types /\ ConnInv /\ ReadyInv /\ NumbersInv /\ BytesInv
  BY DEF TunnelInv
<1>0. PICK d, m : d = Head(udp[r]) /\ m = conn[r]
  OBVIOUS
<1>2. /\ opened' = opened /\ m \in 1..opened /\ d \in Numbers(r)
      /\ \A c \in 1..opened, q \in Relays :
           sent'[c][q] = IF c = m /\ q = r THEN Append(sent[c][q], d) ELSE sent[c][q]
  BY <1>0, <1>1, UdpTakeDoes
<1>3. /\ pc[r] = "udp" /\ wr' = [wr EXCEPT ![r] = FrameOf(r, d)]
      /\ pc' = [pc EXCEPT ![r] = "write"]
      /\ UNCHANGED <<conn, stream, rx, read, accepted>>
  BY <1>0 DEF UdpTake, FrameOf, tcpVars
<1>4. /\ wr[r] = <<>> /\ wr'[r] = FrameOf(r, d) /\ pc'[r] = "write"
      /\ \A q \in Relays : q # r => wr'[q] = wr[q] /\ pc'[q] = pc[q]
  BY <1>1, <1>3 DEF Types, ConnInv
<1> SUFFICES ASSUME NEW c \in 1..opened, NEW q \in Relays
             PROVE  Dir(c, q)'
  BY <1>2 DEF BytesInv
<1>5. Other(q) \in Relays /\ Dir(c, q)
  BY <1>1, OtherEnd DEF BytesInv
<1>6. MayRead(c, Other(q))' = MayRead(c, Other(q)) /\ On(c, Other(q), rx)' = On(c, Other(q), rx)
      /\ MayWrite(c, q)' = MayWrite(c, q)
  BY <1>3, <1>4 DEF MayRead, MayWrite, Before, On
<1>7. CASE ~(q = r /\ c = m)
  <2>1. On(c, q, wr)' = On(c, q, wr)
    BY <1>0, <1>3, <1>4, <1>7 DEF On
  <2>2. InTransit(c, q)' = InTransit(c, q)
    BY <1>3, <1>6, <2>1 DEF InTransit
  <2> QED
    BY <1>2, <1>3, <1>5, <1>6, <1>7, <2>2, Kept
<1>8. CASE q = r /\ c = m
  <2> DEFINE a == On(c, Other(q), rx) \o stream[c][q]
             ds == sent[c][q]
             n == Len(read[c][Other(q)])
             f == FrameOf(q, d)
  <2>1. On(c, Other(q), rx) \in Seq(Bytes) /\ stream[c][q] \in Seq(Bytes) /\ a \in Seq(Bytes)
    <3>1. <<>> \in Seq(Bytes)
      OBVIOUS
    <3>2. On(c, Other(q), rx) \in Seq(Bytes) /\ stream[c][q] \in Seq(Bytes)
      BY <1>1, <1>5, <3>1, TypesAt DEF On, Types
    <3> QED
      BY <3>2, ConcatProperties
  <2>2. InTransit(c, q) = a
    <3>1. InTransit(c, q) = a \o <<>>
      BY <1>0, <1>4, <1>8 DEF InTransit, On
    <3> HIDE DEF a
    <3> QED
      BY <2>1, <3>1, ConcatEmptySeq
  <2>3. InTransit(c, q)' = a \o f
    BY <1>0, <1>3, <1>4, <1>6, <1>8 DEF InTransit, On
  <2>4. MayWrite(c, q) /\ MayWrite(c, q)'
    BY <1>0, <1>3, <1>6, <1>8 DEF MayWrite
  <2>5. ds \in Seq(Numbers(q)) /\ Len(ds) \in Nat /\ n \in Nat /\ d \in Numbers(q)
    <3>1. ds \in Seq(Numbers(q)) /\ read[c][Other(q)] \in Seq(Seq(Bytes))
      BY <1>1, <1>5, SentNumbers, TypesAt
    <3>2. Len(ds) \in Nat
      BY <3>1
    <3>3. n \in Nat
      BY <3>1
    <3> QED
      BY <1>2, <1>8, <3>1, <3>2, <3>3
  <2>6. /\ n <= Len(ds)
        /\ \A i \in 1..n : read[c][Other(q)][i] = Payload[q][ds[i]]
        /\ MayRead(c, Other(q)) => FramesIn(a, q, ds, n, MayWrite(c, q))
    BY <1>5, <2>2, Zenon DEF Dir
  <2> DEFINE es == Append(ds, d)
  <2>7. /\ Len(es) = Len(ds) + 1
        /\ \A i \in 1..Len(ds) : es[i] = ds[i]
    <3> HIDE DEF ds
    <3> QED
      BY <2>5, AppendProperties
  <2>8. sent'[c][q] = es /\ read'[c][Other(q)] = read[c][Other(q)]
    BY <1>2, <1>3, <1>8
  <2> HIDE DEF a, f, ds, n, es
  <2>9. n \in 0..Len(ds) /\ n <= Len(es) /\ \A i \in 1..n : i \in 1..Len(ds)
    BY <2>5, <2>6, <2>7
  <2>10. MayRead(c, Other(q)) => FramesIn(a, q, ds, n, TRUE)
    BY <2>4, <2>6, FramesWeaker
  <2>11. MayRead(c, Other(q)) => FramesIn(a \o f, q, es, n, TRUE)
    BY <2>1, <2>5, <2>9, <2>10, FramesAppend DEF f, es
  <2>12. MayRead(c, Other(q))' => FramesIn(InTransit(c, q)', q, es, n, MayWrite(c, q)')
    BY <1>6, <2>3, <2>11, FramesWeaker
  <2>13. \A i \in 1..n : read[c][Other(q)][i] = Payload[q][es[i]]
    BY <2>6, <2>7, <2>9
  <2> QED
    BY <2>8, <2>9, <2>12, <2>13 DEF Dir, n
<1> QED
  BY <1>7, <1>8

\* read_frame() takes one datagram off the front; the frames of the others follow.
LEMMA BytesExtract ==
    ASSUME TunnelInv, NEW r \in Relays, ReadExtract(r)
    PROVE  BytesInv'
<1>1. Types /\ ConnInv /\ NumbersInv /\ BytesInv
  BY DEF TunnelInv
<1>2. PICK m, o, n, p : Extracts(r, m, o, n, p)
  BY ExtractDoes
<1>0. PICK x2 : x2 = SubSeq(rx[r], 4 + FrameLen(rx[r]) + 1, Len(rx[r]))
  OBVIOUS
<1>3. /\ m = conn[r] /\ o = Other(r) /\ n = Len(read[m][r]) /\ p = Payload[o][sent[m][o][n + 1]]
      /\ opened' = opened /\ m \in 1..opened /\ o \in Relays /\ Other(o) = r
      /\ n \in Nat /\ n + 1 \in 1..Len(sent[m][o]) /\ p \in Seq(Bytes)
      /\ rx' = [rx EXCEPT ![r] = x2]
      /\ FramesIn(x2 \o (stream[m][o] \o On(m, o, wr)), o, sent[m][o], n + 1, MayWrite(m, o))
      /\ \A d \in 1..opened, q \in Relays :
           read'[d][q] = IF d = m /\ q = r THEN Append(read[d][q], p) ELSE read[d][q]
  BY <1>0, <1>2 DEF Extracts
<1>4. /\ pc[r] = "read" /\ pc' = [pc EXCEPT ![r] = AfterRead(r, FALSE)]
      /\ UNCHANGED <<conn, stream, wr, sent, accepted>>
  BY DEF ReadExtract, tcpVars
<1>5. /\ \A q \in Relays : q # r => rx'[q] = rx[q] /\ pc'[q] = pc[q]
      /\ rx'[r] = x2 /\ x2 \in Seq(Bytes)
  <2>1. Types'
    BY ExtractDoes
  <2> QED
    BY <1>1, <1>3, <1>4, <2>1 DEF Types
<1> SUFFICES ASSUME NEW c \in 1..opened, NEW q \in Relays
             PROVE  Dir(c, q)'
  BY <1>3 DEF BytesInv
<1>6. Other(q) \in Relays /\ Dir(c, q) /\ (Other(q) = r => q = o)
  BY <1>1, <1>3, OtherEnd DEF BytesInv
<1>7. /\ MayRead(c, Other(q))' = MayRead(c, Other(q)) /\ On(c, q, wr)' = On(c, q, wr)
      /\ MayWrite(c, q)' => MayWrite(c, q)
  BY <1>4, <1>5 DEF MayRead, MayWrite, Before, On
<1>8. CASE ~(q = o /\ c = m)
  <2>1. On(c, Other(q), rx)' = On(c, Other(q), rx)
    BY <1>3, <1>4, <1>5, <1>6, <1>8 DEF On
  <2>2. InTransit(c, q)' = InTransit(c, q)
    BY <1>4, <1>7, <2>1 DEF InTransit
  <2>3. read'[c][Other(q)] = read[c][Other(q)]
    BY <1>3, <1>6, <1>8
  <2> QED
    BY <1>4, <1>6, <1>7, <2>2, <2>3, Kept
<1>9. CASE q = o /\ c = m
  <2> DEFINE w == On(m, o, wr)
             t == stream[m][o]
             old == read[m][r]
             ds == sent[m][o]
  <2>1. t \in Seq(Bytes) /\ w \in Seq(Bytes) /\ old \in Seq(Seq(Bytes))
    <3>1. <<>> \in Seq(Bytes)
      OBVIOUS
    <3> QED
      BY <1>1, <1>3, <3>1, TypesAt DEF On, Types
  <2>2. InTransit(c, q)' = (x2 \o t) \o w
    BY <1>3, <1>4, <1>5, <1>7, <1>9 DEF InTransit, On
  <2>3. FramesIn(x2 \o (t \o w), o, ds, n + 1, MayWrite(m, o))
    BY <1>3
  <2>4. /\ n = Len(old) /\ p = Payload[o][ds[n + 1]]
        /\ \A i \in 1..n : old[i] = Payload[o][ds[i]]
    <3>1. Dir(m, o)
      BY <1>6, <1>9
    <3>2. \A i \in 1..Len(read[m][r]) : read[m][r][i] = Payload[o][sent[m][o][i]]
      BY <1>3, <3>1, Zenon DEF Dir
    <3>3. n = Len(read[m][r]) /\ p = Payload[o][sent[m][o][n + 1]]
      BY <1>3, Zenon
    <3> QED
      BY <3>2, <3>3, Zenon
  <2>5. read'[c][Other(q)] = Append(old, p) /\ sent'[c][q] = ds
    BY <1>3, <1>4, <1>9
  <2>6. n \in Nat /\ n + 1 \in 1..Len(ds) /\ p \in Seq(Bytes)
    BY <1>3
  <2> HIDE DEF w, t, old, ds
  <2>7. (x2 \o t) \o w = x2 \o (t \o w)
    BY <1>5, <2>1, ConcatAssociative, SMTT(30)
  <2>8. MayRead(c, Other(q))' => FramesIn(InTransit(c, q)', q, ds, n + 1, MayWrite(c, q)')
    BY <1>7, <1>9, <2>2, <2>3, <2>7, FramesWeaker
  <2>9. /\ Len(Append(old, p)) = n + 1 /\ Append(old, p)[n + 1] = p
        /\ \A i \in 1..n : Append(old, p)[i] = old[i]
    BY <2>1, <2>4, <2>6, AppendProperties
  <2>10. \A i \in 1..n + 1 : Append(old, p)[i] = Payload[o][ds[i]]
    <3>1. \A i \in 1..n + 1 : i \in 1..n \/ i = n + 1
      BY <2>6
    <3> QED
      BY <2>4, <2>9, <3>1
  <2>11. n + 1 <= Len(ds)
    BY <2>6
  <2> QED
    BY <1>9, <2>5, <2>8, <2>9, <2>10, <2>11 DEF Dir
<1> QED
  BY <1>8, <1>9

LEMMA BytesStep ==
    ASSUME TunnelInv, [Next]_vars
    PROVE  BytesInv'
<1>1. Types /\ ConnInv /\ BytesInv
  BY DEF TunnelInv
<1>2. CASE Connect
  BY <1>2, BytesConnect
<1>3. CASE Accept
  BY <1>3, BytesAccept
<1>4. ASSUME NEW r \in Relays, ReadRecv(r) \/ WriteSome(r) PROVE BytesInv'
  <2>1. opened' = opened /\ \A c \in 1..opened, q \in Relays : InTransit(c, q)' = InTransit(c, q)
    BY <1>1, <1>4, ReadRecvDoes, WriteSomeDoes
  <2>2. /\ UNCHANGED <<conn, accepted, sent, read>> /\ pc[r] # "close"
        /\ \A q \in Relays : q # r => pc'[q] = pc[q]
    BY <1>1, <1>4 DEF ReadRecv, WriteSome, histVars, Types
  <2>3. \A c \in 1..opened, q \in Relays :
          (MayRead(c, q)' => MayRead(c, q)) /\ (MayWrite(c, q)' => MayWrite(c, q))
    BY <2>2 DEF MayRead, MayWrite, Before
  <2>4. \A c \in 1..opened, q \in Relays : read'[c][q] = read[c][q] /\ sent'[c][q] = sent[c][q]
    BY <2>2
  <2> QED
    BY <1>1, <2>1, <2>3, <2>4, NothingNew
<1>5. ASSUME UNCHANGED <<conn, stream, accepted, rx, wr, sent, read>>,
             \A q \in Relays : pc[q] = "close" => pc'[q] = "close"
      PROVE  BytesInv'
  <2>1. opened' = opened
    BY <1>5 DEF opened
  <2>2. \A c \in 1..opened, q \in Relays :
          /\ (MayRead(c, q)' => MayRead(c, q)) /\ (MayWrite(c, q)' => MayWrite(c, q))
          /\ read'[c][q] = read[c][q] /\ sent'[c][q] = sent[c][q]
    BY <1>5 DEF MayRead, MayWrite, Before
  <2>3. \A c \in 1..opened, q \in Relays : InTransit(c, q)' = InTransit(c, q)
    BY <1>5 DEF InTransit, On
  <2> QED
    BY <1>1, <2>1, <2>2, <2>3, NothingNew
<1>6. CASE CableBreak \/ UNCHANGED vars
  BY <1>5, <1>6 DEF CableBreak, vars, tcpVars, histVars
<1>7. ASSUME NEW r \in Relays, Select(r) \/ ReadTimeout(r) \/ ReadClosed(r) \/ Offer(r)
      PROVE  BytesInv'
  <2>1. UNCHANGED <<conn, stream, accepted, wr, sent, read>>
    BY <1>7 DEF Select, ReadTimeout, ReadClosed, Offer, tcpVars, histVars
  <2>2. rx' = rx
    BY <1>7, ReadClosedDoes DEF Select, ReadTimeout, Offer
  <2>3. \A q \in Relays : pc[q] = "close" => pc'[q] = "close"
    BY <1>1, <1>7 DEF Select, ReadTimeout, ReadClosed, Offer, Types
  <2> QED
    BY <1>5, <2>1, <2>2, <2>3
<1>8. ASSUME NEW r \in Relays, ReadExtract(r) \/ UdpTake(r) \/ WriteFails(r) \/ Close(r)
      PROVE  BytesInv'
  BY <1>8, BytesExtract, BytesUdpTake, BytesWriteFails, BytesClose
<1> QED
  BY <1>2, <1>3, <1>4, <1>6, <1>7, <1>8 DEF Next, Iterate

LEMMA TunnelInit ==
    ASSUME Init
    PROVE  TunnelInv
<1>1. opened = 0 /\ Len(<<>>) = 0 /\ stream = <<>> /\ sent = <<>> /\ read = <<>>
  BY DEF Init, opened
<1>2. /\ <<>> \in Seq(Nat) /\ <<>> \in Seq(Bytes) /\ <<>> \in Seq(Seq(Bytes))
      /\ <<>> \in Seq([Relays -> Seq(Bytes)]) /\ <<>> \in Seq([Relays -> Seq(Nat)])
      /\ <<>> \in Seq([Relays -> Seq(Seq(Bytes))])
  OBVIOUS
<1>3. Types
  <2>1. \A r \in Relays : offered[r] <= Len(Payload[r])
    <3> SUFFICES ASSUME NEW r \in Relays PROVE 0 <= Len(Payload[r])
      BY DEF Init
    <3>1. Payload[r] \in Seq(Seq(Bytes))
      BY TunnelAssumption
    <3>2. Len(Payload[r]) \in Nat
      BY <3>1
    <3> QED
      BY <3>2
  <2> QED
    BY <1>1, <1>2, <2>1 DEF Init, Types
<1>4. ConnInv /\ ReadyInv
  BY <1>1 DEF Init, ConnInv, ReadyInv, Relays
<1>5. NumbersInv /\ ReceivedInv /\ BytesInv
  BY <1>1 DEF Init, NumbersInv, ReceivedInv, BytesInv
<1> QED
  BY <1>3, <1>4, <1>5 DEF TunnelInv

\* The invariant of the tunnel.
LEMMA TunnelInductive == Spec => []TunnelInv
<1>1. Init => TunnelInv
  BY TunnelInit
<1>2. TunnelInv /\ [Next]_vars => TunnelInv'
  BY TypesStep, ConnStep, NumbersStep, ReceivedStep, BytesStep DEF TunnelInv
<1> QED
  BY <1>1, <1>2, PTL DEF Spec

\* On one connection nothing is lost in the middle (server.cpp and client.cpp, the relays'
\* write_frame() and read_frame()): whatever arrives in whatever pieces, and wherever a
\* write is given up, what a relay got is the front of what the other end put on it.
THEOREM NothingIsLostInside == Spec => []NothingLostInside
<1>1. ASSUME TunnelInv PROVE NothingLostInside
  <2> SUFFICES ASSUME NEW c \in 1..opened, NEW r \in Relays
               PROVE  IsPrefix(read[c][r], Put(c, Other(r)))
    BY DEF NothingLostInside
  <2>1. PICK o : o = Other(r)
    OBVIOUS
  <2>2. Types /\ BytesInv /\ NumbersInv /\ o \in Relays /\ Other(o) = r
    BY <1>1, <2>1, OtherEnd DEF TunnelInv
  <2> DEFINE got == read[c][r]
             ds == sent[c][o]
             put == Put(c, o)
  <2>3. /\ got \in Seq(Seq(Bytes)) /\ ds \in Seq(Numbers(o))
        /\ Len(got) <= Len(ds) /\ \A i \in 1..Len(got) : got[i] = Payload[o][ds[i]]
    <3>1. Dir(c, o)
      BY <2>2 DEF BytesInv
    <3> QED
      BY <2>2, <3>1, TypesAt, SentNumbers DEF Dir
  <2>4. put = [i \in 1..Len(ds) |-> Payload[o][ds[i]]]
    BY DEF Put
  <2> HIDE DEF got, ds, put
  <2>5. Len(got) \in Nat /\ Len(ds) \in Nat
    BY <2>3
  <2>6. \A i \in 1..Len(ds) : Payload[o][ds[i]] \in Seq(Bytes)
    <3>1. \A i \in 1..Len(ds) : ds[i] \in Numbers(o)
      BY <2>3
    <3> QED
      BY <2>2, <3>1, FrameOfType
  <2>7. put \in Seq(Seq(Bytes)) /\ Len(put) = Len(ds) /\ \A i \in 1..Len(ds) : put[i] = Payload[o][ds[i]]
    BY <2>4, <2>5, <2>6
  <2>8. IsPrefix(got, put)
    <3> DEFINE l == Len(got)
               front == SubSeq(put, 1, l)
    <3>1. l \in Nat /\ 0 + l <= Len(put) /\ 0 + 1 = 1 /\ 0 + l = l
      BY <2>3, <2>5, <2>7
    <3>2. front \in Seq(Seq(Bytes)) /\ Len(front) = l /\ \A i \in 1..l : front[i] = put[i]
      <4> HIDE DEF l
      <4>1. /\ SubSeq(put, 0 + 1, 0 + l) \in Seq(Seq(Bytes)) /\ Len(SubSeq(put, 0 + 1, 0 + l)) = l
            /\ \A i \in 1..l : SubSeq(put, 0 + 1, 0 + l)[i] = put[0 + i]
        BY <2>7, <3>1, Middle
      <4>2. \A i \in 1..l : 0 + i = i
        BY <3>1
      <4> QED
        BY <3>1, <4>1, <4>2
    <3>3. \A i \in 1..l : i \in 1..Len(put) /\ put[i] = got[i]
      BY <2>3, <2>5, <2>7
    <3> HIDE DEF front
    <3>4. front = got
      BY <2>3, <3>2, <3>3, SeqEqual
    <3>5. SubSeq(got, 1, Len(got)) = got
      BY <2>3, SubSeqFull
    <3> QED
      BY <2>3, <2>7, <3>4, <3>5 DEF IsPrefix, front
  <2> QED
    BY <2>1, <2>8 DEF got, put
<1> QED
  BY <1>1, TunnelInductive, PTL

-----------------------------------------------------------------------------
(* What the engines see                                                    *)

\* What read_frame() extracts was sent later than everything the engine of r got before:
\* on an earlier connection, or earlier on this one.
LEMMA ExtractsLater ==
    ASSUME TunnelInv, NEW r \in Relays, NEW m, NEW o, NEW n, NEW p, Extracts(r, m, o, n, p)
    PROVE  /\ o = Other(r) /\ sent[m][o][n + 1] \in 1..offered[o]
           /\ p = Payload[o][sent[m][o][n + 1]]
           /\ \A k \in 1..Len(received[r]) :
                \E j \in 1..sent[m][o][n + 1] - 1 : received[r][k] = Payload[o][j]
<1>1. Types /\ ConnInv /\ NumbersInv /\ ReceivedInv /\ BytesInv /\ opened \in Nat
  <2>1. Types
    BY DEF TunnelInv
  <2>2. opened \in Nat
    BY <2>1 DEF Types, opened
  <2> QED
    BY <2>1, <2>2 DEF TunnelInv
<1>2. /\ m = conn[r] /\ o = Other(r) /\ n = Len(read[m][r]) /\ p = Payload[o][sent[m][o][n + 1]]
      /\ m \in 1..opened /\ o \in Relays /\ Other(o) = r
      /\ n \in Nat /\ n + 1 \in 1..Len(sent[m][o])
  BY DEF Extracts
<1> DEFINE i == sent[m][o][n + 1]
<1>3. i \in 1..offered[o] /\ offered[o] \in Nat
  <2>1. offered[o] \in Nat
    BY <1>1, <1>2 DEF Types
  <2>2. i \in 1..offered[o]
    BY <1>1, <1>2 DEF NumbersInv
  <2> QED
    BY <2>1, <2>2
<1>5. m \in Nat /\ m # 0 /\ m <= opened /\ n \in Nat
  <2>1. m \in 1..opened /\ n \in Nat
    BY <1>2, Zenon
  <2> QED
    BY <1>1, <2>1
<1>4. ASSUME NEW k \in 1..Len(received[r])
      PROVE  \E j \in 1..i - 1 : received[r][k] = Payload[o][j]
  <2>1. PICK c \in 1..opened : \E x \in 1..Len(read[c][r]) : received[r][k] = read[c][r][x]
    BY <1>1 DEF ReceivedInv
  <2>2. PICK x \in 1..Len(read[c][r]) : received[r][k] = read[c][r][x]
    BY <2>1
  <2>3. Len(read[c][r]) <= Len(sent[c][o]) /\ read[c][r][x] = Payload[o][sent[c][o][x]]
    <3>1. Dir(c, o)
      BY <1>1, <1>2 DEF BytesInv
    <3> QED
      BY <1>2, <3>1 DEF Dir
  <2>4. x \in 1..Len(sent[c][o])
    <3>1. read[c][r] \in Seq(Seq(Bytes)) /\ sent[c][o] \in Seq(Nat)
      BY <1>1, <1>2, TypesAt
    <3>2. Len(read[c][r]) \in Nat /\ Len(sent[c][o]) \in Nat
      BY <3>1
    <3> QED
      BY <2>3, <3>2
  <2>5. c <= m
    <3>1. m # 0 /\ m = conn[r]
      BY <1>2, <1>5
    <3>2. CASE r = "phone"
      <4>1. m = opened
        BY <1>1, <3>1, <3>2, SMTT(30) DEF ConnInv
      <4> QED
        BY <1>1, <4>1
    <3>3. CASE r = "pc"
      <4>1. m = accepted
        BY <1>1, <3>1, <3>3 DEF ConnInv
      <4>2. read[c]["pc"] # <<>>
        <5>1. Len(read[c][r]) > 0
          OBVIOUS
        <5> QED
          BY <3>3, <5>1
      <4> QED
        BY <1>1, <1>2, <4>1, <4>2, SMTT(30) DEF ConnInv
    <3> QED
      BY <3>2, <3>3 DEF Relays
  <2> DEFINE j == sent[c][o][x]
  <2>6. j < i /\ j \in 1..offered[o]
    <3>1. j \in 1..offered[o]
      BY <1>1, <1>2, <2>4 DEF NumbersInv
    <3>2. m \in c..opened /\ (c < m \/ x < n + 1)
      <4>1. c = m => x \in 1..n
        BY <1>2, Zenon
      <4>2. m \in c..opened
        BY <1>1, <1>5, <2>5
      <4> QED
        BY <1>5, <2>5, <4>1, <4>2
    <3>3. j < i
      BY <1>1, <1>2, <2>4, <3>2 DEF NumbersInv
    <3> QED
      BY <3>1, <3>3
  <2>7. j \in 1..i - 1
    <3> HIDE DEF i, j
    <3> QED
      BY <1>3, <2>6
  <2> QED
    BY <2>2, <2>3, <2>7
<1> QED
  BY <1>2, <1>3, <1>4

\* A step seen from the engine of r and the engine at the other end: an engine sends, a
\* fresh datagram arrives, or neither.
LEMMA EnginesSee ==
    ASSUME TunnelInv, [Next]_vars, NEW r \in Relays, NEW o, o = Other(r)
    PROVE  \/ /\ offered[o] < Len(Payload[o]) /\ offered'[o] = offered[o] + 1
              /\ received'[r] = received[r]
           \/ /\ offered'[o] = offered[o]
              /\ \E i \in 1..offered[o] :
                   /\ \A k \in 1..Len(received[r]) : \E j \in 1..i - 1 : received[r][k] = Payload[o][j]
                   /\ received'[r] = Append(received[r], Payload[o][i])
           \/ offered'[o] = offered[o] /\ received'[r] = received[r]
<1>1. Types /\ o \in Relays /\ o # r
  BY OtherEnd DEF TunnelInv
<1>2. ASSUME NEW q \in Relays, Offer(q)
      PROVE  \/ /\ offered[o] < Len(Payload[o]) /\ offered'[o] = offered[o] + 1
                /\ received'[r] = received[r]
             \/ offered'[o] = offered[o] /\ received'[r] = received[r]
  <2>1. /\ offered[q] < Len(Payload[q]) /\ offered' = [offered EXCEPT ![q] = offered[q] + 1]
        /\ received' = received
    BY <1>2 DEF Offer, histVars
  <2>2. offered \in [Relays -> Nat]
    BY <1>1 DEF Types
  <2> QED
    BY <1>1, <2>1, <2>2
<1>3. ASSUME NEW q \in Relays, ReadExtract(q)
      PROVE  \/ /\ offered'[o] = offered[o]
                /\ \E i \in 1..offered[o] :
                     /\ \A k \in 1..Len(received[r]) : \E j \in 1..i - 1 : received[r][k] = Payload[o][j]
                     /\ received'[r] = Append(received[r], Payload[o][i])
             \/ offered'[o] = offered[o] /\ received'[r] = received[r]
  <2>1. PICK m, oo, n, p : Extracts(q, m, oo, n, p)
    BY <1>3, ExtractDoes
  <2>2. /\ offered' = offered
        /\ received' = received \/ received' = [received EXCEPT ![q] = Append(received[q], p)]
    BY <1>3, <2>1 DEF ReadExtract, Extracts
  <2>3. received \in [Relays -> Seq(Seq(Bytes))]
    BY <1>1 DEF Types
  <2>4. CASE received' = received \/ q # r
    BY <2>2, <2>3, <2>4
  <2>5. CASE received' # received /\ q = r
    <3>1. received'[r] = Append(received[r], p)
      BY <2>2, <2>3, <2>5
    <3>2. /\ oo = o /\ sent[m][oo][n + 1] \in 1..offered[oo] /\ p = Payload[oo][sent[m][oo][n + 1]]
          /\ \A k \in 1..Len(received[q]) :
               \E j \in 1..sent[m][oo][n + 1] - 1 : received[q][k] = Payload[oo][j]
      BY <2>1, <2>5, ExtractsLater
    <3> DEFINE i == sent[m][oo][n + 1]
    <3>3. /\ i \in 1..offered[o] /\ p = Payload[o][i]
          /\ \A k \in 1..Len(received[r]) : \E j \in 1..i - 1 : received[r][k] = Payload[o][j]
      BY <2>5, <3>2
    <3> HIDE DEF i
    <3>4. received'[r] = Append(received[r], Payload[o][i])
      BY <3>1, <3>3
    <3> QED
      BY <2>2, <3>3, <3>4
  <2> QED
    BY <2>4, <2>5
<1>4. CASE ~(\E q \in Relays : Offer(q) \/ ReadExtract(q))
  <2>1. offered' = offered /\ received' = received
    BY <1>4 DEF Next, Iterate, Connect, Accept, CableBreak, Select, ReadRecv, ReadTimeout,
       ReadClosed, UdpTake, WriteSome, WriteFails, Close, vars, histVars
  <2> QED
    BY <2>1
<1> QED
  BY <1>2, <1>3, <1>4

\* The tunnel implements OrderedDatagrams towards the PC (server.cpp, usb_relay_thread): its
\* engine gets each datagram of the phone's engine at most once, whole and in order, through
\* any number of broken connections, given-up writes and partial frames.
THEOREM PcGetsOrdered == Spec => PcGetsOrderedDatagrams
<1>1. Init => ToPc!Init
  BY DEF Init, ToPc!Init, Relays
<1>2. TunnelInv /\ [Next]_vars => [ToPc!Offer \/ ToPc!Deliver]_(ToPc!vars)
  <2> SUFFICES ASSUME TunnelInv, [Next]_vars
               PROVE  [ToPc!Offer \/ ToPc!Deliver]_(ToPc!vars)
    OBVIOUS
  <2>1. "pc" \in Relays /\ "phone" = Other("pc")
    BY DEF Relays, Other
  <2>2. \/ /\ offered["phone"] < Len(Payload["phone"]) /\ offered'["phone"] = offered["phone"] + 1
           /\ received'["pc"] = received["pc"]
        \/ /\ offered'["phone"] = offered["phone"]
           /\ \E i \in 1..offered["phone"] :
                /\ \A k \in 1..Len(received["pc"]) :
                     \E j \in 1..i - 1 : received["pc"][k] = Payload["phone"][j]
                /\ received'["pc"] = Append(received["pc"], Payload["phone"][i])
        \/ offered'["phone"] = offered["phone"] /\ received'["pc"] = received["pc"]
    BY <2>1, EnginesSee
  <2> QED
    BY <2>2 DEF ToPc!Offer, ToPc!Deliver, ToPc!Fresh, ToPc!vars
<1> QED
  BY <1>1, <1>2, TunnelInductive, PTL DEF Spec, PcGetsOrderedDatagrams, ToPc!Spec

\* The same towards the phone (client.cpp, usb_relay_thread_fn), which drops what arrives
\* before its own engine has spoken.
THEOREM PhoneGetsOrdered == Spec => PhoneGetsOrderedDatagrams
<1>1. Init => ToPhone!Init
  BY DEF Init, ToPhone!Init, Relays
<1>2. TunnelInv /\ [Next]_vars => [ToPhone!Offer \/ ToPhone!Deliver]_(ToPhone!vars)
  <2> SUFFICES ASSUME TunnelInv, [Next]_vars
               PROVE  [ToPhone!Offer \/ ToPhone!Deliver]_(ToPhone!vars)
    OBVIOUS
  <2>1. "phone" \in Relays /\ "pc" = Other("phone")
    BY DEF Relays, Other
  <2>2. \/ /\ offered["pc"] < Len(Payload["pc"]) /\ offered'["pc"] = offered["pc"] + 1
           /\ received'["phone"] = received["phone"]
        \/ /\ offered'["pc"] = offered["pc"]
           /\ \E i \in 1..offered["pc"] :
                /\ \A k \in 1..Len(received["phone"]) :
                     \E j \in 1..i - 1 : received["phone"][k] = Payload["pc"][j]
                /\ received'["phone"] = Append(received["phone"], Payload["pc"][i])
        \/ offered'["pc"] = offered["pc"] /\ received'["phone"] = received["phone"]
    BY <2>1, EnginesSee
  <2> QED
    BY <2>2 DEF ToPhone!Offer, ToPhone!Deliver, ToPhone!Fresh, ToPhone!vars
<1> QED
  BY <1>1, <1>2, TunnelInductive, PTL DEF Spec, PhoneGetsOrderedDatagrams, ToPhone!Spec
=============================================================================
