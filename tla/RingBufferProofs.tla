-------------------------- MODULE RingBufferProofs --------------------------
(***************************************************************************)
(* RingBuffer implements BoundedQueue for every set of items, every set of *)
(* capacities and every block size.  The inductive invariant says that     *)
(* head_ is where tail_ and count_ say the contents end: nothing else ties *)
(* the three members together, and without it a block would be written     *)
(* over live items or leave a hole.                                        *)
(***************************************************************************)
EXTENDS RingBuffer, Integers, TLAPS

\* Where position x of a buffer of c cells is, for an x that has gone round the buffer at most once.
Round(c, x) == IF x < c THEN x ELSE x - c

HeadInv == head = Round(capacity, tail + count)

BufferTypes ==
    /\ capacity \in Nat \ {0}
    /\ buffer \in [Cells(capacity) -> Items]
    /\ head \in Cells(capacity) /\ tail \in Cells(capacity)
    /\ count \in 0 .. capacity

RingInv == BufferTypes /\ HeadInv

-----------------------------------------------------------------------------
(* Positions                                                               *)

\* One subtraction is the remainder (the "% capacity_" of the methods).
LEMMA RoundIsMod ==
    ASSUME NEW c \in Nat \ {0}, NEW x \in Nat, x < 2 * c
    PROVE  x % c = IF x < c THEN x ELSE x - c
<1> DEFINE q == x \div c
<1>1. q \in Int /\ x % c \in 0 .. c - 1 /\ x = c * q + (x % c)
  OBVIOUS
<1>2. q = 0 \/ q = 1
  <2>1. CASE q >= 2
    <3>1. PICK r \in Nat : q = r + 2
      BY <2>1
    <3>2. c * q = c * r + 2 * c /\ c * r >= 0
      BY <3>1
    <3> QED
      BY <3>2, <1>1
  <2>2. CASE q <= -1
    <3>1. PICK r \in Nat : q = -1 - r
      BY <2>2
    <3>2. c * q = -c - c * r /\ c * r >= 0
      BY <3>1
    <3> QED
      BY <3>2, <1>1
  <2> QED
    BY <2>1, <2>2, <1>1
<1> QED
  BY <1>1, <1>2

\* After a block of n items head_ or tail_ is n positions further round.
LEMMA MovedRound ==
    ASSUME capacity \in Nat \ {0}, NEW pos \in Cells(capacity), NEW n \in 0 .. capacity
    PROVE  Moved(pos, n) = Round(capacity, pos + n) /\ Moved(pos, n) \in Cells(capacity)
<1>1. (pos + n) % capacity = Round(capacity, pos + n)
  <2>1. pos + n \in Nat /\ pos + n < 2 * capacity
    BY DEF Cells
  <2> QED
    BY <2>1, RoundIsMod DEF Round
<1> QED
  BY <1>1 DEF Moved, Round, FirstChunk, Least, Cells

\* The contents, by position instead of remainder.
LEMMA AroundRound ==
    ASSUME NEW c \in Nat \ {0}, NEW t \in Cells(c), NEW n \in 0 .. c, NEW b
    PROVE  [i \in 1 .. n |-> b[(t + i - 1) % c]] = [i \in 1 .. n |-> b[Round(c, t + i - 1)]]
<1> SUFFICES ASSUME NEW i \in 1 .. n
             PROVE  (t + i - 1) % c = Round(c, t + i - 1)
  OBVIOUS
<1>1. t + i - 1 \in Nat /\ t + i - 1 < 2 * c
  BY DEF Cells
<1> QED
  BY <1>1, RoundIsMod DEF Round

LEMMA ContentsRound ==
    ASSUME BufferTypes
    PROVE  Contents = [i \in 1 .. count |-> buffer[Round(capacity, tail + i - 1)]]
BY AroundRound DEF Contents, BufferTypes

LEMMA ContentsSeq ==
    ASSUME BufferTypes
    PROVE  Contents \in Seq(Items) /\ Len(Contents) = count
<1>1. \A i \in 1 .. count : Round(capacity, tail + i - 1) \in Cells(capacity)
  BY DEF Round, Cells, BufferTypes
<1>2. \A i \in 1 .. count : buffer[Round(capacity, tail + i - 1)] \in Items
  BY <1>1 DEF BufferTypes
<1> QED
  BY <1>2, ContentsRound DEF BufferTypes

-----------------------------------------------------------------------------
(* Copying                                                                 *)

\* The two chunks put item k of the block k - 1 positions after head_ and leave the
\* other cells alone.
LEMMA FilledAt ==
    ASSUME BufferTypes, NEW src \in Seq(Items), NEW n \in 0 .. capacity, n <= Len(src)
    PROVE  /\ Filled(src, n) \in [Cells(capacity) -> Items]
           /\ \A k \in 1 .. n : Filled(src, n)[Round(capacity, head + k - 1)] = src[k]
           /\ \A k \in n + 1 .. capacity :
                Filled(src, n)[Round(capacity, head + k - 1)] = buffer[Round(capacity, head + k - 1)]
<1> DEFINE first == FirstChunk(head, n)
           once == CopyTo(buffer, head, src, 1, first)
<1>1. /\ first \in 0 .. n /\ head + first <= capacity
      /\ first < n => head + first = capacity
      /\ head \in 0 .. capacity - 1 /\ capacity \in Nat /\ n \in Nat
  BY DEF FirstChunk, Least, BufferTypes, Cells
<1>2. Filled(src, n) = CopyTo(once, 0, src, 1 + first, n - first)
  BY DEF Filled
<1> HIDE DEF first
<1>3. /\ DOMAIN once = 0 .. capacity - 1
      /\ \A i \in 0 .. capacity - 1 :
           once[i] = IF i \in head .. head + first - 1 THEN src[1 + i - head] ELSE buffer[i]
  BY DEF CopyTo, BufferTypes, Cells
<1> HIDE DEF once
<1>4. /\ DOMAIN Filled(src, n) = 0 .. capacity - 1
      /\ Filled(src, n) = [i \in 0 .. capacity - 1 |->
           IF i \in 0 .. n - first - 1 THEN src[1 + first + i] ELSE once[i]]
  BY <1>1, <1>2, <1>3 DEF CopyTo
<1>5. /\ DOMAIN Filled(src, n) = 0 .. capacity - 1
      /\ \A i \in 0 .. capacity - 1 : Filled(src, n)[i] =
           IF i < n - first THEN src[1 + first + i]
           ELSE IF head <= i /\ i < head + first THEN src[1 + i - head] ELSE buffer[i]
  BY <1>1, <1>3, <1>4
<1>6. Filled(src, n) \in [Cells(capacity) -> Items]
  <2>1. \A k \in 1 .. n : src[k] \in Items
    BY <1>1
  <2>2. \A i \in 0 .. capacity - 1 : Filled(src, n)[i] \in Items
    BY <1>1, <1>5, <2>1 DEF BufferTypes, Cells
  <2> QED
    BY <1>4, <2>2 DEF Cells
<1>7. ASSUME NEW k \in 1 .. capacity
      PROVE  Filled(src, n)[Round(capacity, head + k - 1)] =
               IF k <= n THEN src[k] ELSE buffer[Round(capacity, head + k - 1)]
  <2>1. CASE head + k - 1 < capacity
    <3>1. Round(capacity, head + k - 1) = head + k - 1 /\ head + k - 1 \in 0 .. capacity - 1
      BY <1>1, <2>1 DEF Round
    <3>2. k <= n => k <= first
      BY <1>1, <2>1
    <3>3. ~(head + k - 1 < n - first)
      BY <1>1, <2>1
    <3> QED
      BY <1>1, <1>5, <3>1, <3>2, <3>3
  <2>2. CASE head + k - 1 >= capacity
    <3>1. /\ Round(capacity, head + k - 1) = head + k - 1 - capacity
          /\ head + k - 1 - capacity \in 0 .. capacity - 1
      BY <1>1, <2>2 DEF Round
    <3> DEFINE j == head + k - 1 - capacity
    <3>2. j < head /\ j \in 0 .. capacity - 1
      BY <1>1, <2>2
    <3>3. CASE k <= n
      <4>1. head + first = capacity
        BY <1>1, <2>2, <3>3
      <4>2. j < n - first /\ 1 + first + j = k
        BY <1>1, <3>3, <4>1
      <4> QED
        BY <1>5, <3>1, <3>2, <3>3, <4>2
    <3>4. CASE k > n
      <4>1. ~(j < n - first)
        BY <1>1, <3>4, <2>2
      <4> QED
        BY <1>1, <1>5, <3>1, <3>2, <3>4, <4>1
    <3> QED
      BY <3>3, <3>4, <1>1
  <2> QED
    BY <2>1, <2>2, <1>1
<1>8. \A k \in 1 .. n : Filled(src, n)[Round(capacity, head + k - 1)] = src[k]
  <2> SUFFICES ASSUME NEW k \in 1 .. n
               PROVE  Filled(src, n)[Round(capacity, head + k - 1)] = src[k]
    OBVIOUS
  <2>1. k \in 1 .. capacity /\ k <= n
    BY <1>1
  <2> QED
    BY <2>1, <1>7
<1>9. \A k \in n + 1 .. capacity :
        Filled(src, n)[Round(capacity, head + k - 1)] = buffer[Round(capacity, head + k - 1)]
  <2> SUFFICES ASSUME NEW k \in n + 1 .. capacity
               PROVE  Filled(src, n)[Round(capacity, head + k - 1)] = buffer[Round(capacity, head + k - 1)]
    OBVIOUS
  <2>1. k \in 1 .. capacity /\ ~(k <= n)
    BY <1>1
  <2> QED
    BY <2>1, <1>7
<1> QED
  BY <1>6, <1>8, <1>9

\* What a read copies is the front of the contents.
LEMMA CopiedIsFront ==
    ASSUME BufferTypes, NEW n \in 0 .. count
    PROVE  Copied(n) = [i \in 1 .. n |-> Contents[i]]
<1> DEFINE first == FirstChunk(tail, n)
<1>1. /\ first \in 0 .. n /\ tail + first <= capacity
      /\ first < n => tail + first = capacity
      /\ tail \in 0 .. capacity - 1 /\ capacity \in Nat /\ count \in 0 .. capacity
  BY DEF FirstChunk, Least, BufferTypes, Cells
<1>2. Copied(n) = [i \in 1 .. n |-> IF i <= first THEN buffer[tail + i - 1]
                                    ELSE buffer[i - first - 1]]
  BY DEF Copied
<1> HIDE DEF first
<1>3. ASSUME NEW i \in 1 .. n
      PROVE  Contents[i] = IF i <= first THEN buffer[tail + i - 1] ELSE buffer[i - first - 1]
  <2>1. Round(capacity, tail + i - 1) = IF i <= first THEN tail + i - 1 ELSE i - first - 1
    BY <1>1 DEF Round
  <2> QED
    BY <1>1, <2>1, ContentsRound
<1> QED
  BY <1>2, <1>3

-----------------------------------------------------------------------------
(* What the methods do to the contents                                     *)

\* Any step that leaves the members in their types, after it.
LEMMA ContentsAfter ==
    ASSUME BufferTypes'
    PROVE  Contents' = [i \in 1 .. count' |-> buffer'[Round(capacity', tail' + i - 1)]]
<1>1. capacity' \in Nat \ {0} /\ tail' \in Cells(capacity') /\ count' \in 0 .. capacity'
  BY DEF BufferTypes
<1>2. Contents' = [i \in 1 .. count' |-> buffer'[(tail' + i - 1) % capacity']]
  BY DEF Contents
<1> QED
  BY <1>1, <1>2, AroundRound

\* A block of n items is written after the oldest drop items were given up.
LEMMA FillContents ==
    ASSUME RingInv,
           NEW src \in Seq(Items), NEW n \in 0 .. capacity, n <= Len(src),
           NEW drop \in 0 .. count, count - drop + n <= capacity,
           capacity' = capacity, buffer' = Filled(src, n), head' = Moved(head, n),
           tail' = Round(capacity, tail + drop), count' = count - drop + n
    PROVE  /\ RingInv'
           /\ Contents' = [i \in 1 .. count - drop + n |->
                IF i <= count - drop THEN Contents[i + drop] ELSE src[i - (count - drop)]]
<1>1. /\ capacity \in Nat \ {0} /\ head \in 0 .. capacity - 1 /\ tail \in 0 .. capacity - 1
      /\ count \in 0 .. capacity /\ head = Round(capacity, tail + count)
      /\ BufferTypes
  BY DEF RingInv, BufferTypes, HeadInv, Cells
<1>2. /\ head' = Round(capacity, head + n) /\ head' \in Cells(capacity)
      /\ tail' \in 0 .. capacity - 1
  <2>1. head \in Cells(capacity)
    BY <1>1 DEF Cells
  <2>2. head' = Round(capacity, head + n) /\ head' \in Cells(capacity)
    BY <1>1, <2>1, MovedRound
  <2>3. tail' \in 0 .. capacity - 1
    BY <1>1 DEF Round
  <2> QED
    BY <2>2, <2>3
<1>3. buffer' \in [Cells(capacity) -> Items]
  BY <1>1, FilledAt
<1>4. BufferTypes'
  BY <1>1, <1>2, <1>3 DEF BufferTypes, Cells
<1>5. HeadInv'
  BY <1>1, <1>2 DEF HeadInv, Round
<1>6. ASSUME NEW i \in 1 .. count - drop
      PROVE  buffer'[Round(capacity, tail' + i - 1)] = Contents[i + drop]
  <2> DEFINE k == capacity - count + drop + i
  <2>1. k \in n + 1 .. capacity
    BY <1>1
  <2>2. /\ Round(capacity, tail' + i - 1) = Round(capacity, head + k - 1)
        /\ Round(capacity, tail' + i - 1) = Round(capacity, tail + (i + drop) - 1)
    BY <1>1 DEF Round
  <2>3. buffer'[Round(capacity, head + k - 1)] = buffer[Round(capacity, head + k - 1)]
    BY <1>1, <2>1, FilledAt
  <2>4. i + drop \in 1 .. count
    BY <1>1
  <2>5. Contents[i + drop] = buffer[Round(capacity, tail + (i + drop) - 1)]
    BY <1>1, <2>4, ContentsRound
  <2> QED
    BY <2>2, <2>3, <2>5
<1>7. ASSUME NEW i \in count - drop + 1 .. count - drop + n
      PROVE  buffer'[Round(capacity, tail' + i - 1)] = src[i - (count - drop)]
  <2> DEFINE k == i - (count - drop)
  <2>1. k \in 1 .. n
    BY <1>1
  <2>2. Round(capacity, tail' + i - 1) = Round(capacity, head + k - 1)
    BY <1>1 DEF Round
  <2>3. buffer'[Round(capacity, head + k - 1)] = src[k]
    BY <1>1, <2>1, FilledAt
  <2> QED
    BY <2>2, <2>3
<1>8. Contents' = [i \in 1 .. count - drop + n |-> buffer'[Round(capacity, tail' + i - 1)]]
  BY <1>4, ContentsAfter
<1>9. ASSUME NEW i \in 1 .. count - drop + n
      PROVE  buffer'[Round(capacity, tail' + i - 1)] =
               IF i <= count - drop THEN Contents[i + drop] ELSE src[i - (count - drop)]
  <2>1. CASE i <= count - drop
    <3>1. i \in 1 .. count - drop
      BY <1>1, <2>1
    <3> QED
      BY <2>1, <3>1, <1>6
  <2>2. CASE ~(i <= count - drop)
    <3>1. i \in count - drop + 1 .. count - drop + n
      BY <1>1, <2>2
    <3> QED
      BY <2>2, <3>1, <1>7
  <2> QED
    BY <2>1, <2>2
<1> QED
  BY <1>4, <1>5, <1>8, <1>9 DEF RingInv

\* The oldest k items are given up.
LEMMA DropContents ==
    ASSUME RingInv, NEW k \in 0 .. count,
           capacity' = capacity, buffer' = buffer, head' = head,
           tail' = Round(capacity, tail + k), count' = count - k
    PROVE  /\ RingInv'
           /\ Contents' = [i \in 1 .. count - k |-> Contents[i + k]]
<1>1. /\ capacity \in Nat \ {0} /\ head \in 0 .. capacity - 1 /\ tail \in 0 .. capacity - 1
      /\ count \in 0 .. capacity /\ head = Round(capacity, tail + count)
      /\ BufferTypes
  BY DEF RingInv, BufferTypes, HeadInv, Cells
<1>2. BufferTypes'
  BY <1>1 DEF BufferTypes, Cells, Round
<1>3. HeadInv'
  BY <1>1 DEF HeadInv, Round
<1>4. Contents' = [i \in 1 .. count - k |-> buffer[Round(capacity, tail' + i - 1)]]
  BY <1>2, ContentsAfter
<1>5. ASSUME NEW i \in 1 .. count - k
      PROVE  buffer[Round(capacity, tail' + i - 1)] = Contents[i + k]
  <2>1. Round(capacity, tail' + i - 1) = Round(capacity, tail + (i + k) - 1)
    BY <1>1 DEF Round
  <2>2. i + k \in 1 .. count
    BY <1>1
  <2> QED
    BY <1>1, <2>1, <2>2, ContentsRound
<1> QED
  BY <1>2, <1>3, <1>4, <1>5 DEF RingInv

\* The members are as after a construction or clear().
LEMMA EmptyContents ==
    ASSUME BufferTypes', tail' = 0, head' = 0, count' = 0
    PROVE  RingInv' /\ Contents' = <<>>
<1>1. HeadInv'
  <2>1. capacity' \in Nat \ {0}
    BY DEF BufferTypes
  <2>2. \A c \in Nat \ {0} : Round(c, 0) = 0
    BY DEF Round
  <2>3. tail' + count' = 0
    OBVIOUS
  <2> QED
    BY <2>1, <2>2, <2>3 DEF HeadInv
<1>2. Contents' = <<>>
  BY DEF Contents
<1> QED
  BY <1>1, <1>2 DEF RingInv

-----------------------------------------------------------------------------
(* Sequences                                                               *)

LEMMA BlockIsSeq ==
    ASSUME NEW src \in Blocks
    PROVE  src \in Seq(Items) /\ Len(src) \in 0 .. MaxBlock
<1>1. PICK n \in 0 .. MaxBlock : src \in [1 .. n -> Items]
  BY DEF Blocks
<1>2. n \in Nat
  BY RingBufferAssumption
<1> QED
  BY <1>1, <1>2

LEMMA FrontIs ==
    ASSUME NEW S, NEW s \in Seq(S), NEW n \in 0 .. Len(s)
    PROVE  SubSeq(s, 1, n) = [i \in 1 .. n |-> s[i]]
OBVIOUS

LEMMA WithoutIs ==
    ASSUME NEW S, NEW s \in Seq(S), NEW n \in 0 .. Len(s)
    PROVE  SubSeq(s, n + 1, Len(s)) = [i \in 1 .. Len(s) - n |-> s[i + n]]
OBVIOUS

LEMMA ConcatIs ==
    ASSUME NEW S, NEW s \in Seq(S), NEW t \in Seq(S)
    PROVE  s \o t = [i \in 1 .. Len(s) + Len(t) |->
                       IF i <= Len(s) THEN s[i] ELSE t[i - Len(s)]]
<1> DEFINE u == s \o t
<1>1. u \in Seq(S) /\ Len(u) = Len(s) + Len(t)
  OBVIOUS
<1>2. \A i \in 1 .. Len(s) + Len(t) : u[i] = IF i <= Len(s) THEN s[i] ELSE t[i - Len(s)]
  OBVIOUS
<1> HIDE DEF u
<1>3. u = [i \in 1 .. Len(s) + Len(t) |-> u[i]]
  BY <1>1
<1> QED
  BY <1>2, <1>3 DEF u

LEMMA ConcatFront ==
    ASSUME NEW S, NEW s \in Seq(S), NEW t \in Seq(S), NEW n \in 0 .. Len(t)
    PROVE  s \o SubSeq(t, 1, n) = [i \in 1 .. Len(s) + n |->
                                     IF i <= Len(s) THEN s[i] ELSE t[i - Len(s)]]
<1> DEFINE u == SubSeq(t, 1, n)
<1>1. u \in Seq(S) /\ Len(u) = n /\ \A i \in 1 .. n : u[i] = t[i]
  OBVIOUS
<1> HIDE DEF u
<1>2. s \o u = [i \in 1 .. Len(s) + Len(u) |-> IF i <= Len(s) THEN s[i] ELSE u[i - Len(s)]]
  BY <1>1, ConcatIs
<1> QED
  BY <1>1, <1>2 DEF u

LEMMA LastOfConcat ==
    ASSUME NEW S, NEW s \in Seq(S), NEW t \in Seq(S), NEW m \in 0 .. Len(s) + Len(t)
    PROVE  SubSeq(s \o t, Len(s \o t) - m + 1, Len(s \o t)) =
             [i \in 1 .. m |-> IF Len(s) + Len(t) - m + i <= Len(s)
                               THEN s[Len(s) + Len(t) - m + i]
                               ELSE t[Len(s) + Len(t) - m + i - Len(s)]]
<1> DEFINE u == s \o t
<1>1. u \in Seq(S) /\ Len(u) = Len(s) + Len(t)
  OBVIOUS
<1>2. \A i \in 1 .. Len(s) + Len(t) : u[i] = IF i <= Len(s) THEN s[i] ELSE t[i - Len(s)]
  OBVIOUS
<1> HIDE DEF u
<1>3. SubSeq(u, Len(u) - m + 1, Len(u)) = [i \in 1 .. m |-> u[Len(u) - m + i]]
  <2>1. Len(u) - m \in 0 .. Len(u) /\ Len(u) \in Nat
    BY <1>1
  <2>2. SubSeq(u, (Len(u) - m) + 1, Len(u)) =
          [i \in 1 .. Len(u) - (Len(u) - m) |-> u[i + (Len(u) - m)]]
    BY <1>1, <2>1, WithoutIs
  <2> QED
    BY <2>1, <2>2
<1>4. \A i \in 1 .. m : Len(u) - m + i \in 1 .. Len(s) + Len(t)
  BY <1>1
<1>5. ASSUME NEW i \in 1 .. m
      PROVE  u[Len(u) - m + i] = IF Len(s) + Len(t) - m + i <= Len(s)
                                 THEN s[Len(s) + Len(t) - m + i]
                                 ELSE t[Len(s) + Len(t) - m + i - Len(s)]
  <2>1. Len(u) - m + i \in 1 .. Len(s) + Len(t) /\ Len(u) = Len(s) + Len(t)
    BY <1>1, <1>4
  <2> QED
    BY ONLY <1>2, <2>1
<1> QED
  BY <1>3, <1>5 DEF u

-----------------------------------------------------------------------------
(* The refinement                                                          *)

LEMMA RingInit ==
    ASSUME Init
    PROVE  RingInv /\ Queue!Init
<1>1. capacity \in Capacities /\ capacity \in Nat \ {0} /\ Blank \in Items
  BY RingBufferAssumption DEF Init, Blank
<1>2. RingInv
  BY <1>1 DEF Init, RingInv, BufferTypes, HeadInv, Round, Cells
<1>3. Contents = <<>>
  BY DEF Init, Contents
<1> QED
  BY <1>1, <1>2, <1>3 DEF Queue!Init, Init

LEMMA RingTypes ==
    ASSUME RingInv
    PROVE  /\ capacity \in Nat \ {0} /\ count \in 0 .. capacity /\ tail \in 0 .. capacity - 1
           /\ BufferTypes /\ Contents \in Seq(Items) /\ Len(Contents) = count
           /\ Free = capacity - count
BY ContentsSeq DEF RingInv, BufferTypes, Free, Cells

\* tail_ after k more items.
LEMMA TailRound ==
    ASSUME RingInv, NEW k \in 0 .. capacity
    PROVE  (tail + k) % capacity = Round(capacity, tail + k)
<1>1. capacity \in Nat \ {0} /\ tail + k \in Nat /\ tail + k < 2 * capacity
  BY RingTypes
<1> QED
  BY <1>1, RoundIsMod DEF Round

LEMMA PutStep ==
    ASSUME RingInv, NEW src \in Seq(Items), NEW n \in 0 .. capacity - count,
           n <= Len(src), Put(src, n)
    PROVE  RingInv' /\ Contents' = Contents \o SubSeq(src, 1, n)
<1>1. capacity \in Nat \ {0} /\ count \in 0 .. capacity /\ tail \in 0 .. capacity - 1
  BY RingTypes
<1>2. /\ capacity' = capacity /\ buffer' = Filled(src, n) /\ head' = Moved(head, n)
      /\ tail' = Round(capacity, tail + 0) /\ count' = count - 0 + n
  BY <1>1 DEF Put, Round
<1>3. n \in 0 .. capacity /\ 0 \in 0 .. count /\ count - 0 + n <= capacity
  BY <1>1
<1>4. /\ RingInv'
      /\ Contents' = [i \in 1 .. count - 0 + n |->
           IF i <= count - 0 THEN Contents[i + 0] ELSE src[i - (count - 0)]]
  BY <1>2, <1>3, FillContents
<1>5. Contents' = [i \in 1 .. count + n |-> IF i <= count THEN Contents[i] ELSE src[i - count]]
  BY <1>1, <1>4
<1>6. n \in 0 .. Len(src)
  BY <1>1
<1>7. Contents \in Seq(Items) /\ Len(Contents) = count
  BY RingTypes
<1>8. Contents \o SubSeq(src, 1, n) =
        [i \in 1 .. Len(Contents) + n |->
           IF i <= Len(Contents) THEN Contents[i] ELSE src[i - Len(Contents)]]
  BY <1>6, <1>7, ConcatFront
<1> QED
  BY <1>4, <1>5, <1>7, <1>8

LEMMA WriteStep ==
    ASSUME RingInv, NEW src \in Blocks, write(src)
    PROVE  RingInv' /\ Queue!AppendFitting(src)
<1> DEFINE n == Least(Len(src), Free)
<1>1. n = Least(Len(src), capacity - Len(Contents)) /\ n \in 0 .. capacity - count
      /\ n <= Len(src) /\ src \in Seq(Items)
  BY RingTypes, BlockIsSeq DEF Least
<1>2. Put(src, n)
  BY DEF write
<1> HIDE DEF n
<1>3. RingInv' /\ Contents' = Contents \o SubSeq(src, 1, n)
  BY <1>1, <1>2, PutStep
<1>4. out' = <<>> /\ capacity' = capacity
  BY <1>2 DEF Put
<1> QED
  BY <1>1, <1>3, <1>4 DEF Queue!AppendFitting, Queue!FirstOf, Queue!Least, Least

LEMMA UnchangedRing ==
    ASSUME RingInv, UNCHANGED <<capacity, buffer, head, tail, count>>
    PROVE  RingInv' /\ Contents' = Contents
BY DEF RingInv, BufferTypes, HeadInv, Contents

LEMMA TryWriteStep ==
    ASSUME RingInv, NEW src \in Blocks, try_write(src)
    PROVE  RingInv' /\ Queue!AppendAll(src)
<1>1. src \in Seq(Items) /\ Len(src) \in Nat
  BY BlockIsSeq, RingBufferAssumption
<1>2. CASE Len(src) > Free
  <2>1. out' = <<>> /\ UNCHANGED <<capacity, buffer, head, tail, count>>
    BY <1>2 DEF try_write
  <2>2. RingInv' /\ Contents' = Contents
    BY <2>1, UnchangedRing
  <2>3. ~(Len(src) <= capacity - Len(Contents))
    BY <1>1, <1>2, RingTypes
  <2> QED
    BY <2>1, <2>2, <2>3 DEF Queue!AppendAll
<1>3. CASE ~(Len(src) > Free)
  <2>1. Put(src, Len(src))
    BY <1>3 DEF try_write
  <2>2. Len(src) \in 0 .. capacity - count /\ Len(src) <= capacity - Len(Contents)
    BY <1>1, <1>3, RingTypes
  <2>3. RingInv' /\ Contents' = Contents \o SubSeq(src, 1, Len(src))
    BY <1>1, <2>1, <2>2, PutStep
  <2>4. SubSeq(src, 1, Len(src)) = src
    BY <1>1
  <2>5. out' = <<>> /\ capacity' = capacity
    BY <2>1 DEF Put
  <2> QED
    BY <2>2, <2>3, <2>4, <2>5 DEF Queue!AppendAll
<1> QED
  BY <1>2, <1>3

LEMMA TakeStep ==
    ASSUME RingInv, NEW k \in 0 .. count,
           capacity' = capacity, buffer' = buffer, head' = head,
           tail' = Round(capacity, tail + k), count' = count - k
    PROVE  RingInv' /\ Contents' = SubSeq(Contents, k + 1, Len(Contents))
<1>1. RingInv' /\ Contents' = [i \in 1 .. count - k |-> Contents[i + k]]
  BY DropContents
<1>2. SubSeq(Contents, k + 1, Len(Contents)) = [i \in 1 .. count - k |-> Contents[i + k]]
  BY RingTypes, WithoutIs
<1> QED
  BY <1>1, <1>2

\* How many items a call for n of them gets.
LEMMA Granted ==
    ASSUME RingInv, NEW n \in 0 .. MaxBlock
    PROVE  /\ Least(n, count) \in 0 .. count /\ Least(n, count) \in 0 .. capacity
           /\ Least(n, count) = Queue!Least(n, Len(Contents))
           /\ Copied(Least(n, count)) = SubSeq(Contents, 1, Least(n, count))
<1>1. /\ Least(n, count) \in 0 .. count /\ Least(n, count) \in 0 .. capacity
      /\ Least(n, count) = Queue!Least(n, Len(Contents))
  BY RingTypes, RingBufferAssumption DEF Least, Queue!Least
<1>2. Copied(Least(n, count)) = [i \in 1 .. Least(n, count) |-> Contents[i]]
  BY <1>1, RingTypes, CopiedIsFront
<1>3. SubSeq(Contents, 1, Least(n, count)) = [i \in 1 .. Least(n, count) |-> Contents[i]]
  BY <1>1, RingTypes, FrontIs
<1> QED
  BY <1>1, <1>2, <1>3

LEMMA ReadStep ==
    ASSUME RingInv, NEW n \in 0 .. MaxBlock, read(n)
    PROVE  RingInv' /\ Queue!Take(n)
<1> DEFINE k == Least(n, count)
<1>1. /\ k \in 0 .. count /\ k \in 0 .. capacity /\ k = Queue!Least(n, Len(Contents))
      /\ Copied(k) = SubSeq(Contents, 1, k)
  BY Granted
<1>2. /\ out' = Copied(k) /\ tail' = Moved(tail, k) /\ count' = count - k
      /\ capacity' = capacity /\ buffer' = buffer /\ head' = head
  BY DEF read
<1> HIDE DEF k
<1>3. Moved(tail, k) = Round(capacity, tail + k)
  BY <1>1, RingTypes, MovedRound DEF Cells
<1>4. RingInv' /\ Contents' = SubSeq(Contents, k + 1, Len(Contents))
  BY <1>1, <1>2, <1>3, TakeStep
<1> QED
  BY <1>1, <1>2, <1>4 DEF Queue!Take, Queue!FirstOf, Queue!Without

LEMMA PeekStep ==
    ASSUME RingInv, NEW n \in 0 .. MaxBlock, peek(n)
    PROVE  RingInv' /\ Queue!Look(n)
<1>1. out' = Copied(Least(n, count)) /\ UNCHANGED <<capacity, buffer, head, tail, count>>
  BY DEF peek
<1>2. RingInv' /\ Contents' = Contents
  BY <1>1, UnchangedRing
<1> QED
  BY <1>1, <1>2, Granted DEF Queue!Look, Queue!FirstOf

LEMMA SkipStep ==
    ASSUME RingInv, NEW n \in 0 .. MaxBlock, skip(n)
    PROVE  RingInv' /\ Queue!Drop(n)
<1> DEFINE k == Least(n, count)
<1>1. k \in 0 .. count /\ k \in 0 .. capacity /\ k = Queue!Least(n, Len(Contents))
  BY Granted
<1>2. /\ out' = <<>> /\ tail' = (tail + k) % capacity /\ count' = count - k
      /\ capacity' = capacity /\ buffer' = buffer /\ head' = head
  BY DEF skip
<1> HIDE DEF k
<1>3. (tail + k) % capacity = Round(capacity, tail + k)
  BY <1>1, TailRound
<1>4. RingInv' /\ Contents' = SubSeq(Contents, k + 1, Len(Contents))
  BY <1>1, <1>2, <1>3, TakeStep
<1> QED
  BY <1>1, <1>2, <1>4 DEF Queue!Drop, Queue!Without

LEMMA EmptyStep ==
    ASSUME RingInv
    PROVE  /\ clear => RingInv' /\ Queue!Empty
           /\ \A c \in Capacities : resize(c) => RingInv' /\ Queue!Resize(c)
<1>1. ASSUME clear PROVE RingInv' /\ Queue!Empty
  <2>1. BufferTypes' /\ tail' = 0 /\ head' = 0 /\ count' = 0
    BY <1>1 DEF clear, RingInv, BufferTypes, Cells
  <2>2. RingInv' /\ Contents' = <<>>
    BY <2>1, EmptyContents
  <2> QED
    BY <1>1, <2>2 DEF clear, Queue!Empty
<1>2. ASSUME NEW c \in Capacities, resize(c) PROVE RingInv' /\ Queue!Resize(c)
  <2>1. c \in Nat \ {0} /\ Blank \in Items
    BY RingBufferAssumption DEF Blank
  <2>2. BufferTypes' /\ tail' = 0 /\ head' = 0 /\ count' = 0
    BY <1>2, <2>1 DEF resize, BufferTypes, Cells
  <2>3. RingInv' /\ Contents' = <<>>
    BY <2>2, EmptyContents
  <2> QED
    BY <1>2, <2>3 DEF resize, Queue!Resize
<1> QED
  BY <1>1, <1>2

LEMMA OverwriteStep ==
    ASSUME RingInv, NEW src \in Blocks, write_overwrite(src)
    PROVE  RingInv' /\ Queue!AppendNewest(src)
<1> DEFINE n == Len(src)
           m == Queue!Least(Len(Contents) + n, capacity)
           newest == [i \in 1 .. m |-> IF count + n - m + i <= count
                                       THEN Contents[count + n - m + i]
                                       ELSE src[count + n - m + i - count]]
<1>1. /\ src \in Seq(Items) /\ n \in Nat
      /\ capacity \in Nat \ {0} /\ count \in 0 .. capacity /\ tail \in 0 .. capacity - 1
      /\ BufferTypes /\ Contents \in Seq(Items) /\ Len(Contents) = count
      /\ Free = capacity - count
  BY BlockIsSeq, RingBufferAssumption, RingTypes
<1>2. /\ m = IF count + n < capacity THEN count + n ELSE capacity
      /\ m \in 0 .. Len(Contents) + Len(src)
  BY <1>1 DEF Queue!Least
<1>3. out' = <<>> /\ capacity' = capacity
  BY DEF write_overwrite
<1> HIDE DEF m
<1>4. Queue!LastOf(Contents \o src, m) = newest
  <2>1. Queue!LastOf(Contents \o src, m) =
          [i \in 1 .. m |-> IF Len(Contents) + Len(src) - m + i <= Len(Contents)
                            THEN Contents[Len(Contents) + Len(src) - m + i]
                            ELSE src[Len(Contents) + Len(src) - m + i - Len(Contents)]]
    <3>1. /\ Contents \in Seq(Items) /\ src \in Seq(Items)
          /\ m \in 0 .. Len(Contents) + Len(src)
      BY <1>1, <1>2
    <3>2. Queue!LastOf(Contents \o src, m) =
            SubSeq(Contents \o src, Len(Contents \o src) - m + 1, Len(Contents \o src))
      BY DEF Queue!LastOf
    <3> QED
      BY ONLY <3>1, <3>2, LastOfConcat
  <2> QED
    BY <1>1, <2>1
<1>5. SUFFICES RingInv' /\ Contents' = newest
  BY <1>3, <1>4 DEF Queue!AppendNewest, m
<1> HIDE DEF n
<1>6. CASE n >= capacity
  <2>1. /\ buffer' = CopyTo(buffer, 0, src, 1 + n - capacity, capacity)
        /\ head' = 0 /\ tail' = 0 /\ count' = capacity
    BY <1>6 DEF write_overwrite, n
  <2>2. m = capacity
    BY <1>1, <1>2, <1>6
  <2>3. buffer' = [i \in 0 .. capacity - 1 |-> src[1 + n - capacity + i]]
    <3>1. \A i \in 0 .. capacity - 1 : i \in 0 .. 0 + capacity - 1
      BY <1>1
    <3> QED
      BY <1>1, <2>1, <3>1 DEF CopyTo, BufferTypes, Cells
  <2>4. \A i \in 0 .. capacity - 1 : src[1 + n - capacity + i] \in Items
    <3> SUFFICES ASSUME NEW i \in 0 .. capacity - 1
                 PROVE  src[1 + n - capacity + i] \in Items
      OBVIOUS
    <3>1. 1 + n - capacity + i \in 1 .. Len(src)
      BY <1>1, <1>6 DEF n
    <3> QED
      BY <1>1, <3>1
  <2>5. BufferTypes'
    <3>1. buffer' \in [Cells(capacity) -> Items]
      BY <2>3, <2>4 DEF Cells
    <3>2. 0 \in Cells(capacity) /\ capacity \in 0 .. capacity
      BY <1>1 DEF Cells
    <3> QED
      BY <1>1, <1>3, <2>1, <3>1, <3>2 DEF BufferTypes
  <2>6. HeadInv'
    <3>1. Round(capacity, 0 + capacity) = 0
      BY <1>1 DEF Round
    <3> QED
      BY <1>3, <2>1, <3>1 DEF HeadInv
  <2>7. Contents' = [i \in 1 .. capacity |-> buffer'[Round(capacity, 0 + i - 1)]]
    BY <1>3, <2>1, <2>5, ContentsAfter
  <2>8. ASSUME NEW i \in 1 .. capacity
        PROVE  buffer'[Round(capacity, 0 + i - 1)] = newest[i]
    <3>1. Round(capacity, 0 + i - 1) = i - 1 /\ i - 1 \in 0 .. capacity - 1
      BY <1>1 DEF Round
    <3>2. buffer'[i - 1] = src[1 + n - capacity + (i - 1)]
      BY <2>3, <3>1
    <3>3. ~(count + n - m + i <= count) /\ count + n - m + i - count = 1 + n - capacity + (i - 1)
      BY <1>1, <1>6, <2>2
    <3> QED
      BY <2>2, <3>1, <3>2, <3>3
  <2> QED
    BY <2>2, <2>5, <2>6, <2>7, <2>8 DEF RingInv
<1>7. CASE n < capacity
  <2> DEFINE drop == IF n > Free THEN n - Free ELSE 0
  <2>1. /\ tail' = (tail + drop) % capacity /\ buffer' = Filled(src, n)
        /\ head' = Moved(head, n) /\ count' = count - drop + n
    <3>1. ~(Len(src) >= capacity)
      BY <1>1, <1>7 DEF n
    <3> QED
      BY <3>1 DEF write_overwrite, n
  <2>2. /\ drop \in 0 .. count /\ drop \in 0 .. capacity /\ n \in 0 .. capacity
        /\ count - drop + n = m /\ m <= capacity
    <3>1. drop = IF n > capacity - count THEN n - (capacity - count) ELSE 0
      BY <1>1
    <3> HIDE DEF drop
    <3> QED
      BY <1>1, <1>2, <1>7, <3>1
  <2> HIDE DEF drop
  <2>3. tail' = Round(capacity, tail + drop)
    BY <2>1, <2>2, TailRound
  <2>4. /\ RingInv'
        /\ Contents' = [i \in 1 .. count - drop + n |->
             IF i <= count - drop THEN Contents[i + drop] ELSE src[i - (count - drop)]]
    <3>1. n <= Len(src) /\ count - drop + n <= capacity
      BY <1>1, <2>2 DEF n
    <3> QED
      BY ONLY RingInv, <1>1, <1>3, <2>1, <2>2, <2>3, <3>1, FillContents
  <2>5. ASSUME NEW i \in 1 .. m
        PROVE  (IF i <= count - drop THEN Contents[i + drop] ELSE src[i - (count - drop)])
                 = newest[i]
    <3>1. count + n - m + i = i + drop /\ count + n - m + i - count = i - (count - drop)
      BY <1>1, <2>2
    <3>2. i <= count - drop <=> i + drop <= count
      BY <1>1, <2>2
    <3>3. newest[i] = IF count + n - m + i <= count THEN Contents[count + n - m + i]
                      ELSE src[count + n - m + i - count]
      OBVIOUS
    <3> HIDE DEF newest
    <3> QED
      BY <3>1, <3>2, <3>3
  <2> QED
    BY <2>2, <2>4, <2>5
<1> QED
  BY <1>1, <1>6, <1>7

LEMMA RingStep ==
    ASSUME RingInv, [Next]_vars
    PROVE  RingInv' /\ [Queue!Next]_<<Contents, capacity, out>>
<1>1. ASSUME NEW src \in Blocks, write(src)
      PROVE  RingInv' /\ Queue!Next
  BY <1>1, WriteStep DEF Queue!Next, Queue!Blocks, Blocks
<1>2. ASSUME NEW src \in Blocks, try_write(src)
      PROVE  RingInv' /\ Queue!Next
  BY <1>2, TryWriteStep DEF Queue!Next, Queue!Blocks, Blocks
<1>3. ASSUME NEW src \in Blocks, write_overwrite(src)
      PROVE  RingInv' /\ Queue!Next
  BY <1>3, OverwriteStep DEF Queue!Next, Queue!Blocks, Blocks
<1>4. ASSUME NEW n \in 0 .. MaxBlock, read(n)
      PROVE  RingInv' /\ Queue!Next
  BY <1>4, ReadStep DEF Queue!Next
<1>5. ASSUME NEW n \in 0 .. MaxBlock, peek(n)
      PROVE  RingInv' /\ Queue!Next
  BY <1>5, PeekStep DEF Queue!Next
<1>6. ASSUME NEW n \in 0 .. MaxBlock, skip(n)
      PROVE  RingInv' /\ Queue!Next
  BY <1>6, SkipStep DEF Queue!Next
<1>7. ASSUME clear
      PROVE  RingInv' /\ Queue!Next
  BY <1>7, EmptyStep DEF Queue!Next
<1>8. ASSUME NEW c \in Capacities, resize(c)
      PROVE  RingInv' /\ Queue!Next
  BY <1>8, EmptyStep DEF Queue!Next
<1>9. ASSUME UNCHANGED vars
      PROVE  RingInv' /\ UNCHANGED <<Contents, capacity, out>>
  BY <1>9, UnchangedRing DEF vars
<1> QED
  BY <1>1, <1>2, <1>3, <1>4, <1>5, <1>6, <1>7, <1>8, <1>9 DEF Next

\* RingBuffer implements BoundedQueue: for every item type, capacity and block length, no
\* method loses, repeats or reorders an item at the end of buffer_, and write_overwrite
\* keeps the newest ones.
THEOREM RingBufferIsQueue == Spec => IsQueue
<1>1. Init => RingInv /\ Queue!Init
  BY RingInit
<1>2. RingInv /\ [Next]_vars => RingInv' /\ [Queue!Next]_<<Contents, capacity, out>>
  BY RingStep
<1> QED
  BY <1>1, <1>2, PTL DEF Spec, IsQueue, Queue!Spec

=============================================================================
