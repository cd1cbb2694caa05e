----------------------- MODULE ConnectionStreamProofs -----------------------
(* Proofs that the packets of a connection stay whole, single and in       *)
(* order, both ways, for every number and size of packets, every size of   *)
(* the buffers and every way the stream is cut.                            *)
(*                                                                         *)
(* A stream is what has been sent and not been taken out yet, wherever it  *)
(* lies.  The invariant says of every two of its bytes what the one says   *)
(* of the other, so that no induction over the stream is needed.           *)
EXTENDS ConnectionProofs

\* The stream starts with a packet, the one after done.
Begins(s, done) == s # <<>> => s[1].packet = done + 1 /\ s[1].at = 1

\* Its bytes are of packets after done and up to last.
Within(s, done, last) ==
  \A i \in 1 .. Len(s) : s[i].at \in 1 .. s[i].size /\ s[i].packet \in done + 1 .. last

\* Byte s[i] says what s[j] is, if that is of the same packet, and else that
\* it is of a later one.
Tells(s, i, j) ==
  /\ s[i].at + (j - i) <= s[i].size =>
       s[j] = [packet |-> s[i].packet, at |-> s[i].at + (j - i), size |-> s[i].size]
  /\ s[i].at + (j - i) > s[i].size => s[j].packet > s[i].packet

Runs(s) == \A i, j \in 1 .. Len(s) : i <= j => Tells(s, i, j)

\* The packet after a packet is the next one.
Leads(s, i) == s[i].at = s[i].size => s[i + 1].at = 1 /\ s[i + 1].packet = s[i].packet + 1

Follows(s) == \A i \in 1 .. Len(s) - 1 : Leads(s, i)

(* s continues a stream of packets of which done have been taken out, with *)
(* packets up to last.                                                     *)
Stream(s, done, last) ==
  Begins(s, done) /\ Within(s, done, last) /\ Runs(s) /\ Follows(s)

\* The stream ends with the end of the last packet.
Whole(s, done, last) ==
  IF s = <<>> THEN done = last ELSE s[Len(s)].at = s[Len(s)].size /\ s[Len(s)].packet = last

(* The parts of a byte of a stream.                                        *)
LEMMA ByteParts ==
  ASSUME NEW s \in Seq(Bytes), NEW done \in Nat, NEW last \in Nat, Within(s, done, last),
         NEW i \in 1 .. Len(s)
  PROVE  /\ s[i] \in Bytes /\ s[i].at \in Nat /\ s[i].size \in Nat /\ s[i].packet \in Nat
         /\ 1 <= s[i].at /\ s[i].at <= s[i].size /\ done < s[i].packet /\ s[i].packet <= last
         /\ s[i].size \in Sizes /\ HeaderSize < s[i].size /\ HeaderSize \in Nat \ {0}
<1>1. s[i] \in Bytes
  OBVIOUS
<1>2. s[i].packet \in done + 1 .. last /\ s[i].at \in 1 .. s[i].size
  BY DEF Within
<1>3. s[i].size \in Sizes
  BY <1>1 DEF Bytes
<1>4. s[i].size \in Nat /\ HeaderSize < s[i].size /\ HeaderSize \in Nat \ {0}
  BY <1>3, ConnectionAssumption
<1> QED  BY <1>1, <1>2, <1>3, <1>4

\* t is s and a packet after it.
Appended(s, t, k, size) ==
  /\ Len(t) = Len(s) + size /\ \A i \in 1 .. Len(s) : t[i] = s[i]
  /\ \A i \in 1 .. size : t[Len(s) + i] = [packet |-> k, at |-> i, size |-> size]

(* A packet is appended to a stream that ends with one.                    *)
LEMMA AppendPacket ==
  ASSUME NEW s \in Seq(Bytes), NEW t \in Seq(Bytes), NEW done \in Nat, NEW last \in Nat,
         NEW size \in Sizes, done <= last, Stream(s, done, last), Whole(s, done, last),
         Appended(s, t, last + 1, size)
  PROVE  Stream(t, done, last + 1) /\ Whole(t, done, last + 1)
<1> DEFINE m == Len(s)
<1>0. m \in Nat /\ size \in Nat /\ size >= 2 /\ Len(t) = m + size
  BY ConnectionAssumption DEF Appended
<1>1. m = 0 <=> s = <<>>
  BY EmptySeq
<1>2. ASSUME NEW i \in 1 .. m PROVE t[i] = s[i]
  BY DEF Appended
<1>3. ASSUME NEW i \in 1 .. m
      PROVE  /\ s[i].at \in Nat /\ s[i].size \in Nat /\ s[i].packet \in Nat
             /\ 1 <= s[i].at /\ s[i].at <= s[i].size
             /\ done < s[i].packet /\ s[i].packet <= last
  BY ByteParts DEF Stream
<1>4. ASSUME NEW i \in m + 1 .. m + size
      PROVE  t[i] = [packet |-> last + 1, at |-> i - m, size |-> size]
  <2>1. i - m \in 1 .. size /\ m + (i - m) = i
    BY <1>0
  <2> QED  BY <2>1 DEF Appended
<1>5. ASSUME m > 0
      PROVE  /\ s[m].at = s[m].size /\ s[m].packet = last /\ m \in 1 .. m /\ 1 \in 1 .. m
             /\ s[1].packet = done + 1 /\ s[1].at = 1
  BY <1>0, <1>1, <1>5 DEF Whole, Stream, Begins
<1>6. m = 0 => done = last
  BY <1>1 DEF Whole
<1> HIDE DEF m
<1>7. Begins(t, done)
  <2>1. CASE m = 0
    <3>1. t[1] = [packet |-> last + 1, at |-> 1 - m, size |-> size]
      BY <1>0, <1>4, <2>1
    <3> QED  BY <1>6, <2>1, <3>1 DEF Begins
  <2>2. CASE m > 0
    BY <1>2, <1>5, <2>2 DEF Begins
  <2> QED  BY <1>0, <2>1, <2>2
<1>8. Within(t, done, last + 1)
  <2> SUFFICES ASSUME NEW i \in 1 .. Len(t)
               PROVE  t[i].at \in 1 .. t[i].size /\ t[i].packet \in done + 1 .. last + 1
    BY DEF Within
  <2>1. CASE i \in 1 .. m
    BY <1>2, <1>3, <2>1
  <2>2. CASE i \in m + 1 .. m + size
    <3>1. t[i] = [packet |-> last + 1, at |-> i - m, size |-> size]
      BY <1>4, <2>2
    <3>2. i - m \in 1 .. size /\ last + 1 \in done + 1 .. last + 1
      BY <1>0, <2>2
    <3> QED  BY <3>1, <3>2
  <2> QED  BY <1>0, <2>1, <2>2
<1>9. Runs(t)
  <2> SUFFICES ASSUME NEW i \in 1 .. Len(t), NEW j \in 1 .. Len(t), i <= j PROVE Tells(t, i, j)
    BY DEF Runs
  <2>1. CASE j \in 1 .. m
    <3>1. i \in 1 .. m
      BY <1>0, <2>1
    <3>2. Tells(s, i, j)
      BY <2>1, <3>1 DEF Stream, Runs, m
    <3>3. t[i] = s[i] /\ t[j] = s[j]
      BY <1>2, <2>1, <3>1
    <3> QED  BY <3>2, <3>3 DEF Tells
  <2>2. CASE i \in 1 .. m /\ j \in m + 1 .. m + size
    <3>0. t[j] = [packet |-> last + 1, at |-> j - m, size |-> size]
      BY <1>4, <2>2
    <3>1. t[j].packet = last + 1 /\ t[i] = s[i]
      BY <1>2, <2>2, <3>0
    <3>2. /\ s[i].at \in Nat /\ s[i].size \in Nat /\ s[i].packet \in Nat /\ s[i].packet <= last
      BY <1>3, <2>2
    <3>3. /\ s[m].at = s[m].size /\ m \in 1 .. m /\ i <= m
      BY <1>0, <1>5, <2>2
    <3>4. Tells(s, i, m)
      BY <2>2, <3>3 DEF Stream, Runs, m
    <3>5. s[i].at + (j - i) > s[i].size
      <4> DEFINE a == s[i].at
                 z == s[i].size
      <4>1. a + (m - i) <= z => a + (m - i) = z
        <5> SUFFICES ASSUME a + (m - i) <= z PROVE a + (m - i) = z
          OBVIOUS
        <5>1. s[m] = [packet |-> s[i].packet, at |-> a + (m - i), size |-> z]
          BY <3>4 DEF Tells
        <5> QED  BY <3>3, <5>1
      <4>2. a \in Nat /\ z \in Nat /\ i \in Nat /\ j \in Nat /\ m \in Nat /\ j > m
        <5>1. a \in Nat /\ z \in Nat
          BY <3>2
        <5>2. i \in Nat /\ j \in Nat /\ m \in Nat /\ j > m
          BY <1>0, <2>2
        <5> QED  BY <5>1, <5>2
      <4> HIDE DEF a, z
      <4>3. a + (j - i) > z
        BY <4>1, <4>2
      <4> QED  BY <4>3 DEF a, z
    <3>6. ~(s[i].at + (j - i) <= s[i].size) /\ t[j].packet > t[i].packet
      <4>1. s[i].at + (j - i) \in Int /\ s[i].size \in Int
        BY <1>0, <2>2, <3>2
      <4>2. ~(s[i].at + (j - i) <= s[i].size)
        BY <3>5, <4>1
      <4>3. last + 1 > s[i].packet
        BY <3>2
      <4> QED  BY <3>1, <4>2, <4>3
    <3> QED  BY <3>1, <3>6 DEF Tells
  <2>3. CASE i \in m + 1 .. m + size /\ j \in m + 1 .. m + size
    <3>1. /\ t[i] = [packet |-> last + 1, at |-> i - m, size |-> size]
          /\ t[j] = [packet |-> last + 1, at |-> j - m, size |-> size]
      BY <1>4, <2>3
    <3>2. (i - m) + (j - i) = j - m /\ j - m <= size /\ i \in Nat /\ j \in Nat
      BY <1>0, <2>3
    <3> QED  BY <1>0, <3>1, <3>2 DEF Tells
  <2> QED  BY <1>0, <2>1, <2>2, <2>3
<1>10. Follows(t)
  <2> SUFFICES ASSUME NEW i \in 1 .. Len(t) - 1 PROVE Leads(t, i)
    BY DEF Follows
  <2>1. CASE i + 1 \in 1 .. m
    <3>1. i \in 1 .. m - 1 /\ i \in 1 .. m
      BY <1>0, <2>1
    <3>2. Leads(s, i)
      BY <3>1 DEF Stream, Follows, m
    <3> QED  BY <1>2, <2>1, <3>1, <3>2 DEF Leads
  <2>2. CASE i = m
    <3>1. m > 0 /\ m + 1 \in m + 1 .. m + size /\ (m + 1) - m = 1
      BY <1>0, <2>2
    <3>2. t[m + 1] = [packet |-> last + 1, at |-> 1, size |-> size]
      BY <1>4, <3>1
    <3>3. t[m].packet = last
      BY <1>2, <1>5, <3>1
    <3> QED  BY <2>2, <3>2, <3>3 DEF Leads
  <2>3. CASE i \in m + 1 .. m + size - 1
    <3>1. i \in m + 1 .. m + size /\ i - m # size
      BY <1>0, <2>3
    <3>2. t[i] = [packet |-> last + 1, at |-> i - m, size |-> size]
      BY <1>4, <3>1
    <3> QED  BY <3>1, <3>2 DEF Leads
  <2> QED  BY <1>0, <2>1, <2>2, <2>3
<1>11. Whole(t, done, last + 1)
  <2>1. m + size \in m + 1 .. m + size /\ (m + size) - m = size
    BY <1>0
  <2>2. t[m + size] = [packet |-> last + 1, at |-> size, size |-> size]
    BY <1>4, <2>1
  <2>3. t # <<>>
    BY <1>0, EmptySeq
  <2> QED  BY <1>0, <2>2, <2>3 DEF Whole
<1> QED  BY <1>7, <1>8, <1>9, <1>10, <1>11 DEF Stream

(* The first packet of a stream: it says what its bytes are.               *)
LEMMA FirstPacket ==
  ASSUME NEW s \in Seq(Bytes), NEW done \in Nat, NEW last \in Nat, Stream(s, done, last),
         Len(s) > 0
  PROVE  /\ s[1].size \in Sizes /\ s[1].size \in Nat /\ s[1].size >= 2 /\ done + 1 <= last
         /\ \A i \in 1 .. Len(s) : i <= s[1].size =>
              s[i] = [packet |-> done + 1, at |-> i, size |-> s[1].size]
         /\ \A i \in 1 .. Len(s) : i > s[1].size => s[i].packet > done + 1
<1>1. 1 \in 1 .. Len(s) /\ s # <<>>
  OBVIOUS
<1>2. s[1].packet = done + 1 /\ s[1].at = 1
  BY <1>1 DEF Stream, Begins
<1>3. s[1].size \in Sizes /\ s[1].size \in Nat /\ s[1].size >= 2 /\ done + 1 <= last
  BY <1>1, <1>2, ByteParts DEF Stream
<1>4. ASSUME NEW i \in 1 .. Len(s)
      PROVE  /\ i <= s[1].size => s[i] = [packet |-> done + 1, at |-> i, size |-> s[1].size]
             /\ i > s[1].size => s[i].packet > done + 1
  <2>1. Tells(s, 1, i)
    BY <1>1 DEF Stream, Runs
  <2>2. 1 + (i - 1) = i
    OBVIOUS
  <2> QED  BY <1>2, <2>1, <2>2 DEF Tells
<1> QED  BY <1>3, <1>4

\* t is what is left of s without its first n bytes.
Left(s, t, n) == Len(t) = Len(s) - n /\ \A i \in 1 .. Len(s) - n : t[i] = s[n + i]

(* A packet is taken out of a stream that holds it.                        *)
LEMMA TakePacket ==
  ASSUME NEW s \in Seq(Bytes), NEW t \in Seq(Bytes), NEW done \in Nat, NEW last \in Nat,
         Stream(s, done, last), Len(s) > 0, s[1].size <= Len(s), Left(s, t, s[1].size)
  PROVE  Stream(t, done + 1, last) /\ (Whole(s, done, last) => Whole(t, done + 1, last))
<1> DEFINE n == s[1].size
           m == Len(s)
<1>1. /\ n \in Nat /\ n >= 2 /\ m \in Nat /\ n <= m /\ n \in 1 .. m
      /\ \A i \in 1 .. m : i <= n => s[i] = [packet |-> done + 1, at |-> i, size |-> n]
      /\ \A i \in 1 .. m : i > n => s[i].packet > done + 1
  BY FirstPacket
<1>2. Len(t) = m - n /\ Len(t) \in Nat
  BY <1>1 DEF Left
<1>3. ASSUME NEW i \in 1 .. Len(t) PROVE t[i] = s[n + i] /\ n + i \in 1 .. m /\ n + i > n
  <2>0. n \in Nat /\ m \in Nat /\ n <= m /\ Len(t) = m - n /\ m = Len(s)
    BY <1>1, <1>2
  <2>1. n + i \in 1 .. m /\ n + i > n /\ i \in 1 .. Len(s) - n
    <3> HIDE DEF n, m
    <3> QED  BY <2>0
  <2>2. t[i] = s[n + i]
    BY <2>1 DEF Left
  <2> QED  BY <2>1, <2>2
<1>4. s[n] = [packet |-> done + 1, at |-> n, size |-> n]
  BY <1>1
<1>5. ASSUME NEW i \in 1 .. m
      PROVE s[i].at \in 1 .. s[i].size /\ s[i].packet \in done + 1 .. last
  BY DEF Stream, Within
<1>6. ASSUME NEW i \in 1 .. m, NEW j \in 1 .. m, i <= j PROVE Tells(s, i, j)
  <2>1. Runs(s) /\ m = Len(s)
    BY DEF Stream
  <2> QED  BY <1>6, <2>1 DEF Runs
<1>7. ASSUME NEW i \in 1 .. m - 1 PROVE Leads(s, i)
  BY DEF Stream, Follows
<1>8. m > 0 /\ (Whole(s, done, last) => s[m].at = s[m].size /\ s[m].packet = last)
  BY <1>1 DEF Whole
<1> HIDE DEF m, n
<1>9. Begins(t, done + 1)
  <2> SUFFICES ASSUME t # <<>> PROVE t[1].packet = (done + 1) + 1 /\ t[1].at = 1
    BY DEF Begins
  <2>1. Len(t) > 0
    BY <1>2, EmptySeq
  <2>2. n \in 1 .. m - 1 /\ 1 \in 1 .. Len(t)
    BY <1>1, <1>2, <2>1
  <2>3. Leads(s, n) /\ t[1] = s[n + 1]
    BY <1>3, <1>7, <2>2
  <2> QED  BY <1>4, <2>3 DEF Leads
<1>10. Within(t, done + 1, last)
  <2> SUFFICES ASSUME NEW i \in 1 .. Len(t)
               PROVE  t[i].at \in 1 .. t[i].size /\ t[i].packet \in (done + 1) + 1 .. last
    BY DEF Within
  <2>1. t[i] = s[n + i] /\ n + i \in 1 .. m /\ n + i > n
    BY <1>3
  <2>2. s[n + i].at \in 1 .. s[n + i].size /\ s[n + i].packet \in done + 1 .. last
    BY <1>5, <2>1
  <2>3. s[n + i].packet > done + 1
    BY <1>1, <2>1
  <2>4. s[n + i].packet \in (done + 1) + 1 .. last
    BY <2>2, <2>3
  <2> QED  BY <2>1, <2>2, <2>4
<1>11. Runs(t)
  <2> SUFFICES ASSUME NEW i \in 1 .. Len(t), NEW j \in 1 .. Len(t), i <= j PROVE Tells(t, i, j)
    BY DEF Runs
  <2>1. t[i] = s[n + i] /\ n + i \in 1 .. m /\ t[j] = s[n + j] /\ n + j \in 1 .. m
    BY <1>3
  <2>2. n + i <= n + j /\ (n + j) - (n + i) = j - i
    BY <1>1
  <2>3. Tells(s, n + i, n + j)
    BY <1>6, <2>1, <2>2
  <2> QED  BY <2>1, <2>2, <2>3 DEF Tells
<1>12. Follows(t)
  <2> SUFFICES ASSUME NEW i \in 1 .. Len(t) - 1 PROVE Leads(t, i)
    BY DEF Follows
  <2>1. i \in 1 .. Len(t) /\ i + 1 \in 1 .. Len(t) /\ n + i \in 1 .. m - 1
        /\ n + (i + 1) = (n + i) + 1
    BY <1>1, <1>2
  <2>2. t[i] = s[n + i] /\ t[i + 1] = s[(n + i) + 1]
    BY <1>3, <2>1
  <2>3. Leads(s, n + i)
    BY <1>7, <2>1
  <2> QED  BY <2>2, <2>3 DEF Leads
<1>13. ASSUME Whole(s, done, last) PROVE Whole(t, done + 1, last)
  <2>1. CASE t = <<>>
    <3>1. m = n
      BY <1>1, <1>2, <2>1
    <3> QED  BY <1>4, <1>8, <1>13, <2>1, <3>1 DEF Whole
  <2>2. CASE t # <<>>
    <3>0. Len(t) # 0
      BY <2>2, EmptySeq
    <3>1. Len(t) \in 1 .. Len(t) /\ n + Len(t) = m
      BY <1>1, <1>2, <3>0
    <3>2. t[Len(t)] = s[m]
      BY <1>3, <3>1
    <3> QED  BY <1>8, <1>13, <2>2, <3>2 DEF Whole
  <2> QED  BY <2>1, <2>2
<1> QED  BY <1>9, <1>10, <1>11, <1>12, <1>13 DEF Stream

\* t is the first part of s.
Cut(s, t) == Len(t) <= Len(s) /\ \A i \in 1 .. Len(t) : t[i] = s[i]

(* What is left when the rest is discarded is a stream too, and more       *)
(* packets may have been numbered since.                                   *)
LEMMA CutStream ==
  ASSUME NEW s \in Seq(Bytes), NEW t \in Seq(Bytes), NEW done \in Nat, NEW last \in Nat,
         NEW more \in Nat, last <= more, Stream(s, done, last), Cut(s, t)
  PROVE  Stream(t, done, more)
<1>0. Len(s) \in Nat /\ Len(t) \in Nat /\ Len(t) <= Len(s)
  BY DEF Cut
<1>1. ASSUME NEW i \in 1 .. Len(t) PROVE t[i] = s[i] /\ i \in 1 .. Len(s)
  BY <1>0 DEF Cut
<1>2. Begins(t, done)
  <2> SUFFICES ASSUME t # <<>> PROVE t[1].packet = done + 1 /\ t[1].at = 1
    BY DEF Begins
  <2>1. 1 \in 1 .. Len(t)
    BY <1>0, EmptySeq
  <2>2. t[1] = s[1] /\ s # <<>>
    BY <1>1, <2>1
  <2> QED  BY <2>2 DEF Stream, Begins
<1>3. Within(t, done, more)
  <2> SUFFICES ASSUME NEW i \in 1 .. Len(t)
               PROVE  t[i].at \in 1 .. t[i].size /\ t[i].packet \in done + 1 .. more
    BY DEF Within
  <2>1. t[i] = s[i] /\ i \in 1 .. Len(s)
    BY <1>1
  <2>2. s[i].at \in 1 .. s[i].size /\ s[i].packet \in done + 1 .. last
    BY <2>1 DEF Stream, Within
  <2>3. s[i].packet \in done + 1 .. more
    BY <2>2
  <2> QED  BY <2>1, <2>2, <2>3
<1>4. Runs(t)
  <2> SUFFICES ASSUME NEW i \in 1 .. Len(t), NEW j \in 1 .. Len(t), i <= j PROVE Tells(t, i, j)
    BY DEF Runs
  <2>1. t[i] = s[i] /\ i \in 1 .. Len(s) /\ t[j] = s[j] /\ j \in 1 .. Len(s)
    BY <1>1
  <2>2. Tells(s, i, j)
    BY <2>1 DEF Stream, Runs
  <2> QED  BY <2>1, <2>2 DEF Tells
<1>5. Follows(t)
  <2> SUFFICES ASSUME NEW i \in 1 .. Len(t) - 1 PROVE Leads(t, i)
    BY DEF Follows
  <2>1. i \in 1 .. Len(t) /\ i + 1 \in 1 .. Len(t) /\ i \in 1 .. Len(s) - 1
    BY <1>0
  <2>2. t[i] = s[i] /\ t[i + 1] = s[i + 1]
    BY <1>1, <2>1
  <2>3. Leads(s, i)
    BY <2>1 DEF Stream, Follows
  <2> QED  BY <2>2, <2>3 DEF Leads
<1> QED  BY <1>2, <1>3, <1>4, <1>5 DEF Stream

(* The header at the front of a stream says how long its packet is.        *)
LEMMA ReadHeader ==
  ASSUME NEW s \in Seq(Bytes), NEW h \in Seq(Bytes), NEW done \in Nat, NEW last \in Nat,
         Stream(s, done, last), Len(h) = HeaderSize, HeaderSize <= Len(s),
         \A i \in 1 .. HeaderSize : h[i] = s[i]
  PROVE  Len(s) > 0 /\ HeaderSizes(h) = {s[1].size}
<1>0. HeaderSize \in Nat \ {0} /\ Len(s) \in Nat
  BY ConnectionAssumption
<1>1. Len(s) > 0
  BY <1>0
<1> DEFINE n == s[1].size
<1>2. /\ n \in Sizes /\ n \in Nat /\ HeaderSize < n
      /\ \A i \in 1 .. Len(s) : i <= n => s[i] = [packet |-> done + 1, at |-> i, size |-> n]
      /\ done + 1 <= last
  BY <1>1, FirstPacket, ConnectionAssumption
<1>3. h[1] = [packet |-> done + 1, at |-> 1, size |-> n]
  <2>1. 1 \in 1 .. HeaderSize /\ 1 \in 1 .. Len(s) /\ 1 <= n
    BY <1>0, <1>2
  <2> QED  BY <1>2, <2>1
<1>4. done + 1 \in Number
  <2>1. h[1] \in Bytes
    BY <1>0
  <2> QED  BY <1>3, <2>1 DEF Bytes
<1> DEFINE p == Packet(done + 1, n)
<1>5. /\ p \in Seq(Bytes) /\ Len(p) = n
      /\ \A i \in 1 .. n : p[i] = [packet |-> done + 1, at |-> i, size |-> n]
  BY <1>2, <1>4, PacketBytes
<1> HIDE DEF p, n
<1>6. /\ SubSeq(p, 1, HeaderSize) \in Seq(Bytes) /\ Len(SubSeq(p, 1, HeaderSize)) = HeaderSize
      /\ \A i \in 1 .. HeaderSize : SubSeq(p, 1, HeaderSize)[i] = p[i]
  <2>1. HeaderSize \in 1 .. Len(p)
    BY <1>0, <1>2, <1>5
  <2> QED  BY <1>5, <2>1, Pieces
<1>7. h = SubSeq(p, 1, HeaderSize)
  <2>1. ASSUME NEW i \in 1 .. HeaderSize PROVE h[i] = SubSeq(p, 1, HeaderSize)[i]
    <3>1. i \in 1 .. n /\ i \in 1 .. Len(s) /\ i <= n
      BY <1>0, <1>2
    <3>2. h[i] = s[i] /\ s[i] = [packet |-> done + 1, at |-> i, size |-> n]
      BY <1>2, <3>1
    <3>3. p[i] = [packet |-> done + 1, at |-> i, size |-> n]
      BY <1>5, <3>1
    <3> QED  BY <1>6, <3>2, <3>3
  <2> QED  BY <1>6, <2>1, SeqEqual
<1>8. h[1].packet = done + 1 /\ h[1].size = n
  BY <1>3
<1>9. HeaderSizes(h) = {n}
  BY <1>7, <1>8 DEF HeaderSizes, p
<1> QED  BY <1>1, <1>9 DEF n

(* The bytes at the front of a stream parse as the next packet.            *)
LEMMA ReadPacket ==
  ASSUME NEW s \in Seq(Bytes), NEW h \in Seq(Bytes), NEW done \in Nat, NEW last \in Nat,
         Stream(s, done, last), Len(s) > 0, Len(h) = s[1].size, s[1].size <= Len(s),
         \A i \in 1 .. s[1].size : h[i] = s[i]
  PROVE  Parsed(h) = done + 1 /\ done + 1 \in Number /\ done + 1 <= last
<1> DEFINE n == s[1].size
<1>1. /\ n \in Sizes /\ n \in Nat /\ n >= 2 /\ Len(s) \in Nat
      /\ \A i \in 1 .. Len(s) : i <= n => s[i] = [packet |-> done + 1, at |-> i, size |-> n]
      /\ done + 1 <= last
  BY FirstPacket
<1>2. ASSUME NEW i \in 1 .. n PROVE h[i] = [packet |-> done + 1, at |-> i, size |-> n]
  <2>1. i \in 1 .. Len(s) /\ i <= n
    BY <1>1
  <2> QED  BY <1>1, <2>1
<1>3. h[1] = [packet |-> done + 1, at |-> 1, size |-> n] /\ h[1] \in Bytes
  BY <1>1, <1>2
<1>4. done + 1 \in Number
  BY <1>3 DEF Bytes
<1>5. /\ Packet(done + 1, n) \in Seq(Bytes) /\ Len(Packet(done + 1, n)) = n
      /\ \A i \in 1 .. n : Packet(done + 1, n)[i] = [packet |-> done + 1, at |-> i, size |-> n]
  BY <1>1, <1>4, PacketBytes
<1>6. h = Packet(done + 1, n)
  <2>1. \A i \in 1 .. n : h[i] = Packet(done + 1, n)[i]
    BY <1>2, <1>5
  <2> QED  BY <1>5, <2>1, SeqEqual
<1>7. h[1].packet = done + 1 /\ h[1].size = n
  BY <1>3
<1> HIDE DEF n
<1>8. Parsed(h) = done + 1
  BY <1>6, <1>7 DEF Parsed
<1> QED  BY <1>1, <1>4, <1>8
-----------------------------------------------------------------------------
(* Concatenation is associative.                                           *)
LEMMA Regrouped ==
  \A a, b, c \in Seq(Bytes) : (a \o b) \o c = a \o (b \o c)
<1> SUFFICES ASSUME NEW a \in Seq(Bytes), NEW b \in Seq(Bytes), NEW c \in Seq(Bytes)
             PROVE  (a \o b) \o c = a \o (b \o c)
  OBVIOUS
<1> QED  BY ConcatAssociative

(* Bytes that move from the front of one sequence to the end of another    *)
(* stay where they are in the two together.                                *)
LEMMA Moved ==
  ASSUME NEW a \in Seq(Bytes), NEW b \in Seq(Bytes), NEW n \in 1 .. Len(b)
  PROVE  (a \o SubSeq(b, 1, n)) \o SubSeq(b, n + 1, Len(b)) = a \o b
<1> DEFINE c == SubSeq(b, 1, n)
           d == SubSeq(b, n + 1, Len(b))
<1>1. /\ c \in Seq(Bytes) /\ Len(c) = n /\ \A i \in 1 .. n : c[i] = b[i]
      /\ d \in Seq(Bytes) /\ Len(d) = Len(b) - n /\ \A i \in 1 .. Len(b) - n : d[i] = b[n + i]
  BY Pieces
<1> HIDE DEF c, d
<1>2. c \o d \in Seq(Bytes) /\ Len(c \o d) = Len(c) + Len(d)
      /\ \A i \in 1 .. Len(c) + Len(d) : (c \o d)[i] = IF i <= Len(c) THEN c[i] ELSE d[i - Len(c)]
  BY <1>1, ConcatProperties
<1>3. Len(b) \in Nat /\ n \in Nat /\ n <= Len(b)
  OBVIOUS
<1>4. Len(c \o d) = Len(b)
  BY <1>1, <1>2, <1>3
<1>5. ASSUME NEW i \in 1 .. Len(b) PROVE (c \o d)[i] = b[i]
  <2>1. (c \o d)[i] = IF i <= n THEN c[i] ELSE d[i - n]
    BY <1>1, <1>2, <1>3
  <2>2. CASE i <= n
    BY <1>1, <2>1, <2>2
  <2>3. CASE ~(i <= n)
    <3>1. i - n \in 1 .. Len(b) - n /\ n + (i - n) = i
      BY <1>3, <2>3
    <3> QED  BY <1>1, <2>1, <2>3, <3>1
  <2> QED  BY <2>2, <2>3
<1>6. c \o d = b
  <2>1. c \o d \in Seq(Bytes) /\ b \in Seq(Bytes) /\ Len(c \o d) = Len(b)
    BY <1>2, <1>4
  <2>2. \A i \in 1 .. Len(c \o d) : (c \o d)[i] = b[i]
    BY <1>4, <1>5
  <2> QED  BY <2>1, <2>2, SeqEqual, Zenon
<1>7. (a \o c) \o d = a \o (c \o d)
  <2>1. a \in Seq(Bytes) /\ c \in Seq(Bytes) /\ d \in Seq(Bytes)
    BY <1>1
  <2> QED  BY <2>1, Regrouped
<1> QED  BY <1>6, <1>7 DEF c, d

(* What is dropped from the first of two sequences is dropped from both.   *)
LEMMA DroppedFirst ==
  ASSUME NEW a \in Seq(Bytes), NEW b \in Seq(Bytes), NEW n \in 1 .. Len(a)
  PROVE  /\ SubSeq(a, n + 1, Len(a)) \o b \in Seq(Bytes)
         /\ Left(a \o b, SubSeq(a, n + 1, Len(a)) \o b, n)
<1> DEFINE d == SubSeq(a, n + 1, Len(a))
<1>1. d \in Seq(Bytes) /\ Len(d) = Len(a) - n /\ \A i \in 1 .. Len(a) - n : d[i] = a[n + i]
  BY Pieces
<1> HIDE DEF d
<1>2. d \o b \in Seq(Bytes) /\ Len(d \o b) = Len(d) + Len(b)
      /\ \A i \in 1 .. Len(d) + Len(b) : (d \o b)[i] = IF i <= Len(d) THEN d[i] ELSE b[i - Len(d)]
  BY <1>1, ConcatProperties
<1>3. Len(a \o b) = Len(a) + Len(b)
      /\ \A i \in 1 .. Len(a) + Len(b) : (a \o b)[i] = IF i <= Len(a) THEN a[i] ELSE b[i - Len(a)]
  BY ConcatProperties
<1>4. Len(a) \in Nat /\ Len(b) \in Nat /\ n \in Nat /\ n <= Len(a)
  OBVIOUS
<1>5. Len(d \o b) = Len(a \o b) - n
  BY <1>1, <1>2, <1>3, <1>4
<1>6. ASSUME NEW i \in 1 .. Len(a \o b) - n PROVE (d \o b)[i] = (a \o b)[n + i]
  <2>1. i \in 1 .. Len(d) + Len(b) /\ n + i \in 1 .. Len(a) + Len(b)
    BY <1>1, <1>3, <1>4
  <2>2. /\ (d \o b)[i] = IF i <= Len(d) THEN d[i] ELSE b[i - Len(d)]
        /\ (a \o b)[n + i] = IF n + i <= Len(a) THEN a[n + i] ELSE b[n + i - Len(a)]
    BY <1>2, <1>3, <2>1
  <2>3. CASE i <= Len(d)
    <3>1. n + i <= Len(a) /\ i \in 1 .. Len(a) - n
      BY <1>1, <1>4, <2>1, <2>3
    <3> QED  BY <1>1, <2>2, <2>3, <3>1
  <2>4. CASE ~(i <= Len(d))
    <3>1. ~(n + i <= Len(a)) /\ i - Len(d) = n + i - Len(a)
      BY <1>1, <1>4, <2>1, <2>4
    <3> QED  BY <2>2, <2>4, <3>1
  <2> QED  BY <2>3, <2>4
<1> QED  BY <1>2, <1>5, <1>6 DEF Left, d

(* A packet behind a sequence.                                             *)
LEMMA PacketAppended ==
  ASSUME NEW s \in Seq(Bytes), NEW k \in Number, NEW size \in Sizes
  PROVE  s \o Packet(k, size) \in Seq(Bytes) /\ Appended(s, s \o Packet(k, size), k, size)
<1> DEFINE p == Packet(k, size)
<1>1. /\ p \in Seq(Bytes) /\ Len(p) = size /\ size \in Nat
      /\ \A i \in 1 .. size : p[i] = [packet |-> k, at |-> i, size |-> size]
  BY PacketBytes, Capacities
<1> HIDE DEF p
<1>2. s \o p \in Seq(Bytes) /\ Len(s \o p) = Len(s) + Len(p)
      /\ \A i \in 1 .. Len(s) + Len(p) : (s \o p)[i] = IF i <= Len(s) THEN s[i] ELSE p[i - Len(s)]
  BY <1>1, ConcatProperties
<1>3. Len(s) \in Nat
  OBVIOUS
<1>4. ASSUME NEW i \in 1 .. Len(s) PROVE (s \o p)[i] = s[i]
  <2>1. i \in 1 .. Len(s) + Len(p) /\ i <= Len(s)
    BY <1>1, <1>3
  <2> QED  BY <1>2, <2>1
<1>5. ASSUME NEW i \in 1 .. size
      PROVE  (s \o p)[Len(s) + i] = [packet |-> k, at |-> i, size |-> size]
  <2>1. /\ Len(s) + i \in 1 .. Len(s) + Len(p) /\ ~(Len(s) + i <= Len(s))
        /\ Len(s) + i - Len(s) = i
    BY <1>1, <1>3
  <2>2. (s \o p)[Len(s) + i] = p[i]
    BY <1>2, <2>1
  <2> QED  BY <1>1, <2>2
<1> QED  BY <1>1, <1>2, <1>4, <1>5 DEF Appended, p

\* a and then b are a stream, a holds its first packet, of this size, and t
\* is what is left without it.
FrontHolds(a, b, done, last, size, t) ==
  /\ a \in Seq(Bytes) /\ b \in Seq(Bytes) /\ done \in Nat /\ last \in Nat
  /\ Stream(a \o b, done, last) /\ HeaderSize <= Len(a)
  /\ size \in HeaderSizes(SubSeq(a, 1, HeaderSize)) /\ size <= Len(a)
  /\ t = SubSeq(a, size + 1, Len(a)) \o b

\* It parses as the next packet, and the stream goes on after it.
FrontTaken(a, b, done, last, size, t) ==
  /\ size \in Sizes /\ done + 1 \in Number /\ done + 1 <= last
  /\ Parsed(SubSeq(a, 1, size)) = done + 1
  /\ t \in Seq(Bytes) /\ Stream(t, done + 1, last)
  /\ Whole(a \o b, done, last) => Whole(t, done + 1, last)

(* The first packet of a stream is taken out of the buffer that holds its  *)
(* front.                                                                  *)
LEMMA TakeFront ==
  \A a, b, done, last, size, t :
    FrontHolds(a, b, done, last, size, t) => FrontTaken(a, b, done, last, size, t)
<1> SUFFICES ASSUME NEW a, NEW b, NEW done, NEW last, NEW size, NEW t,
                    FrontHolds(a, b, done, last, size, t)
             PROVE  FrontTaken(a, b, done, last, size, t)
  OBVIOUS
<1>0. /\ a \in Seq(Bytes) /\ b \in Seq(Bytes) /\ done \in Nat /\ last \in Nat
      /\ Stream(a \o b, done, last) /\ HeaderSize <= Len(a)
      /\ size \in HeaderSizes(SubSeq(a, 1, HeaderSize)) /\ size <= Len(a)
      /\ t = SubSeq(a, size + 1, Len(a)) \o b
  BY DEF FrontHolds
<1> USE <1>0
<1> DEFINE s == a \o b
<1>1. s \in Seq(Bytes) /\ Len(s) = Len(a) + Len(b)
      /\ \A i \in 1 .. Len(a) + Len(b) : s[i] = IF i <= Len(a) THEN a[i] ELSE b[i - Len(a)]
  BY ConcatProperties
<1>2. Stream(s, done, last)
  OBVIOUS
<1> HIDE DEF s
<1>3. Len(a) \in Nat /\ Len(b) \in Nat /\ HeaderSize \in Nat \ {0} /\ Len(a) <= Len(s)
  BY <1>1, ConnectionAssumption
<1>4. ASSUME NEW i \in 1 .. Len(a) PROVE s[i] = a[i]
  <2>1. i \in 1 .. Len(a) + Len(b) /\ i <= Len(a)
    BY <1>3
  <2> QED  BY <1>1, <2>1
<1>5. ASSUME NEW n \in 1 .. Len(a)
      PROVE  /\ SubSeq(a, 1, n) \in Seq(Bytes) /\ Len(SubSeq(a, 1, n)) = n
             /\ \A i \in 1 .. n : SubSeq(a, 1, n)[i] = s[i]
  <2>1. /\ SubSeq(a, 1, n) \in Seq(Bytes) /\ Len(SubSeq(a, 1, n)) = n
        /\ \A i \in 1 .. n : SubSeq(a, 1, n)[i] = a[i]
    BY Pieces
  <2>2. \A i \in 1 .. n : i \in 1 .. Len(a)
    BY <1>3
  <2> QED  BY <1>4, <2>1, <2>2
<1>6. Len(s) > 0 /\ HeaderSizes(SubSeq(a, 1, HeaderSize)) = {s[1].size}
  <2>1. HeaderSize \in 1 .. Len(a) /\ HeaderSize <= Len(s)
    BY <1>1, <1>3
  <2>2. /\ SubSeq(a, 1, HeaderSize) \in Seq(Bytes) /\ Len(SubSeq(a, 1, HeaderSize)) = HeaderSize
        /\ \A i \in 1 .. HeaderSize : SubSeq(a, 1, HeaderSize)[i] = s[i]
    BY <1>5, <2>1
  <2> QED  BY <1>1, <1>2, <2>1, <2>2, ReadHeader
<1>7. size = s[1].size
  BY <1>6
<1>8. size \in Sizes /\ size \in Nat /\ size >= 2
  BY <1>1, <1>2, <1>6, <1>7, FirstPacket
<1>9. size \in 1 .. Len(a) /\ size <= Len(s)
  BY <1>1, <1>3, <1>8
<1>10. Parsed(SubSeq(a, 1, size)) = done + 1 /\ done + 1 \in Number /\ done + 1 <= last
  <2>1. /\ SubSeq(a, 1, size) \in Seq(Bytes) /\ Len(SubSeq(a, 1, size)) = size
        /\ \A i \in 1 .. size : SubSeq(a, 1, size)[i] = s[i]
    BY <1>5, <1>9
  <2> QED  BY <1>1, <1>2, <1>6, <1>7, <1>9, <2>1, ReadPacket
<1>11. t \in Seq(Bytes) /\ Left(s, t, size)
  BY <1>9, DroppedFirst DEF s
<1>12. Stream(t, done + 1, last) /\ (Whole(s, done, last) => Whole(t, done + 1, last))
  BY <1>1, <1>2, <1>6, <1>7, <1>9, <1>11, TakePacket
<1> QED  BY <1>8, <1>10, <1>11, <1>12 DEF s, FrontTaken

(* A packet that follows those in order.                                   *)
LEMMA NextInOrder ==
  ASSUME NEW q \in Seq(Number), InOrder(q), Len(q) + 1 \in Number
  PROVE  /\ Append(q, Len(q) + 1) \in Seq(Number) /\ InOrder(Append(q, Len(q) + 1))
         /\ Len(Append(q, Len(q) + 1)) = Len(q) + 1
<1> DEFINE r == Append(q, Len(q) + 1)
<1>1. /\ r \in Seq(Number) /\ Len(r) = Len(q) + 1 /\ r[Len(q) + 1] = Len(q) + 1
      /\ \A i \in 1 .. Len(q) : r[i] = q[i]
  BY AppendProperties
<1> HIDE DEF r
<1>2. DOMAIN r = 1 .. Len(q) + 1 /\ DOMAIN q = 1 .. Len(q) /\ Len(q) \in Nat
  BY <1>1
<1>3. ASSUME NEW i \in DOMAIN r PROVE r[i] = i
  <2>1. i \in 1 .. Len(q) \/ i = Len(q) + 1
    BY <1>2
  <2> QED  BY <1>1, <1>2, <2>1 DEF InOrder
<1> QED  BY <1>1, <1>3 DEF InOrder, r
-----------------------------------------------------------------------------
(* To the server.                                                          *)

\* What the client has sent and OnRead has not taken out.
UpStream == RecvB!Fifo \o up

UpInv ==
  /\ handled \in Seq(Number) /\ InOrder(handled) /\ Len(handled) <= sent
  /\ Stream(UpStream, Len(handled), sent) /\ Whole(UpStream, Len(handled), sent)

(* What the receive buffer holds changes with its variables only.          *)
LEMMA SameFifo ==
  /\ UNCHANGED recvVars => RecvB!Fifo' = RecvB!Fifo
  /\ UNCHANGED sendVars => SendB!Fifo' = SendB!Fifo
  /\ UNCHANGED inboxVars => InB!Fifo' = InB!Fifo
<1>1. UNCHANGED recvVars => RecvB!Fifo' = RecvB!Fifo
  BY DEF recvVars, RecvB!Fifo, RecvB!Front, RecvB!GetStoredSize
<1>2. UNCHANGED sendVars => SendB!Fifo' = SendB!Fifo
  BY DEF sendVars, SendB!Fifo, SendB!Front, SendB!GetStoredSize
<1>3. UNCHANGED inboxVars => InB!Fifo' = InB!Fifo
  BY DEF inboxVars, InB!Fifo, InB!Front, InB!GetStoredSize
<1> QED  BY <1>1, <1>2, <1>3

(* The buffers hold bytes.                                                 *)
LEMMA FifoBytes ==
  ASSUME Base
  PROVE  /\ RecvB!Fifo \in Seq(Bytes) /\ Len(RecvB!Fifo) = RecvBuffer!GetStoredSize
         /\ SendB!Fifo \in Seq(Bytes) /\ Len(SendB!Fifo) = SendBuffer!GetStoredSize
         /\ InB!Fifo \in Seq(Bytes) /\ Len(InB!Fifo) = Inbox!GetStoredSize
         /\ up \in Seq(Bytes) /\ down \in Seq(Bytes) /\ sent \in Nat
<1>1. RecvB!Fifo \in Seq(Bytes) /\ Len(RecvB!Fifo) = RecvBuffer!GetStoredSize
  BY RecvB!FifoFacts, Capacities, SameRecv DEF Base, RecvInv, RecvB!FifoOK
<1>2. SendB!Fifo \in Seq(Bytes) /\ Len(SendB!Fifo) = SendBuffer!GetStoredSize
  BY SendB!FifoFacts, Capacities, SameSend DEF Base, SendB!FifoOK
<1>3. InB!Fifo \in Seq(Bytes) /\ Len(InB!Fifo) = Inbox!GetStoredSize
  BY InB!FifoFacts, Capacities, SameInbox DEF Base, InboxInv, InB!FifoOK
<1>4. up \in Seq(Bytes) /\ down \in Seq(Bytes) /\ sent \in Nat
  BY ConnectionAssumption DEF Base, Types
<1> QED  BY <1>1, <1>2, <1>3, <1>4

(* The client sends a packet whole.                                        *)
LEMMA SendAppends ==
  ASSUME ~PartialSend, Base, NEW size \in Sizes, Send(size)
  PROVE  /\ sent' = sent + 1 /\ sent + 1 \in Number /\ up' = up \o Packet(sent + 1, size)
         /\ RecvB!Fifo' = RecvB!Fifo /\ handled' = handled
<1>1. sent + 1 \in Number /\ sent' = sent + 1
  BY ConnectionAssumption DEF Send, Base, Types, Number
<1> DEFINE p == Packet(sent + 1, size)
<1>2. p \in Seq(Bytes) /\ Len(p) = size /\ size \in 1 .. Len(p) /\ size \in Nat
  BY <1>1, PacketBytes, Capacities
<1>3. up' = up \o SubSeq(p, 1, size)
  BY DEF Send, SendLoop
<1> HIDE DEF p
<1>4. SubSeq(p, 1, size) = p
  <2>1. /\ SubSeq(p, 1, size) \in Seq(Bytes) /\ Len(SubSeq(p, 1, size)) = size
        /\ \A i \in 1 .. size : SubSeq(p, 1, size)[i] = p[i]
    BY <1>2, Pieces
  <2> QED  BY <1>2, <2>1, SeqEqual
<1>5. RecvB!Fifo' = RecvB!Fifo /\ handled' = handled
  BY SameFifo DEF Send
<1> QED  BY <1>1, <1>3, <1>4, <1>5 DEF p

(* OnRead takes the next packet out of the stream and answers it.          *)
LEMMA OnReadTakes ==
  ASSUME Base, UpInv, OnRead
  PROVE  /\ handled' = Append(handled, Len(handled) + 1) /\ Len(handled) + 1 \in Number
         /\ Len(handled) + 1 <= sent /\ UpInv'
         /\ \E size \in Sizes : SendRequest(Packet(Len(handled) + 1, size))
<1> DEFINE a == RecvB!Fifo
<1>1. PICK size \in HeaderSizes(RecvBuffer!Front(HeaderSize)) :
        /\ size <= RecvBuffer!GetStoredSize /\ RecvBuffer!Drop(size)
        /\ handled' = Append(handled, Parsed(RecvBuffer!Front(size)))
        /\ SendRequest(Packet(Parsed(RecvBuffer!Front(size)), size))
  BY DEF OnRead
<1>2. /\ a \in Seq(Bytes) /\ Len(a) = RecvBuffer!GetStoredSize /\ up \in Seq(Bytes)
      /\ sent \in Nat /\ Len(a) \in 0 .. BUFSIZE
  BY FifoBytes, RecvB!FifoFacts, SameRecv, Capacities DEF RecvB!FifoOK, Base, RecvInv
<1>3. size \in Sizes /\ size \in 2 .. BUFSIZE /\ RecvB!Inv /\ RecvInv
  BY <1>1, RecvPacket DEF OnRead, Base, RecvInv
<1>4. HeaderSize \in 1 .. BUFSIZE /\ HeaderSize <= Len(a) /\ size <= Len(a) /\ size \in 1 .. BUFSIZE
  BY <1>1, <1>2, <1>3, ConnectionAssumption DEF OnRead
<1>5. RecvBuffer!Front(HeaderSize) = SubSeq(a, 1, HeaderSize)
  BY <1>2, <1>3, <1>4, RecvB!FrontIsPrefix, SameRecv, Capacities
<1>6. RecvBuffer!Front(size) = SubSeq(a, 1, size)
  BY <1>2, <1>3, <1>4, RecvB!FrontIsPrefix, SameRecv, Capacities
<1>7. RecvB!Fifo' = SubSeq(a, size + 1, Len(a))
  <2>1. pc = "read" /\ pc' = pc /\ recv' = recv
    BY DEF OnRead
  <2>2. RecvB!Drop(size) /\ RecvInv'
    BY <1>1, <1>3, <2>1, OnReadDrops
  <2> QED  BY <1>3, <1>4, <2>2, RecvB!DropRefines, Capacities DEF RecvInv
<1>8. UpStream' = SubSeq(a, size + 1, Len(a)) \o up /\ UNCHANGED sent
  BY <1>7 DEF OnRead, UpStream, clientVars
<1>9. /\ Len(handled) \in Nat /\ Stream(a \o up, Len(handled), sent)
      /\ Whole(a \o up, Len(handled), sent)
      /\ handled \in Seq(Number) /\ InOrder(handled)
  BY DEF UpInv, UpStream
<1> HIDE DEF a
<1>10. /\ Len(handled) + 1 \in Number /\ Len(handled) + 1 <= sent
       /\ Parsed(SubSeq(a, 1, size)) = Len(handled) + 1
       /\ Stream(UpStream', Len(handled) + 1, sent) /\ Whole(UpStream', Len(handled) + 1, sent)
  <2>1. size \in HeaderSizes(SubSeq(a, 1, HeaderSize))
    BY <1>5
  <2> DEFINE done == Len(handled)
             t == UpStream'
             u == up
             last == sent
  <2>2. FrontHolds(a, u, done, last, size, t)
    BY <1>2, <1>4, <1>8, <1>9, <2>1 DEF FrontHolds
  <2> HIDE DEF done, t, u, last
  <2>3. FrontTaken(a, u, done, last, size, t)
    BY <2>2, TakeFront
  <2> QED  BY <1>9, <2>3 DEF done, t, u, last, FrontTaken
<1>11. /\ handled' = Append(handled, Len(handled) + 1)
       /\ SendRequest(Packet(Len(handled) + 1, size))
  BY <1>1, <1>6, <1>10
<1>12. handled' \in Seq(Number) /\ InOrder(handled)' /\ Len(handled)' = Len(handled) + 1
  BY <1>9, <1>10, <1>11, NextInOrder
<1>13. UpInv'
  BY <1>8, <1>10, <1>12 DEF UpInv
<1> QED  BY <1>3, <1>10, <1>11, <1>13

(* Every step preserves the invariant of the stream to the server.         *)
LEMMA NextUp == ReceiveFits /\ ~PartialSend /\ Base /\ UpInv /\ [Next]_vars => UpInv'
<1> SUFFICES ASSUME ReceiveFits, ~PartialSend, Base, UpInv, [Next]_vars PROVE UpInv'
  OBVIOUS
<1>0. /\ RecvB!Fifo \in Seq(Bytes) /\ up \in Seq(Bytes) /\ sent \in Nat
      /\ UpStream \in Seq(Bytes) /\ Len(handled) \in Nat
  <2>1. RecvB!Fifo \in Seq(Bytes) /\ up \in Seq(Bytes) /\ sent \in Nat /\ Len(handled) \in Nat
    BY FifoBytes DEF UpInv
  <2> QED  BY <2>1, ConcatProperties DEF UpStream
<1>1. ASSUME NEW size \in Sizes, Send(size) PROVE UpInv'
  <2>1. /\ sent' = sent + 1 /\ sent + 1 \in Number /\ up' = up \o Packet(sent + 1, size)
        /\ RecvB!Fifo' = RecvB!Fifo /\ handled' = handled
    BY <1>1, SendAppends
  <2>2. Packet(sent + 1, size) \in Seq(Bytes)
    BY <2>1, PacketBytes
  <2>3. UpStream' = UpStream \o Packet(sent + 1, size)
    BY <1>0, <2>1, <2>2, Regrouped DEF UpStream
  <2>4. UpStream' \in Seq(Bytes) /\ Appended(UpStream, UpStream', sent + 1, size)
    BY <1>0, <2>1, <2>3, PacketAppended
  <2>5. Stream(UpStream', Len(handled), sent + 1) /\ Whole(UpStream', Len(handled), sent + 1)
    BY <1>0, <2>4, AppendPacket DEF UpInv
  <2> QED  BY <1>0, <2>1, <2>5 DEF UpInv
<1>2. ASSUME NEW n \in 1 .. BUFSIZE, RecvCompletion(n) PROVE UpInv'
  <2>1. /\ n \in 1 .. Len(up) /\ SubSeq(up, 1, n) \in RecvB!Data
        /\ RecvB!Commit(SubSeq(up, 1, n)) /\ RecvInv'
    BY <1>2, CompletionCommits DEF Base
  <2>2. RecvB!Fifo' = RecvB!Fifo \o SubSeq(up, 1, n)
    BY <2>1, RecvB!CommitAppends, Capacities DEF Base, RecvInv
  <2>3. up' = SubSeq(up, n + 1, Len(up)) /\ UNCHANGED <<handled, sent>>
    BY <1>2 DEF RecvCompletion, clientVars
  <2>4. UpStream' = UpStream
    BY <1>0, <2>1, <2>2, <2>3, Moved DEF UpStream
  <2> QED  BY <2>3, <2>4 DEF UpInv
<1>3. CASE OnRead
  BY <1>3, OnReadTakes
<1>4. CASE PostRecv
  <2>1. RecvB!Fifo' = RecvB!Fifo
    <3>1. CASE mConnected
      BY <1>4, <3>1, PostRecvHasRoom, RecvB!PostRecvKeeps, Capacities DEF Base, RecvInv
    <3>2. CASE ~mConnected
      BY <1>4, <3>2, SameFifo DEF PostRecv, recvVars
    <3> QED  BY <3>1, <3>2
  <2> QED  BY <1>4, <2>1 DEF PostRecv, UpInv, UpStream, clientVars
<1>5. CASE UNCHANGED <<recvVars, up, handled, sent>>
  BY <1>5, SameFifo DEF UpInv, UpStream
<1>6. \/ \E size \in Sizes : Send(size)
      \/ \E n \in 1 .. BUFSIZE : RecvCompletion(n)
      \/ OnRead \/ PostRecv \/ UNCHANGED <<recvVars, up, handled, sent>>
  BY DEF Next, Client, Receiving, Sending, vars, clientVars, NetworkRecv, ProcessPacket,
         ProcessPacketDone, SendFlush, Transmit, SendCompletion, Disconnect
<1> QED  BY <1>1, <1>2, <1>3, <1>4, <1>5, <1>6

(* Nothing has been sent at first.                                         *)
LEMMA InitUp == Init => UpInv
<1> SUFFICES ASSUME Init PROVE UpInv  OBVIOUS
<1>1. RecvB!Fifo = <<>>
  <2>1. RecvB!Fifo \in Seq(Bytes) /\ Len(RecvB!Fifo) = 0
    BY InitBase, FifoBytes DEF Init, RecvBuffer!GetStoredSize
  <2> QED  BY <2>1, EmptySeq
<1>2. UpStream = <<>> /\ sent = 0 /\ handled = <<>>
  <2>1. UpStream = <<>> \o <<>> /\ sent = 0 /\ handled = <<>>
    BY <1>1 DEF UpStream, Init
  <2> QED  BY <2>1
<1>3. Stream(<<>>, 0, 0) /\ Whole(<<>>, 0, 0) /\ InOrder(<<>>)
  BY DEF Stream, Begins, Within, Runs, Follows, Whole, InOrder
<1> QED  BY <1>2, <1>3 DEF UpInv

(* In every state.                                                         *)
LEMMA UpHolds == ReceiveFits /\ ~PartialSend => (Spec => []UpInv)
<1> SUFFICES ASSUME ReceiveFits, ~PartialSend PROVE Spec => []UpInv  OBVIOUS
<1>1. Base /\ UpInv /\ [Next]_vars => UpInv'
  BY NextUp
<1> QED  BY <1>1, InitUp, BaseHolds, PTL DEF Spec

(* The handlers get the packets the client sent, whole, once each and in   *)
(* order, for every size of packets and buffer and every way the stream is *)
(* cut (RecvCompletion, OnRead, ParsePacket, Commit), if packets are sent  *)
(* whole and are no longer than half the buffer.                           *)
THEOREM PacketsAreHandledInOrder ==
  ReceiveFits /\ ~PartialSend => (Spec => []HandledInOrder)
<1> SUFFICES ASSUME ReceiveFits, ~PartialSend PROVE Spec => []HandledInOrder  OBVIOUS
<1>1. UpInv => HandledInOrder
  BY DEF UpInv, HandledInOrder
<1> QED  BY <1>1, UpHolds, PTL

-----------------------------------------------------------------------------
(* To the client.                                                          *)

\* What is in the send buffer and not on its way.
Unsent ==
  IF ~mConnected THEN <<>>
  ELSE IF sends # <<>> /\ sends[1].gone
       THEN SubSeq(SendB!Fifo, sends[1].len + 1, Len(SendB!Fifo))
       ELSE SendB!Fifo

DownStream == InB!Fifo \o (down \o Unsent)

DownInv ==
  /\ received \in Seq(Number) /\ InOrder(received) /\ Len(received) <= Len(handled)
  /\ Stream(DownStream, Len(received), Len(handled))
  /\ mConnected => Whole(DownStream, Len(received), Len(handled))

(* What is dropped from the front of two sequences, when the first is long *)
(* enough.                                                                 *)
LEMMA DropBeforeJoin ==
  ASSUME NEW a \in Seq(Bytes), NEW b \in Seq(Bytes), NEW n \in 1 .. Len(a)
  PROVE  SubSeq(a \o b, n + 1, Len(a \o b)) = SubSeq(a, n + 1, Len(a)) \o b
<1> DEFINE s == a \o b
           t == SubSeq(a, n + 1, Len(a)) \o b
<1>1. s \in Seq(Bytes) /\ Len(s) = Len(a) + Len(b)
  BY ConcatProperties
<1>2. t \in Seq(Bytes) /\ Left(s, t, n)
  BY DroppedFirst
<1> HIDE DEF s, t
<1>3. n \in 1 .. Len(s)
  BY <1>1
<1>4. /\ SubSeq(s, n + 1, Len(s)) \in Seq(Bytes) /\ Len(SubSeq(s, n + 1, Len(s))) = Len(s) - n
      /\ \A i \in 1 .. Len(s) - n : SubSeq(s, n + 1, Len(s))[i] = s[n + i]
  BY <1>1, <1>3, Pieces
<1>5. Len(t) = Len(s) - n /\ \A i \in 1 .. Len(s) - n : t[i] = s[n + i]
  BY <1>2 DEF Left
<1>6. SubSeq(s, n + 1, Len(s)) = t
  <2>1. \A i \in 1 .. Len(s) - n : SubSeq(s, n + 1, Len(s))[i] = t[i]
    BY <1>4, <1>5
  <2> QED  BY <1>2, <1>4, <1>5, <2>1, SeqEqual
<1> QED  BY <1>6 DEF s, t

(* The last part of a sequence is cut off.                                 *)
LEMMA CutOff ==
  \A a, b, c \in Seq(Bytes) :
    a \o (b \o <<>>) \in Seq(Bytes) /\ Cut(a \o (b \o c), a \o (b \o <<>>))
<1> SUFFICES ASSUME NEW a \in Seq(Bytes), NEW b \in Seq(Bytes), NEW c \in Seq(Bytes)
             PROVE  /\ a \o (b \o <<>>) \in Seq(Bytes)
                    /\ Cut(a \o (b \o c), a \o (b \o <<>>))
  OBVIOUS
<1> DEFINE d == a \o b
<1>1. d \in Seq(Bytes)
  BY ConcatProperties
<1>2. a \o (b \o <<>>) = d
  BY ConcatEmptySeq
<1>3. a \o (b \o c) = d \o c
  BY Regrouped
<1> HIDE DEF d
<1>4. d \o c \in Seq(Bytes) /\ Len(d \o c) = Len(d) + Len(c)
      /\ \A i \in 1 .. Len(d) + Len(c) : (d \o c)[i] = IF i <= Len(d) THEN d[i] ELSE c[i - Len(d)]
  BY <1>1, ConcatProperties
<1>5. Len(d) \in Nat /\ Len(c) \in Nat
  BY <1>1
<1>6. ASSUME NEW i \in 1 .. Len(d) PROVE d[i] = (d \o c)[i]
  <2>1. i \in 1 .. Len(d) + Len(c) /\ i <= Len(d)
    BY <1>5
  <2> QED  BY <1>4, <2>1
<1>7. Len(d) <= Len(d \o c)
  BY <1>4, <1>5
<1>8. Cut(d \o c, d)
  BY <1>6, <1>7 DEF Cut
<1> QED  BY <1>1, <1>2, <1>3, <1>8

(* The outstanding send is of the first bytes of the send buffer.          *)
LEMMA SendLies ==
  ASSUME Base, OneSend, mConnected, sends # <<>>
  PROVE  /\ Len(sends) = 1 /\ sends[1] \in SendRecord /\ sends \in Seq(SendRecord)
         /\ sends[1].at = sAPointer /\ sends[1].len <= sASize
         /\ sends[1].len \in 1 .. Len(SendB!Fifo) /\ sends[1].len \in 1 .. BUFSIZE
<1>1. sends \in Seq(SendRecord) /\ Len(sends) = 1 /\ sends[1] \in SendRecord
      /\ sends[1].at = sAPointer /\ sends[1].len <= sASize
  BY DEF OneSend, Base, Types
<1>2. sASize \in Nat /\ sBSize \in Nat
  BY Capacities DEF Base, SendB!Inv, SendB!TypeOK
<1>3. Len(SendB!Fifo) = sASize + sBSize
  BY FifoBytes DEF SendBuffer!GetStoredSize
<1>4. sends[1].len \in 1 .. BUFSIZE
  BY <1>1 DEF SendRecord
<1>5. sends[1].len \in 1 .. Len(SendB!Fifo)
  BY <1>1, <1>2, <1>3, <1>4, Capacities
<1> QED  BY <1>1, <1>4, <1>5

(* What is not on its way are bytes.                                       *)
LEMMA DownBytes ==
  ASSUME Base, OneSend
  PROVE  /\ Unsent \in Seq(Bytes) /\ down \in Seq(Bytes) /\ InB!Fifo \in Seq(Bytes)
         /\ down \o Unsent \in Seq(Bytes) /\ DownStream \in Seq(Bytes)
<1>1. down \in Seq(Bytes) /\ InB!Fifo \in Seq(Bytes) /\ SendB!Fifo \in Seq(Bytes)
  BY FifoBytes
<1>2. Unsent \in Seq(Bytes)
  <2>1. CASE ~mConnected
    BY <2>1, EmptySeq DEF Unsent
  <2>2. CASE mConnected /\ sends # <<>> /\ sends[1].gone
    <3>1. sends[1].len \in 1 .. Len(SendB!Fifo)
      BY <2>2, SendLies
    <3> QED  BY <1>1, <2>2, <3>1, Pieces DEF Unsent
  <2>3. CASE mConnected /\ ~(sends # <<>> /\ sends[1].gone)
    BY <1>1, <2>3 DEF Unsent
  <2> QED  BY <2>1, <2>2, <2>3
<1>3. down \o Unsent \in Seq(Bytes)
  BY <1>1, <1>2, ConcatProperties
<1>4. DownStream \in Seq(Bytes)
  BY <1>1, <1>3, ConcatProperties DEF DownStream
<1> QED  BY <1>1, <1>2, <1>3, <1>4

(* The invariant holds with the same stream.                               *)
LEMMA DownFrame ==
  ASSUME DownInv, DownStream' = DownStream, UNCHANGED <<received, handled, mConnected>>
  PROVE  DownInv'
BY DEF DownInv

(* A send of the first bytes of the buffer reads them.                     *)
LEMMA TransmitReads ==
  ASSUME Base, OneSend, mConnected, sends # <<>>
  PROVE  [i \in 1 .. sends[1].len |-> sBuffer[sends[1].at + i - 1]]
           = SubSeq(SendB!Fifo, 1, sends[1].len)
<1> DEFINE n == sends[1].len
           a == SendB!Fifo
           bytes == [i \in 1 .. n |-> sBuffer[sends[1].at + i - 1]]
<1>1. /\ sends[1].at = sAPointer /\ n <= sASize /\ n \in 1 .. Len(a) /\ n \in Nat
      /\ a \in Seq(Bytes) /\ Len(a) \in Nat
  BY SendLies, FifoBytes, Capacities
<1>2. Len(a) = SendB!GetStoredSize /\ sASize \in Nat
      /\ \A i \in 1 .. Len(a) : a[i] = SendB!ByteAt(i) /\ a[i] \in Bytes
  BY SendB!FifoFacts, Capacities DEF Base, SendB!FifoOK, SendB!Inv, SendB!TypeOK
<1>3. /\ SubSeq(a, 1, n) \in Seq(Bytes) /\ Len(SubSeq(a, 1, n)) = n
      /\ \A i \in 1 .. n : SubSeq(a, 1, n)[i] = a[i]
  BY <1>1, Pieces
<1> HIDE DEF a
<1>4. ASSUME NEW i \in 1 .. n PROVE bytes[i] = a[i] /\ a[i] \in Bytes
  <2>1. i \in 1 .. Len(a) /\ i <= sASize
    BY <1>1, <1>2
  <2>2. a[i] = sBuffer[sAPointer + i - 1] /\ a[i] \in Bytes
    BY <1>2, <2>1 DEF SendB!ByteAt
  <2> QED  BY <1>1, <2>2
<1> HIDE DEF n
<1>5. bytes \in [1 .. n -> Bytes]
  BY <1>4
<1>6. bytes \in Seq(Bytes) /\ Len(bytes) = n
  BY <1>1, <1>5
<1>7. \A i \in 1 .. n : bytes[i] = SubSeq(a, 1, n)[i]
  BY <1>3, <1>4
<1> HIDE DEF bytes
<1>8. bytes = SubSeq(a, 1, n)
  BY <1>3, <1>6, <1>7, SeqEqual
<1> QED  BY <1>8 DEF bytes, a, n

(* The bytes of a send go from the buffer to the stream.                   *)
LEMMA TransmitMoves ==
  ASSUME Base, OneSend, NEW k \in DOMAIN sends, Transmit(k)
  PROVE  DownStream' = DownStream
<1>1. mConnected /\ mConnected' /\ sends # <<>>
  BY DEF Transmit
<1>2. /\ Len(sends) = 1 /\ sends \in Seq(SendRecord) /\ sends[1] \in SendRecord
      /\ sends[1].len \in 1 .. Len(SendB!Fifo)
  BY <1>1, SendLies
<1>3. k = 1 /\ ~sends[1].gone
  BY <1>2 DEF Transmit
<1>4. UNCHANGED <<inboxVars, sendVars>>
  BY DEF Transmit, clientVars
<1> DEFINE n == sends[1].len
           a == SendB!Fifo
<1>5. down' = down \o SubSeq(a, 1, n)
  BY <1>1, <1>3, TransmitReads DEF Transmit
<1>6. sends' # <<>> /\ sends'[1].gone /\ sends'[1].len = n
  <2>1. sends \in [1 .. 1 -> SendRecord]
    BY <1>2, LenProperties
  <2>2. sends' = [sends EXCEPT ![1] = [sends[1] EXCEPT !.gone = TRUE]]
    BY <1>3 DEF Transmit
  <2>3. sends'[1] = [sends[1] EXCEPT !.gone = TRUE] /\ DOMAIN sends' = 1 .. 1
    BY <2>1, <2>2
  <2>4. sends' # <<>>
    BY <2>3
  <2> QED  BY <1>2, <2>3, <2>4 DEF SendRecord
<1>7. Unsent = a
  BY <1>1, <1>3 DEF Unsent
<1>8. SendB!Fifo' = a /\ InB!Fifo' = InB!Fifo
  BY <1>4, SameFifo
<1>9. Unsent' = SubSeq(a, n + 1, Len(a))
  BY <1>1, <1>6, <1>8 DEF Unsent
<1>10. down \in Seq(Bytes) /\ a \in Seq(Bytes)
  BY FifoBytes
<1>11. down' \o Unsent' = down \o a
  BY <1>2, <1>5, <1>9, <1>10, Moved
<1> QED  BY <1>7, <1>8, <1>11 DEF DownStream

(* A completion removes from the buffer what is on its way.                *)
LEMMA CompletionKeeps ==
  ASSUME Base, Base', OneSend, NEW k \in DOMAIN sends, SendCompletion(k)
  PROVE  DownStream' = DownStream
<1>1. mConnected /\ mConnected' /\ sends # <<>> /\ sends[1].gone
  BY DEF SendCompletion
<1>2. /\ Len(sends) = 1 /\ sends \in Seq(SendRecord)
      /\ sends[1].len \in 1 .. Len(SendB!Fifo) /\ sends[1].len \in 1 .. BUFSIZE
  BY <1>1, SendLies
<1>3. k = 1
  BY <1>2
<1>4. SendB!Drop(sends[1].len)
  BY <1>3, SameSend DEF SendCompletion
<1>5. SendB!Fifo' = SubSeq(SendB!Fifo, sends[1].len + 1, Len(SendB!Fifo))
  BY <1>2, <1>4, SendB!DropRefines, Capacities DEF Base
<1>6. sends' = <<>>
  <2>1. sends' \in Seq(SendRecord) /\ Len(sends') = Len(sends) - 1
    BY <1>1, <1>2, HeadTailProperties DEF SendCompletion
  <2> QED  BY <1>2, <2>1, EmptySeq
<1>7. Unsent' = Unsent
  BY <1>1, <1>5, <1>6 DEF Unsent
<1>8. down' = down /\ UNCHANGED inboxVars
  BY DEF SendCompletion, clientVars
<1> QED  BY <1>7, <1>8, SameFifo DEF DownStream

(* The network thread takes bytes from the stream into its buffer, which   *)
(* has room for them.                                                      *)
LEMMA NetworkRecvMoves ==
  ASSUME Base, Base', OneSend, InboxTakes, NEW n \in 1 .. RecvChunk, NetworkRecv(n)
  PROVE  DownStream' = DownStream
<1> DEFINE a == InB!Fifo
           c == SubSeq(down, 1, n)
           d == SubSeq(down, n + 1, Len(down))
<1>1. /\ n \in 1 .. Len(down) /\ c \in InB!Data /\ InB!Write(c)
  BY NetworkRecvWrites DEF Base
<1>2. /\ a \in Seq(Bytes) /\ down \in Seq(Bytes) /\ Unsent \in Seq(Bytes)
  BY DownBytes
<1>3. c \in Seq(Bytes) /\ Len(c) = n /\ d \in Seq(Bytes)
  BY <1>1, <1>2, Pieces
<1>4. Len(c) <= InB!Room
  <2>1. InB!Room >= RecvChunk
    BY SameInbox DEF InboxTakes, NetworkRecv
  <2>2. InB!Room \in 0 .. BUF_SIZE
    BY InB!RoomFacts, Capacities DEF Base, InboxInv
  <2> QED  BY <1>3, <2>1, <2>2, ConnectionAssumption
<1>5. InB!Room \in 0 .. BUF_SIZE
  BY InB!RoomFacts, Capacities DEF Base, InboxInv
<1>6. InB!Fifo' = a \o c
  <2>1. \/ Len(c) <= InB!Room /\ InB!Fifo' = a \o c
        \/ Len(c) > InB!Room /\ InB!Fifo' = a
    BY <1>1, InB!WriteAppends, Capacities DEF Base, InboxInv
  <2>2. ~(Len(c) > InB!Room)
    BY <1>3, <1>4, <1>5
  <2> QED  BY <2>1, <2>2
<1>7. down' = d /\ Unsent' = Unsent
  <2>1. down' = d /\ UNCHANGED <<sendVars, sends, mConnected>>
    BY DEF NetworkRecv
  <2> QED  BY <2>1, SameFifo DEF Unsent
<1>8. (a \o c) \o d = a \o down
  BY <1>1, <1>2, Moved
<1> DEFINE u == Unsent
           e == a \o c
<1>9. e \in Seq(Bytes) /\ u \in Seq(Bytes)
  BY <1>2, <1>3, ConcatProperties
<1>10. DownStream' = e \o (d \o u) /\ DownStream = a \o (down \o u)
  BY <1>6, <1>7 DEF DownStream
<1> HIDE DEF a, c, d, e, u
<1>11. e \o (d \o u) = (e \o d) \o u
  <2>1. e \in Seq(Bytes) /\ d \in Seq(Bytes) /\ u \in Seq(Bytes)
    BY <1>3, <1>9
  <2> QED  BY <2>1, Regrouped, Zenon
<1>12. a \o (down \o u) = (a \o down) \o u
  <2>1. a \in Seq(Bytes) /\ down \in Seq(Bytes) /\ u \in Seq(Bytes)
    BY <1>2, <1>9
  <2> QED  BY <2>1, Regrouped, Zenon
<1>13. e \o d = a \o down
  BY <1>8 DEF e
<1> QED  BY <1>10, <1>11, <1>12, <1>13

(* The client takes the next answer out of the stream.                     *)
LEMMA ProcessPacketTakes ==
  ASSUME Base, OneSend, DownInv, ProcessPacket, Len(handled) \in Nat
  PROVE  DownInv'
<1> DEFINE a == InB!Fifo
           b == down \o Unsent
           done == Len(received)
           last == Len(handled)
           t == DownStream'
<1>1. PICK size \in HeaderSizes(Inbox!Front(HeaderSize)) :
        /\ size <= Inbox!GetStoredSize /\ Inbox!Drop(size)
        /\ received' = Append(received, Parsed(Inbox!Front(size)))
  BY DEF ProcessPacket
<1>2. /\ a \in Seq(Bytes) /\ b \in Seq(Bytes) /\ Len(a) = Inbox!GetStoredSize
      /\ Inbox!GetStoredSize = InB!GetStoredSize
  BY DownBytes, FifoBytes, SameInbox
<1>3. /\ size \in Sizes /\ size \in 2 .. BUFSIZE /\ Inbox!GetStoredSize \in 0 .. BUF_SIZE
      /\ InB!Inv /\ InboxInv
  BY InboxPacket DEF ProcessPacket, Base, InboxInv
<1>4. size \in 1 .. BUF_SIZE /\ InB!Drop(size) /\ InboxInv'
  BY <1>1, <1>3, ProcessPacketDrops
<1>5. HeaderSize \in 1 .. BUF_SIZE /\ HeaderSize <= Len(a) /\ size <= Len(a)
  BY <1>1, <1>2, <1>3, ConnectionAssumption DEF ProcessPacket
<1>6. Inbox!Front(HeaderSize) = SubSeq(a, 1, HeaderSize)
  BY <1>2, <1>3, <1>5, InB!FrontIsPrefix, SameInbox, Capacities
<1>7. Inbox!Front(size) = SubSeq(a, 1, size)
  BY <1>2, <1>3, <1>4, <1>5, InB!FrontIsPrefix, SameInbox, Capacities
<1>8. InB!Fifo' = SubSeq(a, size + 1, Len(a))
  BY <1>3, <1>4, InB!DropRefines, Capacities DEF InboxInv
<1>9. UNCHANGED <<sendVars, sends, mConnected, down, handled>>
  BY DEF ProcessPacket
<1>10. Unsent' = Unsent
  BY <1>9, SameFifo DEF Unsent
<1>11. t = SubSeq(a, size + 1, Len(a)) \o b
  BY <1>8, <1>9, <1>10 DEF DownStream
<1>12. /\ done \in Nat /\ last \in Nat /\ Stream(a \o b, done, last)
       /\ received \in Seq(Number) /\ InOrder(received)
       /\ mConnected => Whole(a \o b, done, last)
  BY DEF DownInv, DownStream
<1>13. size \in HeaderSizes(SubSeq(a, 1, HeaderSize))
  BY <1>6
<1> HIDE DEF a, b, done, last, t
<1>14. /\ done + 1 \in Number /\ done + 1 <= last /\ Parsed(SubSeq(a, 1, size)) = done + 1
       /\ Stream(t, done + 1, last) /\ (Whole(a \o b, done, last) => Whole(t, done + 1, last))
  <2>1. FrontHolds(a, b, done, last, size, t)
    BY <1>2, <1>5, <1>11, <1>12, <1>13 DEF FrontHolds
  <2>2. FrontTaken(a, b, done, last, size, t)
    BY <2>1, TakeFront
  <2> QED  BY <2>2 DEF FrontTaken
<1>15. received' = Append(received, done + 1)
  BY <1>1, <1>7, <1>14
<1>16. received' \in Seq(Number) /\ InOrder(received)' /\ Len(received)' = done + 1
  BY <1>12, <1>14, <1>15, NextInOrder DEF done
<1> QED  BY <1>9, <1>12, <1>14, <1>16 DEF DownInv, last, t

(* The stream to the client ends where the connection does.                *)
LEMMA DownCut ==
  ASSUME Base, OneSend, DownInv, ~mConnected', UNCHANGED <<inboxVars, down, received>>,
         Len(handled) \in Nat, Len(handled)' \in Nat, Len(handled) <= Len(handled)'
  PROVE  DownInv'
<1> DEFINE a == InB!Fifo
           u == Unsent
           done == Len(received)
           t == DownStream'
<1>1. a \in Seq(Bytes) /\ down \in Seq(Bytes) /\ u \in Seq(Bytes)
  BY DownBytes
<1>2. t = a \o (down \o <<>>) /\ DownStream = a \o (down \o u)
  BY SameFifo DEF DownStream, Unsent
<1>3. /\ done \in Nat /\ Stream(DownStream, done, Len(handled)) /\ done <= Len(handled)
      /\ received \in Seq(Number) /\ InOrder(received)
  BY DEF DownInv
<1> HIDE DEF a, u, t
<1>4. t \in Seq(Bytes) /\ DownStream \in Seq(Bytes) /\ Cut(DownStream, t)
  <2>1. t \in Seq(Bytes) /\ Cut(DownStream, t)
    BY <1>1, <1>2, CutOff
  <2> QED  BY <2>1, DownBytes
<1>5. Stream(t, done, Len(handled)')
  BY <1>3, <1>4, CutStream
<1>6. received' = received /\ done <= Len(handled)'
  BY <1>3
<1> QED  BY <1>3, <1>5, <1>6 DEF DownInv, t

(* The answer is behind what is in the send buffer.                        *)
LEMMA AnswerAppended ==
  ASSUME Base, Base', OneSend, mConnected, mConnected', NEW k \in Number, NEW size \in Sizes,
         SendB!Write(Packet(k, size)), size <= SendB!Room, UNCHANGED <<inboxVars, down, sends>>
  PROVE  DownStream' = DownStream \o Packet(k, size)
<1> DEFINE p == Packet(k, size)
           f == SendB!Fifo
           a == InB!Fifo
           u == Unsent
           v == Unsent'
           e == down
<1>1. p \in Seq(Bytes) /\ Len(p) = size /\ p \in SendB!Data /\ size \in Nat
  BY PacketBytes, Capacities
<1>2. SendB!Fifo' = f \o p
  <2>1. SendB!Inv /\ SendB!Inv' /\ SendB!Write(p)
    BY DEF Base
  <2>2. \/ Len(p) <= SendB!Room /\ SendB!Fifo' = f \o p
        \/ Len(p) > SendB!Room /\ SendB!Fifo' = f
    BY <1>1, <2>1, SendB!WriteAppends, Capacities
  <2>3. SendB!Room \in 0 .. BUFSIZE
    BY <2>1, SendB!RoomFacts, Capacities
  <2>4. ~(Len(p) > SendB!Room)
    BY <1>1, <2>3
  <2> QED  BY <2>2, <2>4
<1>3. f \in Seq(Bytes) /\ a \in Seq(Bytes) /\ e \in Seq(Bytes) /\ u \in Seq(Bytes)
  BY DownBytes, FifoBytes
<1>4. v = u \o p
  <2>1. CASE sends # <<>> /\ sends[1].gone
    <3>1. sends[1].len \in 1 .. Len(f)
      BY <2>1, SendLies
    <3>2. u = SubSeq(f, sends[1].len + 1, Len(f))
      BY <2>1 DEF Unsent
    <3>3. v = SubSeq(f \o p, sends[1].len + 1, Len(f \o p))
      BY <1>2, <2>1 DEF Unsent
    <3> QED  BY <1>1, <1>3, <3>1, <3>2, <3>3, DropBeforeJoin
  <2>2. CASE ~(sends # <<>> /\ sends[1].gone)
    BY <1>2, <2>2 DEF Unsent
  <2> QED  BY <2>1, <2>2
<1>5. DownStream' = a \o (e \o v) /\ DownStream = a \o (e \o u)
  BY SameFifo DEF DownStream
<1> HIDE DEF p, f, a, u, v, e
<1>6. /\ p \in Seq(Bytes) /\ a \in Seq(Bytes) /\ e \in Seq(Bytes) /\ u \in Seq(Bytes)
      /\ e \o u \in Seq(Bytes)
  BY <1>1, <1>3, ConcatProperties
<1>7. e \o (u \o p) = (e \o u) \o p /\ a \o ((e \o u) \o p) = (a \o (e \o u)) \o p
  <2> DEFINE w == e \o u
  <2>1. e \o (u \o p) = w \o p
    <3>1. e \in Seq(Bytes) /\ u \in Seq(Bytes) /\ p \in Seq(Bytes)
      BY <1>6
    <3> QED  BY <3>1, Regrouped, Zenon
  <2>2. a \in Seq(Bytes) /\ w \in Seq(Bytes) /\ p \in Seq(Bytes)
    BY <1>6
  <2> HIDE DEF w
  <2>3. a \o (w \o p) = (a \o w) \o p
    BY <2>2, Regrouped, Zenon
  <2> QED  BY <2>1, <2>3 DEF w
<1>8. DownStream' = DownStream \o p
  BY <1>4, <1>5, <1>7
<1> QED  BY <1>8 DEF p

(* A packet is answered, or the connection is gone.                        *)
LEMMA OnReadAnswers ==
  ASSUME Base, Base', OneSend, UpInv, DownInv, OnRead
  PROVE  DownInv'
<1> DEFINE last == Len(handled)
           done == Len(received)
<1>1. /\ handled' = Append(handled, last + 1) /\ last + 1 \in Number
      /\ \E size \in Sizes : SendRequest(Packet(last + 1, size))
  BY OnReadTakes
<1>2. PICK size \in Sizes : SendRequest(Packet(last + 1, size))
  BY <1>1
<1>3. /\ mConnected => /\ SendB!Write(Packet(last + 1, size))
                       /\ mConnected' <=> size <= SendB!Room
      /\ ~mConnected => UNCHANGED <<sendVars, mConnected>>
  <2>1. SendB!Inv /\ mConnected \in BOOLEAN
    BY DEF Base, Types
  <2> HIDE DEF last
  <2> QED  BY <1>1, <1>2, <2>1, SendRequestWrites, Zenon
<1>4. UNCHANGED <<inboxVars, down, received, sends>>
  BY DEF OnRead, clientVars
<1>5. /\ handled \in Seq(Number) /\ last \in Nat /\ Len(handled)' = last + 1
      /\ Len(handled)' \in Nat /\ last <= Len(handled)'
  <2>1. handled \in Seq(Number)
    BY DEF UpInv
  <2>2. Len(handled)' = last + 1
    BY <1>1, <2>1, AppendProperties
  <2> QED  BY <2>1, <2>2
<1>6. CASE ~mConnected'
  BY <1>4, <1>5, <1>6, DownCut
<1>7. CASE mConnected'
  <2>1. mConnected /\ size <= SendB!Room /\ SendB!Write(Packet(last + 1, size))
    BY <1>3, <1>7
  <2>2. DownStream' = DownStream \o Packet(last + 1, size)
    BY <1>1, <1>4, <1>7, <2>1, AnswerAppended
  <2> DEFINE s == DownStream
             t == DownStream'
  <2>3. s \in Seq(Bytes)
    BY DownBytes
  <2>4. t \in Seq(Bytes) /\ Appended(s, t, last + 1, size)
    BY <1>1, <2>2, <2>3, PacketAppended
  <2>5. /\ done \in Nat /\ done <= last /\ Stream(s, done, last) /\ Whole(s, done, last)
        /\ received \in Seq(Number) /\ InOrder(received)
    BY <2>1 DEF DownInv
  <2> HIDE DEF s, t, done, last
  <2>6. Stream(t, done, last + 1) /\ Whole(t, done, last + 1)
    BY <1>5, <2>3, <2>4, <2>5, AppendPacket
  <2>7. received' = received /\ done <= last + 1
    BY <1>4, <1>5, <2>5
  <2> QED  BY <1>5, <2>5, <2>6, <2>7 DEF DownInv, t, done
<1> QED  BY <1>6, <1>7

(* A flush posts bytes that stay in the buffer.                            *)
LEMMA FlushKeeps ==
  ASSUME ~Overlap, Base, SendFlush
  PROVE  DownStream' = DownStream
<1>1. PostedSend.gone = FALSE
  BY PostedSendLies DEF Base, SendFlush
<1>2. sends = <<>> /\ sends' = Append(<<>>, PostedSend) /\ mConnected /\ mConnected'
  BY DEF SendFlush
<1>3. ~sends'[1].gone
  BY <1>1, <1>2
<1>4. UNCHANGED <<inboxVars, sendVars, down>>
  BY DEF SendFlush, clientVars
<1>5. Unsent = SendB!Fifo /\ Unsent' = SendB!Fifo'
  BY <1>2, <1>3 DEF Unsent
<1> QED  BY <1>4, <1>5, SameFifo DEF DownStream

(* Every step preserves the invariant of the stream to the client.         *)
LEMMA NextDown ==
  ~Overlap /\ Base /\ Base' /\ OneSend /\ InboxTakes /\ UpInv /\ DownInv /\ [Next]_vars => DownInv'
<1> SUFFICES ASSUME ~Overlap, Base, Base', OneSend, InboxTakes, UpInv, DownInv, [Next]_vars
             PROVE  DownInv'
  OBVIOUS
<1>0. Len(handled) \in Nat
  BY DEF UpInv
<1>1. ASSUME NEW n \in 1 .. RecvChunk, NetworkRecv(n) PROVE DownInv'
  BY <1>1, NetworkRecvMoves, DownFrame DEF NetworkRecv
<1>2. CASE ProcessPacket
  BY <1>0, <1>2, ProcessPacketTakes
<1>3. CASE OnRead
  BY <1>3, OnReadAnswers
<1>4. CASE SendFlush
  BY <1>4, FlushKeeps, DownFrame DEF SendFlush, clientVars
<1>5. ASSUME NEW k \in DOMAIN sends, Transmit(k) PROVE DownInv'
  BY <1>5, TransmitMoves, DownFrame DEF Transmit, clientVars
<1>6. ASSUME NEW k \in DOMAIN sends, SendCompletion(k) PROVE DownInv'
  BY <1>6, CompletionKeeps, DownFrame DEF SendCompletion, clientVars
<1>7. CASE Disconnect
  <2>1. ~mConnected' /\ UNCHANGED <<inboxVars, down, received, handled>>
    BY <1>7 DEF Disconnect, clientVars
  <2>2. Len(handled)' = Len(handled)
    BY <2>1
  <2> QED  BY <1>0, <2>1, <2>2, DownCut
<1>8. CASE UNCHANGED <<inboxVars, sendVars, down, sends, mConnected, received, handled>>
  <2>1. Unsent' = Unsent
    BY <1>8, SameFifo DEF Unsent
  <2>2. DownStream' = DownStream
    BY <1>8, <2>1, SameFifo DEF DownStream
  <2> QED  BY <1>8, <2>2, DownFrame
<1>9. \/ \E n \in 1 .. RecvChunk : NetworkRecv(n)
      \/ ProcessPacket \/ OnRead \/ SendFlush \/ Disconnect
      \/ \E k \in DOMAIN sends : Transmit(k) \/ SendCompletion(k)
      \/ UNCHANGED <<inboxVars, sendVars, down, sends, mConnected, received, handled>>
  BY DEF Next, Client, Receiving, Sending, vars, clientVars, Send, ProcessPacketDone,
         RecvCompletion, PostRecv
<1> QED  BY <1>1, <1>2, <1>3, <1>4, <1>5, <1>6, <1>7, <1>8, <1>9

(* Nothing has been answered at first.                                     *)
LEMMA InitDown == Init => DownInv
<1> SUFFICES ASSUME Init PROVE DownInv  OBVIOUS
<1>1. /\ InB!Fifo \in Seq(Bytes) /\ Len(InB!Fifo) = 0
      /\ SendB!Fifo \in Seq(Bytes) /\ Len(SendB!Fifo) = 0
  BY InitBase, FifoBytes DEF Init, Inbox!GetStoredSize, SendBuffer!GetStoredSize
<1>2. InB!Fifo = <<>> /\ SendB!Fifo = <<>>
  BY <1>1, EmptySeq
<1>3. down = <<>> /\ received = <<>> /\ handled = <<>> /\ sends = <<>> /\ mConnected
  BY DEF Init
<1>4. Unsent = <<>>
  BY <1>2, <1>3 DEF Unsent
<1>5. DownStream = <<>>
  <2>1. DownStream = <<>> \o (<<>> \o <<>>)
    BY <1>2, <1>3, <1>4 DEF DownStream
  <2> QED  BY <2>1
<1>6. Stream(<<>>, 0, 0) /\ Whole(<<>>, 0, 0) /\ InOrder(<<>>)
  BY DEF Stream, Begins, Within, Runs, Follows, Whole, InOrder
<1> QED  BY <1>3, <1>5, <1>6 DEF DownInv

(* The client gets the answers, whole, once each and in order, for every   *)
(* size of packets and buffers and every way the stream is cut, although   *)
(* the system reads them from the send buffer while more are written to it *)
(* (SendRequest, SendFlush, OnWriteComplete, networkThread), if packets    *)
(* are sent whole, no send is posted while one is outstanding and packets  *)
(* fit in half the buffers.                                                *)
THEOREM AnswersAreReceivedOnce ==
  ReceiveFits /\ InboxFits /\ ~PartialSend /\ ~Overlap => (Spec => []ReceivedOnce)
<1> SUFFICES ASSUME ReceiveFits, InboxFits, ~PartialSend, ~Overlap PROVE Spec => []ReceivedOnce
  OBVIOUS
<1>1. Base /\ Base' /\ OneSend /\ InboxTakes /\ UpInv /\ DownInv /\ [Next]_vars => DownInv'
  BY NextDown
<1>2. DownInv => ReceivedOnce
  BY DEF DownInv, ReceivedOnce
<1> QED  BY <1>1, <1>2, InitDown, BaseHolds, OneSendHolds, InboxAlwaysTakes, UpHolds, PTL DEF Spec
=============================================================================
