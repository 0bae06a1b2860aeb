------------------------ MODULE XrdNdnConsumerProofs ------------------------
(***************************************************************************)
(* The theorems of modules XrdNdnPipeline and XrdNdnConsumer: the count of *)
(* the Interests in flight, which the face thread changes without a lock,  *)
(* the one result of a DataFetcher, why calls are turned away, what a read *)
(* returns and what the copy writes.  For any number of threads, any file  *)
(* and any sizes.                                                          *)
(***************************************************************************)
EXTENDS XrdNdnConsumer, FiniteSetTheorems, SequenceTheorems, WellFoundedInduction, TLAPS

-----------------------------------------------------------------------------
(* Counting modulo Word.                                                    *)

Pred(x) == IF x = 0 THEN Word - 1 ELSE x - 1

\* The counter wraps at its largest value,
LEMMA ModSucc ==
    ASSUME NEW W \in Nat \ {0}, NEW a \in 0 .. W - 1
    PROVE  (a + 1) % W = IF a + 1 = W THEN 0 ELSE a + 1
OBVIOUS

\* and at zero.
LEMMA ModPred ==
    ASSUME NEW W \in Nat \ {0}, NEW a \in 0 .. W - 1
    PROVE  (a - 1) % W = IF a = 0 THEN W - 1 ELSE a - 1
OBVIOUS

-----------------------------------------------------------------------------
(* The octets of a read: what putData makes of the segments, one by one.    *)

LEMMA MinMaxTwo ==
    ASSUME NEW a \in Int, NEW b \in Int
    PROVE  /\ Min({a, b}) = IF a <= b THEN a ELSE b
           /\ Max({a, b}) = IF a <= b THEN b ELSE a
BY DEF Min, Max

LEMMA MaxZero == ASSUME NEW b \in Int PROVE Max({0, b}) = IF 0 <= b THEN b ELSE 0
BY DEF Max

LEMMA DivMod == ASSUME NEW a \in Nat, NEW b \in Nat \ {0}
  PROVE /\ (a \div b) \in Nat /\ (a % b) \in 0 .. b - 1 /\ a = b * (a \div b) + (a % b)
OBVIOUS

LEMMA ModSmall == ASSUME NEW a \in Nat, NEW b \in Nat \ {0}, a < b PROVE a % b = a
OBVIOUS

\* A set of natural numbers has a least element.
LEMMA NatMin == ASSUME NEW T \in SUBSET Nat, T # {} PROVE \E x \in T : \A y \in T : x <= y
<1> DEFINE Less == {ss \in Nat \X Nat : ss[1] < ss[2]}
<1>1. IsWellFoundedOn(Less, Nat)
  <2>1. OpToRel(<, Nat) = Less
    BY Zenon DEF OpToRel
  <2> QED  BY <2>1, NatLessThanWellFounded
<1> HIDE DEF Less
<1>2. PICK x \in T : \A y \in T : ~ (<<y, x>> \in Less)
  BY <1>1, WFMin
<1>3. \A y \in Nat : y < x => <<y, x>> \in Less
  BY DEF Less
<1>4. ASSUME NEW y \in T PROVE x <= y
  <2>1. x \in Nat /\ y \in Nat /\ ~(y < x)
    BY <1>2, <1>3
  <2> QED  BY <2>1
<1> QED BY <1>4

\* Where a segment begins.
At(seg) == seg * P

\* n octets of the file from off on, and a buffer that holds them.
Run(off, n) == [i \in 1 .. n |-> off + i - 1]
Buffer(off, n, blen) == [octets |-> Run(off, n), blen |-> blen]

Lesser(a, b) == IF a <= b THEN a ELSE b

\* The octets of a segment that begins at x.
ContentLen(x) == IF FileSize <= x THEN 0 ELSE Lesser(P, FileSize - x)

\* How many octets a read has when it has put segments that end at x.
Upto(off, len, x) ==
    LET end == Lesser(off + len, Lesser(x, FileSize))
    IN  IF end <= off THEN 0 ELSE end - off

Filled(off, len, x) == Buffer(off, Upto(off, len, x), len - Upto(off, len, x))

LEMMA Sizes ==
    /\ P \in Nat \ {0} /\ FileSize \in Nat /\ BSize \in Nat \ {0} /\ NThreads \in Nat \ {0}
    /\ Word \in Nat \ {0} /\ FileSize + P < Word
<1>1. /\ {MinSize, MaxSize, NThreads, P, BSize} \subseteq Nat \ {0} /\ FileSize \in Nat
      /\ Word > FileSize + P + BSize + MaxSize
  BY ConsumerAssumption
<1> QED  BY <1>1, XrdNdnAssumption

LEMMA AtInNat ==
    ASSUME NEW seg \in Nat
    PROVE  At(seg) \in Nat /\ At(seg + 1) = At(seg) + P
BY Sizes DEF At

\* The content of a segment is a run of octets of the file.
LEMMA ContentIsRun ==
    ASSUME NEW seg \in Nat
    PROVE  Content(seg) = Run(At(seg), ContentLen(At(seg)))
<1> DEFINE x == At(seg)
           d == Max({0, FileSize - x})
<1>1. P \in Nat \ {0} /\ x \in Int /\ FileSize - x \in Int /\ FileSize \in Nat
  BY Sizes, AtInNat
<1> HIDE DEF x
<1>2. d = IF 0 <= FileSize - x THEN FileSize - x ELSE 0
  BY <1>1, MaxZero
<1>3. d \in Int
  BY <1>1, <1>2
<1> HIDE DEF d
<1>4. Min({P, d}) = IF P <= d THEN P ELSE d
  BY <1>1, <1>3, MinMaxTwo
<1>5. Min({P, d}) = ContentLen(x)
  BY <1>1, <1>2, <1>4 DEF ContentLen, Lesser
<1>6. Content(seg) = [k \in 1 .. Min({P, d}) |-> x + k - 1]
  BY DEF Content, At, x, d
<1> QED  BY <1>5, <1>6 DEF Run, x

\* One segment: what it adds goes on where the buffer ends.
LEMMA PutExact ==
    ASSUME NEW off, NEW n, NEW blen, NEW seg, NEW co, NEW c, NEW m, NEW e, NEW rest,
           off \in Nat, n \in Nat, blen \in Nat, seg \in Nat, co \in Nat, c \in Nat, m \in Nat,
           c = ContentLen(At(seg)), co <= c,
           m = Lesser(c - co, blen), m > 0 => off + n = At(seg) + co,
           e = n + m, rest = blen - m
    PROVE  putData(Buffer(off, n, blen), seg, co) = Buffer(off, e, rest)
<1>0. P \in Nat \ {0} /\ Word \in Nat \ {0} /\ FileSize \in Nat /\ FileSize + P < Word
  BY Sizes
<1>1. PICK x \in Nat : x = At(seg)
  BY AtInNat
<1>2. c <= P /\ c < Word
  BY <1>0, <1>1 DEF ContentLen, Lesser
<1>3. (c - co) % Word = c - co
  BY <1>0, <1>2, ModSmall
<1>4. Content(seg) = Run(x, c)
  BY <1>1, ContentIsRun
<1>5. Len(Run(x, c)) = c
  BY DEF Run
<1>6. Min({c - co, blen}) = m
  <2>1. c - co \in Int /\ blen \in Int
    OBVIOUS
  <2> QED  BY <2>1, MinMaxTwo DEF Lesser
<1> DEFINE b == Buffer(off, n, blen)
           more == [k \in 1 .. m |-> IF co + k <= c THEN Run(x, c)[co + k] ELSE Junk]
<1>7. b.octets = Run(off, n) /\ b.blen = blen
  BY DEF Buffer
<1> HIDE DEF b
<1>8. putData(b, seg, co) = [octets |-> b.octets \o more, blen |-> b.blen - m]
  BY <1>3, <1>4, <1>5, <1>6, <1>7 DEF putData
<1>8a. PICK s \in Int : s = off + n
  OBVIOUS
<1>9. more = Run(s, m)
  <2>1. ASSUME NEW k \in 1 .. m
        PROVE  (IF co + k <= c THEN Run(x, c)[co + k] ELSE Junk) = off + n + k - 1
    <3>1. co + k \in 1 .. c /\ m > 0
      BY DEF Lesser
    <3>2. Run(x, c)[co + k] = x + (co + k) - 1
      BY <3>1 DEF Run
    <3> QED  BY <1>1, <3>1, <3>2
  <2> QED  BY <1>8a, <2>1 DEF Run
<1> HIDE DEF more
<1>9a. off \in Int
  OBVIOUS
<1>10. Run(off, n) \o Run(s, m) = Run(off, e)
  BY ONLY <1>8a, <1>9a, n \in Nat, m \in Nat, e = n + m DEF Run
<1> QED  BY <1>7, <1>8, <1>9, <1>10 DEF b, Buffer

\* What the first segment of a read adds.
LEMMA FirstUpto ==
    ASSUME NEW off, NEW len, NEW x, NEW r, NEW c,
           off \in Nat, len \in Nat, x \in Nat, r \in Nat, r < P, off = x + r, c = ContentLen(x),
           off <= FileSize \/ r = 0
    PROVE  c \in Nat /\ r <= c /\ Lesser(c - r, len) = Upto(off, len, x + P)
BY Sizes DEF Upto, Lesser, ContentLen

\* The first segment of a read, from inside of it.
LEMMA PutFirst ==
    ASSUME NEW off \in Nat, NEW len \in Nat, off <= FileSize \/ off % P = 0
    PROVE  putData(Buffer(off, 0, len), off \div P, off % P)
             = Filled(off, len, At((off \div P) + 1))
<1>1. P \in Nat \ {0} /\ FileSize \in Nat
  BY Sizes
<1>2. PICK f \in Nat : f = off \div P
  BY <1>1, DivMod
<1>3. PICK r \in Nat : r = off % P
  BY <1>1, DivMod
<1>4. r < P /\ off = P * f + r
  BY <1>1, <1>2, <1>3, DivMod
<1>5. PICK x \in Nat : x = At(f)
  BY AtInNat
<1>6. off = x + r /\ At(f + 1) = x + P
  <2>1. off = x + r
    BY <1>1, <1>4, <1>5 DEF At
  <2> QED  BY <2>1, <1>5, AtInNat
<1> DEFINE c == ContentLen(At(f))
           m == Lesser(c - r, len)
<1>7. c = ContentLen(x) /\ c \in Nat
  BY <1>1, <1>5 DEF ContentLen, Lesser
<1> HIDE DEF c
<1>8. r <= c /\ m = Upto(off, len, x + P)
  BY <1>3, <1>4, <1>6, <1>7, FirstUpto
<1>9. m \in Nat /\ m <= len
  BY <1>7, <1>8 DEF Lesser
<1>11. PICK z \in Nat : z = 0
  OBVIOUS
<1>11a. PICK rest \in Nat : rest = len - m
  BY <1>9
<1>11b. /\ c = ContentLen(At(f)) /\ m = Lesser(c - r, len) /\ off + z = At(f) + r
        /\ m = z + m
  BY <1>5, <1>6, <1>9, <1>11 DEF c
<1> HIDE DEF m
<1>12. putData(Buffer(off, z, len), f, r) = Buffer(off, m, rest)
  BY <1>7, <1>8, <1>9, <1>11a, <1>11b, PutExact
<1> QED  BY <1>11, <1>11a, <1>2, <1>3, <1>6, <1>8, <1>9, <1>12 DEF Filled

\* The next one, from its beginning.
LEMMA PutNext ==
    ASSUME NEW off \in Nat, NEW len \in Nat, NEW seg \in Nat, off < At(seg)
    PROVE  putData(Filled(off, len, At(seg)), seg, 0) = Filled(off, len, At(seg + 1))
<1>1. P \in Nat \ {0} /\ FileSize \in Nat
  BY Sizes
<1>2. PICK x \in Nat : x = At(seg)
  BY AtInNat
<1>3. At(seg + 1) = x + P
  BY <1>2, AtInNat
<1> DEFINE c == ContentLen(At(seg))
           n == Upto(off, len, x)
           blen == len - n
           m == Lesser(c - 0, blen)
<1>4. c = ContentLen(x) /\ c \in Nat
  BY <1>1, <1>2 DEF ContentLen, Lesser
<1> HIDE DEF c
<1>5. n \in Nat /\ n <= len
  BY <1>1 DEF Upto, Lesser
<1>6. blen \in Nat
  BY <1>5
<1>7. m \in Nat /\ (m > 0 => off + n = x + 0) /\ n + m = Upto(off, len, x + P)
  BY <1>1, <1>2, <1>4, <1>5, <1>6 DEF Upto, Lesser, ContentLen
<1>8. PICK z \in Nat : z = 0
  OBVIOUS
<1>8a. PICK e \in Nat : e = n + m
  BY <1>5, <1>7
<1>8b. PICK rest \in Nat : rest = blen - m /\ rest = len - e
  BY <1>4, <1>5, <1>6, <1>7, <1>8a DEF Lesser
<1>9. c = ContentLen(At(seg)) /\ m = Lesser(c - z, blen) /\ (m > 0 => off + n = At(seg) + z) /\ z <= c
  BY <1>2, <1>4, <1>7, <1>8 DEF c
<1>10. Filled(off, len, x) = Buffer(off, n, blen)
  BY DEF Filled
<1> HIDE DEF m, n, blen
<1>11. putData(Buffer(off, n, blen), seg, z) = Buffer(off, e, rest)
  BY <1>4, <1>5, <1>6, <1>7, <1>8a, <1>8b, <1>9, PutExact
<1> QED  BY <1>8a, <1>8b, <1>2, <1>3, <1>7, <1>8, <1>10, <1>11 DEF Filled

\* The segments of a read reach from before its offset to behind its end.
LEMMA SegmentsReach ==
    ASSUME NEW off, NEW len, off \in Nat, len \in Nat \ {0}
    PROVE  LET from == off \div P
               n == ((off + len + P - 1) \div P) - from
           IN  /\ from \in Nat /\ n \in Nat \ {0}
               /\ off < At(from + 1)
               /\ off + len <= At(from + n)
<1>1. P \in Nat \ {0}
  BY Sizes
<1>2. PICK from \in Nat : from = off \div P
  BY <1>1, DivMod
<1>3. PICK last \in Nat : last = (off + len + P - 1) \div P
  <2>1. off + len + P - 1 \in Nat
    BY <1>1
  <2> QED  BY <1>1, <2>1, DivMod
<1>4. off < P * from + P
  BY <1>1, <1>2, DivMod
<1>5. off + len <= P * last
  <2>1. PICK a \in Nat : a = off + len + P - 1
    BY <1>1
  <2>2. a = P * (a \div P) + (a % P) /\ (a % P) \in 0 .. P - 1
    BY <1>1, <2>1, DivMod
  <2>3. last = a \div P
    BY <1>3, <2>1
  <2> QED  BY <1>1, <2>1, <2>2, <2>3
<1>6. At(from + 1) = P * from + P /\ At(last) = P * last
  BY <1>1 DEF At
<1>7. last > from
  <2>1. SUFFICES ASSUME last <= from PROVE FALSE
    OBVIOUS
  <2>2. P * last <= P * from
    BY <1>1, <2>1
  <2>3. P * from <= off
    BY <1>1, <1>2, DivMod
  <2> QED  BY <1>1, <1>5, <2>2, <2>3
<1>8. from + (last - from) = last
  OBVIOUS
<1> QED  BY <1>2, <1>3, <1>4, <1>5, <1>6, <1>7, <1>8

\* A later segment starts later.
LEMMA AtMonotone ==
    ASSUME NEW m \in Nat, NEW n \in Nat, m <= n
    PROVE  At(m) <= At(n)
BY Sizes DEF At

\* The octets of a read, in the order of its segments, are those of the file
\* from its offset on, as many as it asked for and the file has.
LEMMA ReturnExact ==
    ASSUME NEW off, NEW len, off \in Nat, len \in Nat \ {0}, off <= FileSize \/ off % P = 0
    PROVE  returnData(off, len) = FileOctets(off, len)
<1> DEFINE from == off \div P
           n == ((off + len + P - 1) \div P) - from
           segs == SegmentsOf(off, len)
           start == [octets |-> <<>>, blen |-> len]
           Put(f) == [k \in 1 .. Len(segs) |->
                        IF k = 1 THEN putData(start, segs[1], off % P)
                        ELSE putData(f[k - 1], segs[k], 0)]
           buff == CHOOSE f : f = Put(f)
           g == [k \in 1 .. n |-> Filled(off, len, At(from + k))]
<1>1. returnData(off, len) = buff[Len(segs)].octets
  BY DEF returnData
<1>2. from \in Nat /\ n \in Nat \ {0} /\ off < At(from + 1) /\ off + len <= At(from + n)
  BY SegmentsReach
<1>3. segs = [k \in 1 .. n |-> from + k - 1]
  BY DEF SegmentsOf
<1>3a. putData(start, from, off % P) = Filled(off, len, At(from + 1))
  <2>1. start = Buffer(off, 0, len)
    BY DEF Buffer, Run
  <2> QED  BY <2>1, PutFirst
<1> HIDE DEF from, n, segs
<1>4. Len(segs) = n /\ segs[1] = from /\ \A k \in 1 .. n : segs[k] = from + k - 1
  BY <1>2, <1>3
<1>5. ASSUME NEW k \in 1 .. n, k # 1
      PROVE  putData(Filled(off, len, At(from + (k - 1))), segs[k], 0) = Filled(off, len, At(from + k))
  <2>1. PICK seg \in Nat : seg = from + k - 1
    BY <1>2, <1>5
  <2>2. from + (k - 1) = seg /\ from + k = seg + 1 /\ segs[k] = seg /\ from + 1 <= seg
    BY <1>2, <1>4, <1>5, <2>1
  <2>3. off < At(seg)
    BY <1>2, <2>2, AtMonotone, AtInNat
  <2> QED  BY <2>2, <2>3, PutNext
<1>6. g = Put(g)
  <2>1. ASSUME NEW k \in 1 .. n
        PROVE  g[k] = IF k = 1 THEN putData(start, segs[1], off % P) ELSE putData(g[k - 1], segs[k], 0)
    <3>1. CASE k = 1
      BY <1>3a, <1>4, <3>1
    <3>2. CASE k # 1
      <4>1. k - 1 \in 1 .. n /\ g[k - 1] = Filled(off, len, At(from + (k - 1)))
        BY <1>2, <3>2
      <4> QED  BY <1>5, <3>2, <4>1
    <3> QED  BY <3>1, <3>2
  <2>2. g = [k \in 1 .. n |-> g[k]]
    OBVIOUS
  <2> HIDE DEF g
  <2> QED  BY <1>4, <2>1, <2>2
<1> HIDE DEF g, start
<1>7. buff = Put(buff)
  BY <1>6
<1> HIDE DEF buff
<1>8. ASSUME NEW k \in 1 .. n, buff[k] # g[k] PROVE FALSE
  <2> DEFINE wrong == {j \in 1 .. n : buff[j] # g[j]}
  <2>1. wrong \in SUBSET Nat /\ wrong # {}
    BY <1>8
  <2>2. PICK j \in wrong : \A i \in wrong : j <= i
    <3> HIDE DEF wrong
    <3> QED  BY <2>1, NatMin
  <2>3. j \in 1 .. n /\ buff[j] # g[j]
    OBVIOUS
  <2>4. buff[j] = IF j = 1 THEN putData(start, segs[1], off % P) ELSE putData(buff[j - 1], segs[j], 0)
    BY <1>4, <1>7, <2>3
  <2>5. g[j] = IF j = 1 THEN putData(start, segs[1], off % P) ELSE putData(g[j - 1], segs[j], 0)
    BY <1>4, <1>6, <2>3
  <2>6. j # 1 => buff[j - 1] = g[j - 1]
    <3>1. SUFFICES ASSUME j # 1, buff[j - 1] # g[j - 1] PROVE FALSE
      OBVIOUS
    <3>2. j - 1 \in wrong
      <4>1. j - 1 \in 1 .. n
        BY <1>2, <2>3, <3>1
      <4> QED  BY <3>1, <4>1
    <3> QED  BY <2>2, <2>3, <3>2
  <2> QED  BY <2>3, <2>4, <2>5, <2>6
<1>9. buff[n] = Filled(off, len, At(from + n))
  BY <1>2, <1>8 DEF g
<1>10. Filled(off, len, At(from + n)).octets = FileOctets(off, len)
  <2>1. PICK x \in Nat : x = At(from + n)
    BY <1>2, AtInNat
  <2>2. Upto(off, len, x) = Min({len, Max({0, FileSize - off})})
    <3> DEFINE d == Max({0, FileSize - off})
    <3>1. FileSize \in Nat /\ FileSize - off \in Int
      BY Sizes
    <3>2. d = IF 0 <= FileSize - off THEN FileSize - off ELSE 0
      BY <3>1, MaxZero
    <3>3. d \in Int /\ len \in Int
      BY <3>1, <3>2
    <3> HIDE DEF d
    <3>4. Min({len, d}) = IF len <= d THEN len ELSE d
      BY <3>3, MinMaxTwo
    <3>5. Upto(off, len, x) = Min({len, d})
      BY <1>2, <2>1, <3>1, <3>2, <3>4 DEF Upto, Lesser
    <3> QED  BY <3>5 DEF d
  <2> QED  BY <2>1, <2>2 DEF Filled, Buffer, Run, FileOctets
<1> QED  BY <1>1, <1>4, <1>9, <1>10

-----------------------------------------------------------------------------
(* The window: the DataFetchers, whatever segments they are for.            *)

Out == {"pending", "backoff", "lost"}

Fetchers(segs) ==
    [seg: segs, net: Out \cup {"settled", "removed"}, nNacks: Nat, nTimeouts: Nat,
     task: Seq({"ok", "nack", "error"})]

\* m_task has been called when the Interest is settled, and not before.
CalledWhenSettled ==
    \A i \in Interests :
        IF Fetcher(i).net = "settled" THEN Len(Fetcher(i).task) = 1 ELSE Fetcher(i).task = <<>>

WindowOK ==
    /\ \E segs : window \in [Threads -> Seq(Fetchers(segs))]
    /\ CalledWhenSettled

HasError == \E i \in Interests : Fetcher(i).task = <<"error">>

\* Some fetch ended, and not with Data that has content.
NotOk == \E i \in Interests : Fetcher(i).task \notin {<<>>, <<"ok">>}

LEMMA InInterests ==
    ASSUME NEW i
    PROVE  i \in Interests <=> \E t \in Threads : \E k \in DOMAIN window[t] : i = <<t, k>>
BY DEF Interests

\* One DataFetcher is replaced.
LEMMA SetFetcherWindow ==
    ASSUME WindowOK, NEW i \in Interests, NEW f, SetFetcher(i, f),
           f \in Fetchers({f.seg}),
           IF f.net = "settled" THEN Len(f.task) = 1 ELSE f.task = <<>>
    PROVE  /\ WindowOK'
           /\ \A j : j \in Interests' <=> j \in Interests
           /\ \A j \in Interests : Fetcher(j)' = IF j = i THEN f ELSE Fetcher(j)
<1>1. PICK segs : window \in [Threads -> Seq(Fetchers(segs))]
  BY DEF WindowOK
<1>2. PICK t \in Threads : \E k \in 1..Len(window[t]) : i = <<t, k>>
  BY <1>1, InInterests
<1>2a. PICK k \in 1..Len(window[t]) : i = <<t, k>>
  BY <1>2
<1>3. window' = [window EXCEPT ![t] = [window[t] EXCEPT ![k] = f]]
  BY <1>2a DEF SetFetcher
<1> DEFINE more == segs \cup {f.seg}
<1>4. /\ window[t] \in Seq(Fetchers(more)) /\ f \in Fetchers(more)
      /\ window \in [Threads -> Seq(Fetchers(more))]
  <2>1. Fetchers(segs) \subseteq Fetchers(more) /\ Fetchers({f.seg}) \subseteq Fetchers(more)
    BY DEF Fetchers
  <2> HIDE DEF more
  <2>2. \A s : s \in Seq(Fetchers(segs)) => s \in Seq(Fetchers(more))
    BY <2>1
  <2> QED  BY <1>1, <2>1, <2>2
<1> HIDE DEF more
<1>5. [window[t] EXCEPT ![k] = f] \in Seq(Fetchers(more))
  BY <1>4
<1>6. window' \in [Threads -> Seq(Fetchers(more))]
  BY <1>3, <1>4, <1>5
<1>7. \A u \in Threads : DOMAIN window'[u] = DOMAIN window[u]
  BY <1>1, <1>3
<1>8. \A j : j \in Interests' <=> j \in Interests
  BY <1>7 DEF Interests
<1>9. ASSUME NEW j \in Interests PROVE Fetcher(j)' = IF j = i THEN f ELSE Fetcher(j)
  <2>0. PICK u \in Threads : \E l \in DOMAIN window[u] : j = <<u, l>>
    BY InInterests
  <2>1. PICK l \in DOMAIN window[u] : j = <<u, l>>
    BY <2>0
  <2>2. Fetcher(j) = window[u][l] /\ Fetcher(j)' = window'[u][l]
    BY <2>1 DEF Fetcher
  <2>3. j = i <=> u = t /\ l = k
    BY <1>2a, <2>1
  <2> QED  BY <1>1, <1>3, <2>2, <2>3
<1>10. CalledWhenSettled'
  BY <1>8, <1>9 DEF CalledWhenSettled, WindowOK
<1> QED  BY <1>6, <1>8, <1>9, <1>10 DEF WindowOK

\* A DataFetcher is added.
LEMMA AppendWindow ==
    ASSUME WindowOK, NEW t \in Threads, NEW f, f \in Fetchers({f.seg}),
           f.task = <<>>, f.net # "settled",
           window' = [window EXCEPT ![t] = Append(@, f)]
    PROVE  /\ WindowOK'
           /\ \E n \in Nat \ DOMAIN window[t] :
                /\ \A j : j \in Interests' <=> j \in Interests \/ j = <<t, n>>
                /\ \A j \in Interests : Fetcher(j)' = Fetcher(j)
                /\ Fetcher(<<t, n>>)' = f
<1>1. PICK segs : window \in [Threads -> Seq(Fetchers(segs))]
  BY DEF WindowOK
<1> DEFINE more == segs \cup {f.seg}
<1>1a. PICK n \in Nat : n = Len(window[t]) + 1
  BY <1>1
<1>2. f \in Fetchers(more) /\ window \in [Threads -> Seq(Fetchers(more))]
  <2>1. Fetchers(segs) \subseteq Fetchers(more) /\ Fetchers({f.seg}) \subseteq Fetchers(more)
    BY DEF Fetchers
  <2> HIDE DEF more
  <2>2. \A s : s \in Seq(Fetchers(segs)) => s \in Seq(Fetchers(more))
    BY <2>1
  <2> QED  BY <1>1, <2>1, <2>2
<1> HIDE DEF more
<1>3. window' \in [Threads -> Seq(Fetchers(more))]
  BY <1>2
<1>4. /\ window'[t] = Append(window[t], f) /\ DOMAIN window'[t] = 1..n /\ DOMAIN window[t] = 1..n - 1
      /\ n \in Nat /\ window'[t][n] = f /\ \A k \in 1..n - 1 : window'[t][k] = window[t][k]
  BY <1>1a, <1>1, <1>2
<1>5. \A u \in Threads : u # t => window'[u] = window[u]
  BY <1>1
<1>6. n \notin DOMAIN window[t] /\ \A k : k \in DOMAIN window'[t] <=> k \in DOMAIN window[t] \/ k = n
  BY <1>4
<1>7. \A j : j \in Interests' <=> j \in Interests \/ j = <<t, n>>
  <2>1. \A j : j \in Interests' <=> \E u \in Threads : \E k \in DOMAIN window'[u] : j = <<u, k>>
    BY DEF Interests
  <2> QED  BY <1>5, <1>6, <2>1, InInterests
<1>8. ASSUME NEW j \in Interests PROVE Fetcher(j)' = Fetcher(j)
  <2>0. PICK u \in Threads : \E l \in DOMAIN window[u] : j = <<u, l>>
    BY InInterests
  <2>1. PICK l \in DOMAIN window[u] : j = <<u, l>>
    BY <2>0
  <2>2. Fetcher(j) = window[u][l] /\ Fetcher(j)' = window'[u][l]
    BY <2>1 DEF Fetcher
  <2> QED  BY <1>4, <1>5, <2>2
<1>9. Fetcher(<<t, n>>)' = f
  <2>1. Fetcher(<<t, n>>)' = window'[t][n]
    BY DEF Fetcher
  <2> QED  BY <1>4, <2>1
<1>10. CalledWhenSettled'
  <2> SUFFICES ASSUME NEW j \in Interests'
               PROVE  IF Fetcher(j)'.net = "settled" THEN Len(Fetcher(j)'.task) = 1
                      ELSE Fetcher(j)'.task = <<>>
    BY DEF CalledWhenSettled
  <2>1. CASE j \in Interests
    BY <1>8, <2>1 DEF CalledWhenSettled, WindowOK
  <2>2. CASE j = <<t, n>>
    BY <1>9, <2>2
  <2> QED  BY <1>7, <2>1, <2>2
<1> QED  BY <1>3, <1>6, <1>7, <1>8, <1>9, <1>10 DEF WindowOK

\* What the steps do to the Interests in flight.
LEMMA FlightRetry ==
    ASSUME WindowOK, NEW i \in InFlight, NEW f, SetFetcher(i, f), f \in Fetchers({f.seg}),
           f.net \in Out, f.task = <<>>
    PROVE  WindowOK' /\ InFlight' = InFlight /\ (HasError => HasError') /\ (NotOk => NotOk')
<1>1. i \in Interests /\ Fetcher(i).net \in Out
  BY DEF InFlight, Out
<1>2. /\ WindowOK'
      /\ \A j : j \in Interests' <=> j \in Interests
      /\ \A j \in Interests : Fetcher(j)' = IF j = i THEN f ELSE Fetcher(j)
  BY <1>1, SetFetcherWindow DEF Out
<1>3. \A j : j \in InFlight' <=> j \in InFlight
  BY <1>1, <1>2 DEF InFlight, Out
<1>4. (HasError => HasError') /\ (NotOk => NotOk')
  BY <1>1, <1>2 DEF HasError, NotOk, WindowOK, CalledWhenSettled, Out
<1> QED  BY <1>2, <1>3, <1>4

\* An Interest that is settled is not in flight any more.
LEMMA FlightSettle ==
    ASSUME WindowOK, NEW i \in InFlight, NEW value \in {"ok", "nack", "error"},
           NEW then, Settle(i, value, then)
    PROVE  /\ WindowOK' /\ InFlight' = InFlight \ {i} /\ (HasError => HasError') /\ (NotOk => NotOk')
           /\ value = "error" => HasError'
<1>1. i \in Interests /\ Fetcher(i).net \in Out
  BY DEF InFlight, Out
<1>2. Fetcher(i).task = <<>>
  BY <1>1 DEF WindowOK, CalledWhenSettled, Out
<1> DEFINE f == [NewFetcher(Fetcher(i).seg, "settled") EXCEPT !.task = Append(Fetcher(i).task, value)]
<1>3. /\ f = [seg |-> Fetcher(i).seg, net |-> "settled", nNacks |-> 0, nTimeouts |-> 0,
              task |-> <<value>>]
      /\ SetFetcher(i, f)
  BY <1>2 DEF NewFetcher, Settle
<1> HIDE DEF f
<1>4. f.net = "settled" /\ f.task = <<value>> /\ f \in Fetchers({f.seg})
  BY <1>3 DEF Fetchers, Out
<1>5. /\ WindowOK'
      /\ \A j : j \in Interests' <=> j \in Interests
      /\ \A j \in Interests : Fetcher(j)' = IF j = i THEN f ELSE Fetcher(j)
  <2>1. Len(f.task) = 1
    BY <1>4
  <2> QED  BY <1>1, <1>3, <1>4, <2>1, SetFetcherWindow
<1>6. \A j : j \in InFlight' <=> j \in InFlight /\ j # i
  BY <1>4, <1>5 DEF InFlight
<1>7. /\ HasError => HasError'
      /\ NotOk => NotOk'
      /\ value = "error" => HasError'
  BY <1>1, <1>2, <1>4, <1>5 DEF HasError, NotOk
<1> QED  BY <1>5, <1>6, <1>7

\* expressInterest puts one more in flight.
LEMMA FlightExpress ==
    ASSUME WindowOK, NEW t \in Threads, Express(t)
    PROVE  /\ WindowOK' /\ (HasError => HasError') /\ (NotOk => NotOk')
           /\ \E i : i \notin InFlight /\ InFlight' = InFlight \cup {i}
<1>1. PICK where \in Expressed :
        window' = [window EXCEPT ![t] = Append(@, NewFetcher(Head(todo[t]), where))]
  BY DEF Express
<1> DEFINE f == NewFetcher(Head(todo[t]), where)
<1>2. f.net \in {"pending", "lost"} /\ f.task = <<>> /\ f \in Fetchers({f.seg})
  BY DEF Expressed, NewFetcher, Fetchers, Out
<1>3. window' = [window EXCEPT ![t] = Append(@, f)]
  BY <1>1
<1> HIDE DEF f
<1>4. WindowOK'
  BY <1>2, <1>3, AppendWindow
<1>5. PICK n \in Nat \ DOMAIN window[t] :
        /\ \A j : j \in Interests' <=> j \in Interests \/ j = <<t, n>>
        /\ \A j \in Interests : Fetcher(j)' = Fetcher(j)
        /\ Fetcher(<<t, n>>)' = f
  BY <1>2, <1>3, AppendWindow
<1>6. <<t, n>> \notin Interests
  BY InInterests
<1>7. <<t, n>> \notin InFlight /\ \A j : j \in InFlight' <=> j \in InFlight \/ j = <<t, n>>
  BY <1>2, <1>5, <1>6 DEF InFlight
<1>8. InFlight' = InFlight \cup {<<t, n>>}
  BY <1>7
<1>9. (HasError => HasError') /\ (NotOk => NotOk')
  BY <1>5 DEF HasError, NotOk
<1> QED  BY <1>4, <1>7, <1>8, <1>9

LEMMA FlightDestroy ==
    ASSUME WindowOK, window' = [t \in Threads |-> window'[t]],
           \A t \in Threads :
            /\ window'[t] = [k \in DOMAIN window[t] |-> window'[t][k]]
            /\ \A k \in DOMAIN window[t] :
                window'[t][k] = IF window[t][k].net = "pending"
                                THEN [window[t][k] EXCEPT !.net = "removed"] ELSE window[t][k]
    PROVE  WindowOK' /\ InFlight' \subseteq InFlight /\ (HasError => HasError') /\ (NotOk => NotOk')
<1>1. PICK segs : window \in [Threads -> Seq(Fetchers(segs))]
  BY DEF WindowOK
<1>2. ASSUME NEW g \in Fetchers(segs)
      PROVE  /\ [g EXCEPT !.net = "removed"] \in Fetchers(segs)
             /\ [g EXCEPT !.net = "removed"].task = g.task
             /\ [g EXCEPT !.net = "removed"].net = "removed"
  BY DEF Fetchers
<1>3. ASSUME NEW t \in Threads, NEW k \in DOMAIN window[t]
      PROVE  /\ window'[t][k] \in Fetchers(segs)
             /\ window'[t][k].task = window[t][k].task
             /\ window'[t][k].net = IF window[t][k].net = "pending" THEN "removed" ELSE window[t][k].net
  <2>1. window[t][k] \in Fetchers(segs)
    BY <1>1
  <2>2. CASE window[t][k].net = "pending"
    BY <1>2, <2>1, <2>2
  <2>3. CASE window[t][k].net # "pending"
    BY <2>1, <2>3
  <2> QED  BY <2>2, <2>3
<1>4. \A t \in Threads : DOMAIN window'[t] = DOMAIN window[t]
  OBVIOUS
<1>5. window' \in [Threads -> Seq(Fetchers(segs))]
  <2>1. ASSUME NEW t \in Threads PROVE window'[t] \in Seq(Fetchers(segs))
    <3>1. DOMAIN window[t] = 1..Len(window[t]) /\ Len(window[t]) \in Nat
      BY <1>1
    <3>2. window'[t] \in [1..Len(window[t]) -> Fetchers(segs)]
      BY <1>3, <3>1
    <3> QED  BY <3>1, <3>2, SeqDef
  <2> QED  BY <2>1
<1>6. \A j : j \in Interests' <=> j \in Interests
  BY <1>4 DEF Interests
<1>7. ASSUME NEW j \in Interests
      PROVE  /\ Fetcher(j)'.task = Fetcher(j).task
             /\ Fetcher(j)'.net = IF Fetcher(j).net = "pending" THEN "removed" ELSE Fetcher(j).net
  <2>1. PICK u \in Threads : \E l \in DOMAIN window[u] : j = <<u, l>>
    BY InInterests
  <2>2. PICK l \in DOMAIN window[u] : j = <<u, l>>
    BY <2>1
  <2>3. Fetcher(j) = window[u][l] /\ Fetcher(j)' = window'[u][l]
    BY <2>2 DEF Fetcher
  <2> QED  BY <1>3, <2>3
<1>8. CalledWhenSettled'
  BY <1>6, <1>7 DEF CalledWhenSettled, WindowOK
<1>9. \A j : j \in InFlight' => j \in InFlight
  BY <1>6, <1>7 DEF InFlight
<1>10. (HasError => HasError') /\ (NotOk => NotOk')
  BY <1>6, <1>7 DEF HasError, NotOk
<1> QED  BY <1>5, <1>8, <1>9, <1>10 DEF WindowOK

-----------------------------------------------------------------------------
(* The invariant.                                                           *)

\* The labels of insert between taking m_mtxWindow and giving it back.
Holding == {"check", "block", "enter", "express", "count"}

Labels ==
    {"main", "start", "insert", "woken", "waiting", "await", "aborted", "join", "leave", "done", "new",
     "next", "write"} \cup Holding

LockOK ==
    /\ pc \in [Threads -> Labels]
    /\ \A t \in Threads : pc[t] \in Holding <=> mutex = t

\* The readers start after the file was opened, and nothing happens before the
\* face thread is there.
StartOK ==
    /\ pc[Main] \notin {"join", "leave", "done"} => \A t \in Readers : pc[t] = "new"
    /\ pc[Main] \in {"main", "start"} => ~stopped /\ ~faceUp /\ face = "idle" /\ InFlight = {}

\* What the counter should say: a callback of the face may not have got to it.
Due == Cardinality(InFlight) + (IF face \in {"success", "failure"} THEN 1 ELSE 0)

\* A thread has expressed its Interest and not counted it.
Counting == \E t \in Threads : pc[t] = "count"

SizesOK ==
    /\ IsFiniteSet(InFlight)
    /\ size \in Nat /\ size <= MaxSize
    /\ Cardinality(InFlight) <= size
    /\ windowSize \in 0 .. Word - 1

CountExact == ~stopped => windowSize = IF Counting THEN Pred(Due) ELSE Due

\* A thread that was let through finds room when it expresses its Interest.
RoomOK ==
    \A t \in Threads :
        pc[t] = "express" \/ (pc[t] = "enter" /\ ~stopped) => Cardinality(InFlight) < size

CounterOK == SizesOK /\ CountExact /\ RoomOK

\* The pipeline is stopped, and calls are turned away, for a reason.
AbortsOK ==
    /\ face = "failure" => HasError
    /\ stopped \/ (\E t \in Threads : pc[t] = "aborted") => ~faceUp \/ HasError

ConsumerInv == WindowOK /\ LockOK /\ StartOK /\ CounterOK /\ AbortsOK

LEMMA MainIsThread ==
    /\ Main \in Threads /\ Main \notin Readers /\ NoThread \notin Threads
    /\ \A t \in Threads : t = Main \/ t \in Readers
    /\ \A t \in Readers : t \in Threads
BY ConsumerAssumption, XrdNdnAssumption

LEMMA SizesFit ==
    /\ Word \in Nat \ {0} /\ MaxSize \in Nat /\ MaxSize + 1 < Word
    /\ DefaultSize \in Nat /\ DefaultSize <= MaxSize
    /\ \A n : Accepted(n) => n \in Nat /\ n <= MaxSize
<1>1. {MinSize, MaxSize, NThreads, P, BSize} \subseteq Nat \ {0} /\ FileSize \in Nat
      /\ DefaultSize \in MinSize .. MaxSize /\ Word > FileSize + P + BSize + MaxSize
  BY ConsumerAssumption
<1>2. Word \in Nat \ {0}
  BY XrdNdnAssumption
<1> QED  BY <1>1, <1>2 DEF Accepted

\* The invariant holds initially.
LEMMA ConsumerInit == Init => ConsumerInv
<1> SUFFICES ASSUME Init PROVE ConsumerInv  OBVIOUS
<1> USE DEF Init
<1>1. Interests = {}
  <2>1. \A i : i \notin Interests
    BY InInterests
  <2> QED  BY <2>1
<1>2. InFlight = {}
  BY <1>1 DEF InFlight
<1>3. WindowOK
  <2>1. window \in [Threads -> Seq(Fetchers({}))]
    OBVIOUS
  <2> QED  BY <1>1, <2>1 DEF WindowOK, CalledWhenSettled
<1>4. LockOK
  <2>1. pc \in [Threads -> Labels] /\ \A t \in Threads : pc[t] \notin Holding
    BY DEF Holding, Labels
  <2>2. \A t \in Threads : mutex # t
    BY MainIsThread
  <2> QED  BY <2>1, <2>2 DEF LockOK
<1>5. StartOK
  BY <1>2, MainIsThread DEF StartOK
<1>6. CounterOK
  BY <1>2, FS_EmptySet, SizesFit DEF CounterOK, SizesOK, CountExact, RoomOK, Counting, Due
<1>7. AbortsOK
  BY DEF AbortsOK
<1> QED  BY <1>3, <1>4, <1>5, <1>6, <1>7 DEF ConsumerInv

\* The invariant implies the properties of the window.
LEMMA InvImplies == ConsumerInv => CounterIsExact /\ TaskCalledOnce /\ AbortsAreJustified
<1> SUFFICES ASSUME ConsumerInv PROVE CounterIsExact /\ TaskCalledOnce /\ AbortsAreJustified
  OBVIOUS
<1>1. CounterIsExact
  <2> SUFFICES ASSUME NEW t \in Threads, pc[t] = "check", ~stopped PROVE windowSize = Due
    BY DEF ConsumerInv, CounterOK, SizesOK, CounterIsExact, Due
  <2>1. ~Counting
    BY DEF ConsumerInv, LockOK, Holding, Counting
  <2> QED  BY <2>1 DEF ConsumerInv, CounterOK, CountExact
<1>2. TaskCalledOnce
  <2> SUFFICES ASSUME NEW i \in Interests PROVE Len(Fetcher(i).task) <= 1
    BY DEF TaskCalledOnce
  <2>1. CASE Len(Fetcher(i).task) = 1
    BY <2>1
  <2>2. CASE Fetcher(i).task = <<>>
    <3>1. Len(Fetcher(i).task) = 0
      BY <2>2
    <3> QED  BY <3>1
  <2> QED  BY <2>1, <2>2 DEF ConsumerInv, WindowOK, CalledWhenSettled
<1>3. AbortsAreJustified
  BY DEF ConsumerInv, AbortsOK, AbortsAreJustified, HasError
<1> QED  BY <1>1, <1>2, <1>3

-----------------------------------------------------------------------------
(* Steps of the calling threads.                                            *)

\* A thread that is under way is not Main before the face is there, nor a
\* reader before the file is open.
LEMMA StartGoto ==
    ASSUME LockOK, StartOK, NEW t \in Threads, NEW label,
           pc[t] \notin {"new", "main", "start", "join", "leave", "done"},
           label \notin {"main", "start"}, pc' = [pc EXCEPT ![t] = label]
    PROVE  StartOK'
<1>1. CASE t = Main
  BY <1>1, MainIsThread DEF StartOK, LockOK
<1>2. CASE t \in Readers
  <2>1. pc[Main] \in {"join", "leave", "done"} /\ pc'[Main] = pc[Main]
    BY <1>2, MainIsThread DEF StartOK, LockOK
  <2> QED  BY <2>1 DEF StartOK
<1> QED  BY <1>1, <1>2, MainIsThread

\* The counter stays right when what it should say does not change.
LEMMA CountSame ==
    ASSUME CountExact, Due' = Due, Counting' <=> Counting, windowSize' = windowSize,
           ~stopped' => ~stopped
    PROVE  CountExact'
<1>1. CASE stopped'
  BY <1>1 DEF CountExact
<1>2. CASE ~stopped' /\ Counting
  <2>1. windowSize = Pred(Due)
    BY <1>2 DEF CountExact
  <2>2. windowSize' = Pred(Due)' /\ Counting'
    BY <1>2, <2>1 DEF Pred
  <2> QED  BY <2>2 DEF CountExact
<1>3. CASE ~stopped' /\ ~Counting
  <2>1. windowSize' = Due' /\ ~Counting'
    BY <1>3 DEF CountExact
  <2> QED  BY <2>1 DEF CountExact
<1> QED  BY <1>1, <1>2, <1>3

\* Nor does the room in the window go while no Interest is expressed.
LEMMA RoomSame ==
    ASSUME RoomOK, IsFiniteSet(InFlight), InFlight' \subseteq InFlight, size \in Nat, size' = size,
           ~stopped' => ~stopped,
           \A t \in Threads : pc'[t] \in {"express", "enter"} => pc'[t] = pc[t]
    PROVE  RoomOK'
<1> SUFFICES ASSUME NEW t \in Threads, pc'[t] = "express" \/ (pc'[t] = "enter" /\ ~stopped')
             PROVE  Cardinality(InFlight)' < size'
  BY DEF RoomOK
<1>1. Cardinality(InFlight) < size
  BY DEF RoomOK
<1>2. Cardinality(InFlight)' <= Cardinality(InFlight)
      /\ Cardinality(InFlight) \in Nat /\ Cardinality(InFlight)' \in Nat
  BY FS_Subset, FS_CardinalityType
<1> QED  BY <1>1, <1>2

\* A step that moves threads outside of insert, and nothing else; the face
\* thread may be through with its callback.
LEMMA QuietStep ==
    ASSUME ConsumerInv, UNCHANGED <<size, mutex, windowSize, stopped, faceUp, window>>,
           face' = face \/ (face \notin {"success", "failure"} /\ face' = "idle"),
           pc' \in [Threads -> Labels], StartOK',
           \A t \in Threads : pc'[t] = pc[t]
                \/ (pc[t] \notin Holding /\ pc'[t] \notin Holding \cup {"aborted"})
    PROVE  ConsumerInv'
<1>1. InFlight' = InFlight /\ HasError' = HasError /\ WindowOK'
  BY DEF ConsumerInv, InFlight, Interests, Fetcher, HasError, WindowOK, CalledWhenSettled
<1>2. LockOK'
  BY DEF ConsumerInv, LockOK
<1>3. Counting' <=> Counting
  BY DEF Counting, Holding
<1>4. \A t \in Threads :
        /\ pc'[t] = "express" => pc[t] = "express"
        /\ pc'[t] = "enter" => pc[t] = "enter"
        /\ pc'[t] = "aborted" => pc[t] = "aborted"
  BY DEF Holding
<1>5. CounterOK'
  <2>1. Due' = Due
    BY <1>1 DEF Due
  <2>2. SizesOK'
    BY <1>1 DEF ConsumerInv, CounterOK, SizesOK
  <2>3. CountExact'
    BY <1>3, <2>1, CountSame DEF ConsumerInv, CounterOK
  <2>4. RoomOK'
    <3>1. RoomOK /\ IsFiniteSet(InFlight) /\ InFlight' \subseteq InFlight /\ size \in Nat
      BY <1>1 DEF ConsumerInv, CounterOK, SizesOK
    <3>2. ASSUME NEW t \in Threads, pc'[t] \in {"express", "enter"} PROVE pc'[t] = pc[t]
      <4>1. pc'[t] \in Holding
        BY <3>2 DEF Holding
      <4> QED  BY <4>1
    <3> QED  BY <3>1, <3>2, RoomSame
  <2> QED  BY <2>2, <2>3, <2>4 DEF CounterOK
<1>6. AbortsOK'
  BY <1>1, <1>4 DEF ConsumerInv, AbortsOK
<1> QED  BY <1>1, <1>2, <1>5, <1>6 DEF ConsumerInv

\* A thread takes, passes on or gives back the lock without touching the
\* window or the counter.
LEMMA LockStep ==
    ASSUME ConsumerInv, NEW t \in Threads, NEW label \in Labels,
           UNCHANGED <<size, windowSize, stopped, faceUp, face, window>>,
           pc' = [pc EXCEPT ![t] = label],
           pc[t] \notin {"new", "main", "start", "join", "leave", "done", "count"},
           label \notin {"main", "start", "count"},
           \/ mutex = NoThread /\ mutex' = t /\ label \in Holding
           \/ mutex = t /\ mutex' = t /\ label \in Holding
           \/ mutex = t /\ mutex' = NoThread /\ label \notin Holding,
           label = "express" \/ (label = "enter" /\ ~stopped) => Cardinality(InFlight) < size,
           label = "aborted" => stopped
    PROVE  ConsumerInv'
<1>1. InFlight' = InFlight /\ HasError' = HasError /\ WindowOK'
  BY DEF ConsumerInv, InFlight, Interests, Fetcher, HasError, WindowOK, CalledWhenSettled
<1>2. pc \in [Threads -> Labels] /\ \A u \in Threads : pc'[u] = IF u = t THEN label ELSE pc[u]
  BY DEF ConsumerInv, LockOK
<1>3. LockOK'
  BY <1>2, MainIsThread DEF ConsumerInv, LockOK
<1>4. StartOK'
  BY StartGoto DEF ConsumerInv
<1>5. Counting' <=> Counting
  BY <1>2 DEF Counting
<1>6. CounterOK'
  <2>1. Due' = Due
    BY <1>1 DEF Due
  <2>2. SizesOK'
    BY <1>1 DEF ConsumerInv, CounterOK, SizesOK
  <2>3. CountExact'
    BY <1>5, <2>1, CountSame DEF ConsumerInv, CounterOK
  <2>4. RoomOK'
    BY <1>1, <1>2 DEF ConsumerInv, CounterOK, RoomOK
  <2> QED  BY <2>2, <2>3, <2>4 DEF CounterOK
<1>7. AbortsOK'
  BY <1>1, <1>2 DEF ConsumerInv, AbortsOK
<1> QED  BY <1>1, <1>3, <1>4, <1>6, <1>7 DEF ConsumerInv

\* A thread takes the mutex of insert.
LEMMA LockInv == ASSUME ConsumerInv, NEW t \in Threads, Lock(t) PROVE ConsumerInv'
BY LockStep DEF Lock, Goto, Holding, Labels, threadVars, faceVars

\* The predicate holds: there is room, unless the pipeline is stopped.
LEMMA CheckInv == ASSUME ConsumerInv, NEW t \in Threads, Check(t) PROVE ConsumerInv'
<1>1. /\ pc[t] = "check" /\ UNCHANGED <<size, mutex, windowSize, stopped, faceUp, face, window>>
      /\ pc' = [pc EXCEPT ![t] = IF windowSize < size \/ stopped THEN "enter" ELSE "block"]
  BY DEF Check, Goto, threadVars, faceVars
<1>2. mutex = t
  BY <1>1 DEF ConsumerInv, LockOK, Holding
<1>3. windowSize < size /\ ~stopped => Cardinality(InFlight) < size
  <2>1. ~stopped => windowSize = Due
    BY <1>1, InvImplies DEF CounterIsExact, Due
  <2>2. Cardinality(InFlight) \in Nat /\ size \in Nat
    BY FS_CardinalityType DEF ConsumerInv, CounterOK, SizesOK
  <2> QED  BY <2>1, <2>2 DEF Due
<1>4. CASE windowSize < size \/ stopped
  <2>1. pc' = [pc EXCEPT ![t] = "enter"]
    BY <1>1, <1>4
  <2>2. "enter" \in Labels /\ "enter" \in Holding
    BY DEF Labels, Holding
  <2>3. ~stopped => Cardinality(InFlight) < size
    BY <1>3, <1>4
  <2> QED  BY <1>1, <1>2, <2>1, <2>2, <2>3, LockStep
<1>5. CASE ~(windowSize < size \/ stopped)
  <2>1. pc' = [pc EXCEPT ![t] = "block"]
    BY <1>1, <1>5
  <2>2. "block" \in Labels /\ "block" \in Holding
    BY DEF Labels, Holding
  <2> QED  BY <1>1, <1>2, <2>1, <2>2, LockStep
<1> QED  BY <1>4, <1>5

\* A thread that found the window full goes to sleep.
LEMMA BlockInv == ASSUME ConsumerInv, NEW t \in Threads, Block(t) PROVE ConsumerInv'
<1>1. /\ mutex = t /\ mutex' = NoThread /\ pc[t] = "block" /\ pc' = [pc EXCEPT ![t] = "waiting"]
      /\ UNCHANGED <<size, windowSize, stopped, faceUp, face, window>>
  BY DEF Block, Goto, ConsumerInv, LockOK, Holding, threadVars, faceVars
<1>2. "waiting" \in Labels /\ "waiting" \notin Holding
  BY DEF Labels, Holding
<1> QED  BY <1>1, <1>2, LockStep

\* A thread that found room goes on, unless the pipeline was stopped.
LEMMA EnterInv == ASSUME ConsumerInv, NEW t \in Threads, Enter(t) PROVE ConsumerInv'
<1>1. mutex = t /\ pc[t] = "enter" /\ UNCHANGED <<size, windowSize, stopped, faceUp, face, window>>
  BY DEF Enter, ConsumerInv, LockOK, Holding, threadVars, faceVars
<1>2. CASE stopped
  BY <1>1, <1>2, LockStep DEF Enter, Goto, Holding, Labels
<1>3. CASE ~stopped
  <2>1. Cardinality(InFlight) < size
    BY <1>1, <1>3 DEF ConsumerInv, CounterOK, RoomOK
  <2> QED  BY <1>1, <1>3, <2>1, LockStep DEF Enter, Goto, Holding, Labels
<1> QED  BY <1>2, <1>3

\* A thread expresses its Interest, which is not counted yet.
LEMMA ExpressInv == ASSUME ConsumerInv, NEW t \in Threads, Express(t) PROVE ConsumerInv'
<1>1. /\ pc[t] = "express" /\ pc' = [pc EXCEPT ![t] = "count"]
      /\ UNCHANGED <<size, mutex, windowSize, stopped, faceUp, face>>
  BY DEF Express, Goto, threadVars, faceVars
<1>2. /\ pc \in [Threads -> Labels] /\ mutex = t
      /\ \A u \in Threads : pc'[u] = IF u = t THEN "count" ELSE pc[u]
      /\ \A u \in Threads : u # t => pc[u] \notin Holding
  BY <1>1 DEF ConsumerInv, LockOK, Holding
<1>3. WindowOK' /\ (HasError => HasError') /\ \E i : i \notin InFlight /\ InFlight' = InFlight \cup {i}
  BY FlightExpress DEF ConsumerInv
<1>4. LockOK'
  <2>1. "count" \in Labels /\ "count" \in Holding
    BY DEF Labels, Holding
  <2> QED  BY <1>1, <1>2, <2>1 DEF ConsumerInv, LockOK
<1>5. StartOK'
  BY <1>1, StartGoto DEF ConsumerInv
<1>6. /\ IsFiniteSet(InFlight)' /\ Cardinality(InFlight)' = Cardinality(InFlight) + 1
      /\ Cardinality(InFlight) \in Nat /\ size \in Nat /\ Cardinality(InFlight) < size
  <2>1. IsFiniteSet(InFlight) /\ size \in Nat /\ Cardinality(InFlight) < size
    BY <1>1 DEF ConsumerInv, CounterOK, SizesOK, RoomOK
  <2> QED  BY <1>3, <2>1, FS_AddElement, FS_CardinalityType
<1>7. SizesOK'
  BY <1>1, <1>6 DEF ConsumerInv, CounterOK, SizesOK
<1>8. CountExact'
  <2>1. ~Counting /\ Counting'
    BY <1>1, <1>2 DEF Counting, Holding
  <2>2. Due' = Due + 1 /\ Due \in Nat
    BY <1>1, <1>6 DEF Due
  <2>3. Pred(Due)' = Due
    BY <2>2 DEF Pred
  <2> QED  BY <1>1, <2>1, <2>3 DEF ConsumerInv, CounterOK, CountExact
<1>9. RoomOK'
  BY <1>2 DEF RoomOK, Holding
<1>10. AbortsOK'
  <2>1. \A u \in Threads : pc'[u] = "aborted" => pc[u] = "aborted"
    BY <1>2
  <2> QED  BY <1>1, <1>3, <2>1 DEF ConsumerInv, AbortsOK
<1> QED  BY <1>3, <1>4, <1>5, <1>7, <1>8, <1>9, <1>10 DEF ConsumerInv, CounterOK

\* The slot is counted last: only then is the counter what it should be.
LEMMA CountInv == ASSUME ConsumerInv, NEW t \in Threads, Count(t) PROVE ConsumerInv'
<1>0. PICK label \in {"await", "insert"} : pc' = [pc EXCEPT ![t] = label]
  BY DEF Count, Goto
<1>1. /\ pc[t] = "count" /\ mutex' = NoThread /\ windowSize' = (windowSize + 1) % Word
      /\ UNCHANGED <<size, stopped, faceUp, face, window>>
  BY DEF Count, faceVars
<1>2. /\ pc \in [Threads -> Labels] /\ mutex = t
      /\ \A u \in Threads : pc'[u] = IF u = t THEN label ELSE pc[u]
      /\ \A u \in Threads : u # t => pc[u] \notin Holding
  BY <1>0, <1>1 DEF ConsumerInv, LockOK, Holding
<1>3. InFlight' = InFlight /\ HasError' = HasError /\ WindowOK'
  BY <1>1 DEF ConsumerInv, InFlight, Interests, Fetcher, HasError, WindowOK, CalledWhenSettled
<1>4. LockOK'
  <2>1. label \in Labels /\ label \notin Holding
    BY DEF Labels, Holding
  <2> QED  BY <1>0, <1>1, <1>2, <2>1, MainIsThread DEF ConsumerInv, LockOK
<1>5. StartOK'
  BY <1>0, <1>1, StartGoto DEF ConsumerInv
<1>6. /\ IsFiniteSet(InFlight) /\ Cardinality(InFlight) \in Nat
      /\ Cardinality(InFlight) <= size /\ size \in Nat /\ size <= MaxSize
      /\ windowSize \in 0 .. Word - 1
  BY FS_CardinalityType DEF ConsumerInv, CounterOK, SizesOK
<1>7. windowSize' = IF windowSize + 1 = Word THEN 0 ELSE windowSize + 1
  BY <1>1, <1>6, SizesFit, ModSucc
<1>8. SizesOK'
  <2>1. windowSize' \in 0 .. Word - 1
    BY <1>6, <1>7, SizesFit
  <2> QED  BY <1>1, <1>3, <1>6, <2>1 DEF SizesOK
<1>9. CountExact'
  <2>1. Counting /\ ~Counting'
    BY <1>1, <1>2 DEF Counting, Holding
  <2>2. Due' = Due /\ Due \in 0 .. Word - 1
    BY <1>1, <1>3, <1>6, SizesFit DEF Due
  <2>3. windowSize = Pred(Due) => windowSize' = Due
    BY <1>6, <1>7, <2>2, SizesFit DEF Pred
  <2> QED  BY <1>1, <2>1, <2>2, <2>3 DEF ConsumerInv, CounterOK, CountExact
<1>10. RoomOK'
  BY <1>2 DEF RoomOK, Holding
<1>11. AbortsOK'
  <2>1. \A u \in Threads : pc'[u] = "aborted" => pc[u] = "aborted"
    BY <1>2
  <2> QED  BY <1>1, <1>3, <2>1 DEF ConsumerInv, AbortsOK
<1> QED  BY <1>3, <1>4, <1>5, <1>8, <1>9, <1>10, <1>11 DEF ConsumerInv, CounterOK

\* All steps of insert, the count at its end among them.
LEMMA InsertInv == ASSUME ConsumerInv, NEW t \in Threads, insert(t) PROVE ConsumerInv'
BY LockInv, CheckInv, BlockInv, EnterInv, ExpressInv, CountInv DEF insert

-----------------------------------------------------------------------------
(* Steps of the face thread.                                                *)

\* What a step of the face thread has to leave as it is.
LEMMA FaceStep ==
    ASSUME ConsumerInv, UNCHANGED <<pc, size, mutex>>, pc[Main] \notin {"main", "start"},
           WindowOK', InFlight' \subseteq InFlight, HasError => HasError',
           windowSize' \in 0 .. Word - 1, CountExact', ~stopped' => ~stopped,
           faceUp' => faceUp, face' = "failure" => HasError',
           stopped' => stopped \/ ~faceUp' \/ HasError'
    PROVE  ConsumerInv'
<1>1. LockOK' /\ StartOK'
  BY MainIsThread DEF ConsumerInv, LockOK, StartOK
<1>2. IsFiniteSet(InFlight) /\ size \in Nat /\ size <= MaxSize /\ Cardinality(InFlight) <= size
  BY DEF ConsumerInv, CounterOK, SizesOK
<1>3. /\ IsFiniteSet(InFlight)' /\ Cardinality(InFlight)' <= Cardinality(InFlight)
      /\ Cardinality(InFlight)' \in Nat /\ Cardinality(InFlight) \in Nat
  BY <1>2, FS_Subset, FS_CardinalityType
<1>4. SizesOK'
  BY <1>2, <1>3 DEF SizesOK
<1>5. RoomOK'
  BY <1>2, RoomSame DEF ConsumerInv, CounterOK
<1>6. AbortsOK'
  BY DEF ConsumerInv, AbortsOK
<1> QED  BY <1>1, <1>4, <1>5, <1>6 DEF ConsumerInv, CounterOK

\* The face runs only after the start.
LEMMA FaceStarted ==
    ASSUME ConsumerInv, faceUp \/ face # "idle" PROVE pc[Main] \notin {"main", "start"}
BY DEF ConsumerInv, StartOK

\* The callback is between the future and the counter: what is due is the same.
LEMMA SettleInv ==
    ASSUME ConsumerInv, faceUp, face = "idle", NEW i \in InFlight,
           NEW value \in {"ok", "nack", "error"}, NEW then \in {"success", "failure"},
           Settle(i, value, then), then = "failure" => value = "error"
    PROVE  ConsumerInv' /\ (NotOk => NotOk')
<1>1. UNCHANGED <<pc, size, mutex, windowSize, stopped, faceUp>> /\ face' = then
  BY DEF Settle, threadVars
<1>2. /\ WindowOK' /\ InFlight' = InFlight \ {i} /\ (HasError => HasError') /\ (NotOk => NotOk')
      /\ value = "error" => HasError'
  BY FlightSettle DEF ConsumerInv
<1>3. IsFiniteSet(InFlight) /\ windowSize \in 0 .. Word - 1 /\ CountExact
  BY DEF ConsumerInv, CounterOK, SizesOK
<1>4. Cardinality(InFlight)' = Cardinality(InFlight) - 1 /\ Cardinality(InFlight) \in Nat
  BY <1>2, <1>3, FS_RemoveElement, FS_CardinalityType
<1>5. Due' = Due
  BY <1>1, <1>4 DEF Due
<1>6. CountExact'
  <2>1. Counting' <=> Counting
    BY <1>1 DEF Counting
  <2> QED  BY <1>1, <1>3, <1>5, <2>1, CountSame
<1> QED  BY <1>1, <1>2, <1>3, <1>6, FaceStarted, FaceStep

\* The Interest stays in flight.
LEMMA RetryInv ==
    ASSUME ConsumerInv, faceUp, NEW i \in InFlight, NEW f, f \in Fetchers({f.seg}),
           f.task = <<>>, NEW places, places \subseteq Out, Retry(i, f, places)
    PROVE  ConsumerInv' /\ (NotOk => NotOk')
<1>1. UNCHANGED <<pc, size, mutex, windowSize, stopped, faceUp, face>>
  BY DEF Retry, threadVars, faceVars
<1>2. PICK where \in places : SetFetcher(i, [f EXCEPT !.net = where])
  BY DEF Retry
<1> DEFINE g == [f EXCEPT !.net = where]
<1>3. g \in Fetchers({g.seg}) /\ g.net \in Out /\ g.task = <<>>
  BY DEF Fetchers, Out
<1>4. SetFetcher(i, g)
  BY <1>2
<1> HIDE DEF g
<1>5. WindowOK' /\ InFlight' = InFlight /\ (HasError => HasError') /\ (NotOk => NotOk')
  BY <1>3, <1>4, FlightRetry DEF ConsumerInv
<1>6. windowSize \in 0 .. Word - 1 /\ CountExact /\ AbortsOK
  BY DEF ConsumerInv, CounterOK, SizesOK
<1>7. CountExact'
  <2>1. (Counting' <=> Counting) /\ Due' = Due
    BY <1>1, <1>5 DEF Counting, Due
  <2> QED  BY <1>1, <1>6, <2>1, CountSame
<1>8. face' = "failure" => HasError'
  BY <1>1, <1>5, <1>6 DEF AbortsOK
<1> QED  BY <1>1, <1>5, <1>6, <1>7, <1>8, FaceStarted, FaceStep

\* What the network may answer is in flight.
LEMMA FetcherOut ==
    ASSUME WindowOK, NEW i \in Interests, Fetcher(i).net \in Out
    PROVE  /\ i \in InFlight /\ Fetcher(i).task = <<>>
           /\ Fetcher(i) \in Fetchers({Fetcher(i).seg})
<1>1. PICK segs : window \in [Threads -> Seq(Fetchers(segs))]
  BY DEF WindowOK
<1>2. PICK t \in Threads : \E k \in 1..Len(window[t]) : i = <<t, k>>
  BY <1>1, InInterests
<1>3. PICK k \in 1..Len(window[t]) : i = <<t, k>>
  BY <1>2
<1>4. Fetcher(i) \in Fetchers(segs)
  BY <1>1, <1>3 DEF Fetcher
<1>5. Fetcher(i) \in Fetchers({Fetcher(i).seg})
  BY <1>4 DEF Fetchers
<1>6. i \in InFlight
  BY DEF InFlight, Out
<1>7. Fetcher(i).task = <<>>
  BY DEF WindowOK, CalledWhenSettled, Out
<1> QED  BY <1>5, <1>6, <1>7

\* The counters of the retries.
LEMMA RetryCounted ==
    ASSUME NEW g, g \in Fetchers({g.seg}), g.task = <<>>
    PROVE  /\ [g EXCEPT !.nNacks = @ + 1] \in Fetchers({[g EXCEPT !.nNacks = @ + 1].seg})
           /\ [g EXCEPT !.nNacks = @ + 1].task = <<>>
           /\ [g EXCEPT !.nTimeouts = @ + 1] \in Fetchers({[g EXCEPT !.nTimeouts = @ + 1].seg})
           /\ [g EXCEPT !.nTimeouts = @ + 1].task = <<>>
BY DEF Fetchers

\* An answer, a timeout or a retry.
LEMMA AnswerInv ==
    ASSUME ConsumerInv, NEW i \in Interests, AnswerStep(i) PROVE ConsumerInv' /\ (NotOk => NotOk')
<1>1. faceUp /\ face = "idle" /\ Fetcher(i).net \in Out
  BY DEF AnswerStep, Answer, BackoffOver, handleData, handleNack, handleTimeout, Called, Out
<1> DEFINE g == Fetcher(i)
           gn == [g EXCEPT !.nNacks = @ + 1]
           gt == [g EXCEPT !.nTimeouts = @ + 1]
<1>2. i \in InFlight /\ g.task = <<>> /\ g \in Fetchers({g.seg})
  BY <1>1, FetcherOut DEF ConsumerInv
<1>3. /\ gn \in Fetchers({gn.seg}) /\ gn.task = <<>>
      /\ gt \in Fetchers({gt.seg}) /\ gt.task = <<>>
  <2> HIDE DEF g
  <2> QED  BY <1>2, RetryCounted
<1>4. Expressed \subseteq Out /\ {"backoff"} \subseteq Out
  BY DEF Expressed, Out
<1>5. CASE handleData(i)
  BY <1>1, <1>2, <1>5, SettleInv DEF handleData
<1>6. CASE Fail(i)
  BY <1>1, <1>2, <1>6, SettleInv DEF Fail
<1>7. CASE \E places : places \subseteq Out /\ Retry(i, gn, places)
  <2> HIDE DEF gn
  <2> QED  BY <1>1, <1>2, <1>3, <1>7, RetryInv
<1>8. CASE \E places : places \subseteq Out /\ Retry(i, gt, places)
  <2> HIDE DEF gt
  <2> QED  BY <1>1, <1>2, <1>3, <1>8, RetryInv
<1>9. CASE \E places : places \subseteq Out /\ Retry(i, g, places)
  <2> HIDE DEF g
  <2> QED  BY <1>1, <1>2, <1>9, RetryInv
<1>10. CASE handleNack(i)
  BY <1>4, <1>6, <1>7, <1>10 DEF handleNack, handleNackReason
<1>11. CASE handleTimeout(i)
  BY <1>4, <1>6, <1>8, <1>11 DEF handleTimeout
<1>12. CASE BackoffOver(i)
  BY <1>4, <1>9, <1>12 DEF BackoffOver
<1> QED  BY <1>5, <1>10, <1>11, <1>12 DEF AnswerStep, Answer

\* The callback takes the Interest off the counter.
LEMMA SuccessInv == ASSUME ConsumerInv, onTaskCompleteSuccess PROVE ConsumerInv'
<1>1. /\ face = "success" /\ face' \in {"idle", "notify_one"}
      /\ UNCHANGED <<pc, size, mutex, stopped, faceUp, window>>
      /\ windowSize' = IF stopped THEN windowSize ELSE (windowSize - 1) % Word
  BY DEF onTaskCompleteSuccess, threadVars
<1>2. InFlight' = InFlight /\ HasError' = HasError /\ WindowOK'
  BY <1>1 DEF ConsumerInv, InFlight, Interests, Fetcher, HasError, WindowOK, CalledWhenSettled
<1>3. /\ Cardinality(InFlight) \in Nat /\ size \in Nat /\ size <= MaxSize
      /\ Cardinality(InFlight) <= size /\ windowSize \in 0 .. Word - 1
  BY FS_CardinalityType DEF ConsumerInv, CounterOK, SizesOK
<1>4. ~stopped => windowSize' = Pred(windowSize)
  BY <1>1, <1>3, SizesFit, ModPred DEF Pred
<1>5. windowSize' \in 0 .. Word - 1
  BY <1>1, <1>3, <1>4, SizesFit DEF Pred
<1>6. CountExact'
  <2>1. CASE stopped
    BY <1>1, <2>1 DEF CountExact
  <2>2. CASE ~stopped
    <3>1. (Counting' <=> Counting) /\ Due' = Due - 1 /\ Due \in 1 .. Word - 1
      BY <1>1, <1>2, <1>3, SizesFit DEF Counting, Due
    <3>2. windowSize = IF Counting THEN Pred(Due) ELSE Due
      BY <2>2 DEF ConsumerInv, CounterOK, CountExact
    <3>3. Pred(Due) = Due' /\ Pred(Due)' = Pred(Pred(Due))
      BY <3>1 DEF Pred
    <3>4. CASE Counting
      <4>1. windowSize' = Pred(Due)' /\ Counting'
        BY <1>4, <2>2, <3>1, <3>2, <3>3, <3>4
      <4> QED  BY <4>1 DEF CountExact
    <3>5. CASE ~Counting
      <4>1. windowSize' = Due' /\ ~Counting'
        BY <1>4, <2>2, <3>1, <3>2, <3>3, <3>5
      <4> QED  BY <4>1 DEF CountExact
    <3> QED  BY <3>4, <3>5
  <2> QED  BY <2>1, <2>2
<1> QED  BY <1>1, <1>2, <1>5, <1>6, FaceStarted, FaceStep

\* The callback, or a face that fails, stops the pipeline.
LEMMA FailureInv ==
    ASSUME ConsumerInv, onTaskCompleteFailure \/ FaceFails PROVE ConsumerInv'
<1>1. /\ stopped' /\ UNCHANGED <<pc, size, mutex, windowSize, window>>
      /\ face' \in {"idle", "notify_all"} /\ (faceUp \/ face # "idle")
  BY DEF onTaskCompleteFailure, FaceFails, threadVars
<1>2. InFlight' = InFlight /\ HasError' = HasError /\ WindowOK'
  BY <1>1 DEF ConsumerInv, InFlight, Interests, Fetcher, HasError, WindowOK, CalledWhenSettled
<1>3. (faceUp' => faceUp) /\ (~faceUp' \/ HasError')
  <2>1. CASE onTaskCompleteFailure
    BY <1>2, <2>1 DEF onTaskCompleteFailure, ConsumerInv, AbortsOK
  <2>2. CASE FaceFails
    BY <2>2 DEF FaceFails
  <2> QED  BY <2>1, <2>2
<1>4. CountExact'
  BY <1>1 DEF CountExact
<1>5. windowSize' \in 0 .. Word - 1
  BY <1>1 DEF ConsumerInv, CounterOK, SizesOK
<1> QED  BY <1>1, <1>2, <1>3, <1>4, <1>5, FaceStarted, FaceStep

\* The callback wakes a thread.
LEMMA NotifyInv == ASSUME ConsumerInv, Notify PROVE ConsumerInv'
<1>1. /\ UNCHANGED <<size, mutex, windowSize, stopped, faceUp, window>>
      /\ face \in {"notify_one", "notify_all"} /\ face' = "idle"
  BY DEF Notify, threadVars
<1>2. pc \in [Threads -> Labels]
  BY DEF ConsumerInv, LockOK
<1>3. /\ pc' \in [Threads -> Labels]
      /\ \A t \in Threads : pc'[t] = pc[t] \/ (pc[t] = "waiting" /\ pc'[t] = "woken")
  <2>1. "woken" \in Labels
    BY DEF Labels
  <2>2. CASE NotifyOne
    BY <1>2, <2>1, <2>2 DEF NotifyOne, Goto
  <2>3. CASE NotifyAll
    BY <1>2, <2>1, <2>3 DEF NotifyAll
  <2> QED  BY <2>2, <2>3 DEF Notify
<1>4. StartOK'
  <2>1. pc[Main] \notin {"main", "start"}
    BY <1>1, FaceStarted
  <2>2. /\ \A t \in Threads : pc[t] = "new" => pc'[t] = "new"
        /\ pc'[Main] \notin {"main", "start"}
        /\ pc[Main] \in {"join", "leave", "done"} => pc'[Main] = pc[Main]
    BY <1>3, <2>1, MainIsThread
  <2> QED  BY <2>2, MainIsThread DEF ConsumerInv, StartOK
<1>5. \A t \in Threads : pc'[t] = pc[t]
            \/ (pc[t] \notin Holding /\ pc'[t] \notin Holding \cup {"aborted"})
  BY <1>3 DEF Holding
<1> QED  BY <1>1, <1>3, <1>4, <1>5, QuietStep

-----------------------------------------------------------------------------
(* Steps of the program.                                                    *)

\* One thread goes on, outside of insert.
LEMMA GotoQuiet ==
    ASSUME ConsumerInv, UNCHANGED <<size, mutex, windowSize, stopped, faceUp, face, window>>,
           NEW t \in Threads, NEW label \in {"insert", "leave", "write", "next", "done"},
           pc[t] \in {"await", "aborted", "next", "write"}, pc' = [pc EXCEPT ![t] = label]
    PROVE  ConsumerInv'
<1>1. label \in Labels /\ label \notin Holding \cup {"aborted"} /\ pc[t] \notin Holding
  BY DEF Labels, Holding
<1>2. pc' \in [Threads -> Labels] /\ \A u \in Threads : pc'[u] = IF u = t THEN label ELSE pc[u]
  BY <1>1 DEF ConsumerInv, LockOK
<1>3. StartOK'
  BY StartGoto DEF ConsumerInv
<1>4. \A u \in Threads : pc'[u] = pc[u]
            \/ (pc[u] \notin Holding /\ pc'[u] \notin Holding \cup {"aborted"})
  BY <1>1, <1>2
<1> QED  BY <1>2, <1>3, <1>4, QuietStep

\* The other steps of a reading thread.
LEMMA ReaderInv == ASSUME ConsumerInv, NEW t \in Readers, ReaderStep(t) PROVE ConsumerInv'
<1>0. t \in Threads
  BY MainIsThread
<1>1. CASE ReadBlock(t)
  BY <1>0, <1>1, GotoQuiet DEF ReadBlock, Request, Call, Goto, threadVars, faceVars
<1>2. CASE OssRead(t)
  BY <1>0, <1>2, GotoQuiet DEF OssRead, Request, Call, Goto, threadVars, faceVars
<1>3. ASSUME NEW o \in Outcomes, ReadEnds(t, o) PROVE ConsumerInv'
  <2>1. pc[t] \in {"await", "aborted"}
    BY <1>3 DEF ReadEnds, Ends
  <2>2. /\ UNCHANGED <<size, mutex, windowSize, stopped, faceUp, face, window>>
        /\ \E label \in {"write", "next", "done"} : pc' = [pc EXCEPT ![t] = label]
    BY <1>3 DEF ReadEnds, Goto, threadVars, faceVars
  <2> QED  BY <1>0, <2>1, <2>2, GotoQuiet
<1>4. CASE write(t)
  <2>1. /\ UNCHANGED <<size, mutex, windowSize, stopped, faceUp, face, window>> /\ pc[t] = "write"
        /\ pc' = [pc EXCEPT ![t] = "done"] \/ pc' = pc
    BY <1>4 DEF write, Goto, threadVars, faceVars
  <2>2. pc' = pc => pc' = [pc EXCEPT ![t] = "write"]
    BY <1>0, <2>1 DEF ConsumerInv, LockOK
  <2> QED  BY <1>0, <2>1, <2>2, GotoQuiet
<1> QED  BY <1>1, <1>2, <1>3, <1>4 DEF ReaderStep

\* Main moves and no other thread is under way, in insert or turned away.
LEMMA AloneStep ==
    ASSUME ConsumerInv, UNCHANGED <<mutex, windowSize, face, window>>,
           pc[Main] \in {"main", "start"}, NEW label \in {"start", "insert", "leave", "done"},
           pc' = [pc EXCEPT ![Main] = label], size' \in Nat, size' <= MaxSize,
           label = "start" => UNCHANGED <<stopped, faceUp>>,
           ~(stopped' /\ faceUp')
    PROVE  ConsumerInv'
<1>1. /\ ~stopped /\ ~faceUp /\ face = "idle" /\ InFlight = {}
      /\ \A t \in Readers : pc[t] = "new"
  BY DEF ConsumerInv, StartOK
<1>2. InFlight' = InFlight /\ HasError' = HasError /\ WindowOK'
  BY DEF ConsumerInv, InFlight, Interests, Fetcher, HasError, WindowOK, CalledWhenSettled
<1>3. /\ pc \in [Threads -> Labels]
      /\ pc'[Main] = label /\ \A t \in Readers : pc'[t] = "new"
  BY <1>1, MainIsThread DEF ConsumerInv, LockOK
<1>4. LockOK'
  <2>1. label \in Labels /\ \A t \in Threads : pc[t] \notin Holding /\ pc'[t] \notin Holding
    BY <1>1, <1>3, MainIsThread DEF Labels, Holding
  <2>2. pc' \in [Threads -> Labels]
    BY <1>3, <2>1
  <2> QED  BY <2>1, <2>2 DEF ConsumerInv, LockOK
<1>5. StartOK'
  BY <1>1, <1>2, <1>3 DEF StartOK
<1>6. ~Counting /\ ~Counting' /\ RoomOK'
  BY <1>1, <1>3, MainIsThread DEF Counting, RoomOK
<1>7. SizesOK'
  BY <1>1, <1>2, FS_EmptySet DEF ConsumerInv, CounterOK, SizesOK
<1>8. CountExact'
  <2>1. Due' = Due
    BY <1>2 DEF Due
  <2> QED  BY <1>1, <1>6, <2>1, CountSame DEF ConsumerInv, CounterOK
<1>9. AbortsOK'
  BY <1>1, <1>3, MainIsThread DEF AbortsOK
<1> QED  BY <1>2, <1>4, <1>5, <1>6, <1>7, <1>8, <1>9 DEF ConsumerInv, CounterOK

\* The steps of the programs before a request.
LEMMA StartInv ==
    ASSUME ConsumerInv, main \/ Configure \/ CopyOpen \/ OssOpen PROVE ConsumerInv'
<1>1. /\ pc[Main] \in {"main", "start"} /\ UNCHANGED <<mutex, windowSize, face, window>>
      /\ size \in Nat /\ size <= MaxSize /\ ~stopped /\ ~faceUp
  BY DEF main, Configure, CopyOpen, OssOpen, Construct, faceVars, ConsumerInv, StartOK,
         CounterOK, SizesOK
<1>2. CASE main
  <2>1. UNCHANGED <<stopped, faceUp>>
    BY <1>2 DEF main, faceVars
  <2>2. /\ size' \in Nat /\ size' <= MaxSize
        /\ pc' = [pc EXCEPT ![Main] = "start"] \/ pc' = [pc EXCEPT ![Main] = "done"]
    BY <1>1, <1>2, SizesFit DEF main, Goto
  <2> QED  BY <1>1, <2>1, <2>2, AloneStep
<1>3. CASE Configure
  <2>1. UNCHANGED <<stopped, faceUp>> /\ pc' = [pc EXCEPT ![Main] = "start"]
    BY <1>3 DEF Configure, Goto, faceVars
  <2>2. size' \in Nat /\ size' <= MaxSize
    BY <1>3, SizesFit DEF Configure
  <2> QED  BY <1>1, <2>1, <2>2, AloneStep
<1>4. CASE Construct
  <2>1. /\ size' = size
        /\ \/ pc' = [pc EXCEPT ![Main] = "leave"] /\ UNCHANGED faceUp
           \/ pc' = [pc EXCEPT ![Main] = "insert"] /\ UNCHANGED stopped
    BY <1>4 DEF Construct, Quit, Request, Call, Goto, threadVars
  <2> QED  BY <1>1, <2>1, AloneStep
<1> QED  BY <1>2, <1>3, <1>4 DEF CopyOpen, OssOpen

\* Open and Fstat return.
LEMMA EndsInv ==
    ASSUME ConsumerInv, NEW o \in Outcomes, OpenEnds(o) \/ FstatEnds(o) PROVE ConsumerInv'
<1>0. Main \in Threads
  BY MainIsThread
<1>1. /\ pc[Main] \in {"await", "aborted"}
      /\ UNCHANGED <<size, mutex, windowSize, stopped, faceUp, face, window>>
  BY DEF OpenEnds, FstatEnds, Ends, Request, Quit, threadVars, faceVars
<1>2. CASE \E label \in {"insert", "leave"} : pc' = [pc EXCEPT ![Main] = label]
  BY <1>0, <1>1, <1>2, GotoQuiet
<1>3. CASE pc' = [t \in Threads |-> IF t = Main THEN "join" ELSE "next"]
  <2>1. \A t \in Readers : pc[t] = "new"
    BY <1>1 DEF ConsumerInv, StartOK
  <2>2. pc' \in [Threads -> Labels]
    BY <1>3 DEF Labels
  <2>3. StartOK'
    BY <1>0, <1>3 DEF StartOK
  <2>4. \A t \in Threads : pc[t] \notin Holding /\ pc'[t] \notin Holding \cup {"aborted"}
    BY <1>1, <1>3, <2>1, MainIsThread DEF Holding
  <2> QED  BY <1>1, <2>2, <2>3, <2>4, QuietStep
<1> QED  BY <1>2, <1>3 DEF OpenEnds, FstatEnds, Request, Call, Quit, Goto

\* The copy joins its threads.
LEMMA JoinInv == ASSUME ConsumerInv, Join PROVE ConsumerInv'
<1>1. /\ pc[Main] = "join" /\ pc' = [pc EXCEPT ![Main] = "leave"]
      /\ UNCHANGED <<size, mutex, windowSize, stopped, faceUp, face, window>>
  BY DEF Join, Quit, Goto, threadVars, faceVars
<1>2. "leave" \in Labels /\ "leave" \notin Holding /\ "join" \notin Holding
  BY DEF Labels, Holding
<1>3. /\ pc' \in [Threads -> Labels] /\ pc'[Main] = "leave"
      /\ \A t \in Threads : t # Main => pc'[t] = pc[t]
  BY <1>1, <1>2, MainIsThread DEF ConsumerInv, LockOK
<1>4. StartOK'
  BY <1>3 DEF StartOK
<1>5. \A t \in Threads : pc'[t] = pc[t]
            \/ (pc[t] \notin Holding /\ pc'[t] \notin Holding \cup {"aborted"})
  BY <1>1, <1>2, <1>3
<1> QED  BY <1>1, <1>3, <1>4, <1>5, QuietStep

\* The destructor removes what is pending.
LEMMA DestroyInv == ASSUME ConsumerInv, Destroy PROVE ConsumerInv'
<1>1. /\ pc[Main] = "leave" /\ pc' = [pc EXCEPT ![Main] = "done"] /\ stopped' /\ ~faceUp'
      /\ UNCHANGED <<size, mutex, windowSize, face>>
      /\ window' = [t \in Threads |-> [k \in DOMAIN window[t] |->
            IF window[t][k].net = "pending"
            THEN [window[t][k] EXCEPT !.net = "removed"] ELSE window[t][k]]]
  BY DEF Destroy, Goto, threadVars
<1>2. WindowOK' /\ InFlight' \subseteq InFlight /\ (HasError => HasError')
  BY <1>1, FlightDestroy DEF ConsumerInv
<1>3. "done" \in Labels /\ "done" \notin Holding /\ "leave" \notin Holding
  BY DEF Labels, Holding
<1>4. /\ pc' \in [Threads -> Labels] /\ pc'[Main] = "done"
      /\ \A t \in Threads : t # Main => pc'[t] = pc[t]
  BY <1>1, <1>3, MainIsThread DEF ConsumerInv, LockOK
<1>5. LockOK'
  BY <1>1, <1>3, <1>4 DEF ConsumerInv, LockOK
<1>6. StartOK'
  BY <1>4 DEF StartOK
<1>7. IsFiniteSet(InFlight) /\ size \in Nat /\ size <= MaxSize /\ Cardinality(InFlight) <= size
      /\ windowSize \in 0 .. Word - 1
  BY DEF ConsumerInv, CounterOK, SizesOK
<1>8. /\ IsFiniteSet(InFlight)' /\ Cardinality(InFlight)' <= Cardinality(InFlight)
      /\ Cardinality(InFlight)' \in Nat /\ Cardinality(InFlight) \in Nat
  BY <1>2, <1>7, FS_Subset, FS_CardinalityType
<1>9. SizesOK'
  BY <1>1, <1>7, <1>8 DEF SizesOK
<1>10. CountExact'
  BY <1>1 DEF CountExact
<1>11. RoomOK'
  <2>1. \A t \in Threads : pc'[t] \in {"express", "enter"} => pc'[t] = pc[t]
    BY <1>4
  <2> QED  BY <1>1, <1>2, <1>7, <2>1, RoomSame DEF ConsumerInv, CounterOK
<1>12. AbortsOK'
  BY <1>1, <1>2 DEF ConsumerInv, AbortsOK
<1> QED  BY <1>2, <1>5, <1>6, <1>9, <1>10, <1>11, <1>12 DEF ConsumerInv, CounterOK

-----------------------------------------------------------------------------
(* All steps together.                                                      *)

\* Every step preserves the invariant.
LEMMA ConsumerStep == ConsumerInv /\ [Next]_vars => ConsumerInv'
<1> SUFFICES ASSUME ConsumerInv, [Next]_vars PROVE ConsumerInv'
  OBVIOUS
<1>1. ASSUME NEW t \in Threads, ThreadStep(t) PROVE ConsumerInv'
  <2>1. CASE insert(t)
    BY <2>1, InsertInv
  <2>2. CASE MainStep
    BY <2>2, StartInv, EndsInv, JoinInv, DestroyInv DEF MainStep
  <2>3. CASE t \in Readers /\ ReaderStep(t)
    BY <2>3, ReaderInv
  <2> QED  BY <1>1, <2>1, <2>2, <2>3 DEF ThreadStep
<1>2. ASSUME NEW i \in Interests, AnswerStep(i) PROVE ConsumerInv'
  BY <1>2, AnswerInv
<1>3. CASE Callback
  BY <1>3, SuccessInv, FailureInv, NotifyInv DEF Callback
<1>4. CASE FaceFails
  BY <1>4, FailureInv
<1>5. CASE UNCHANGED vars
  <2>1. UNCHANGED <<pc, size, mutex, windowSize, stopped, faceUp, face, window>>
    BY <1>5 DEF vars, pipelineVars
  <2>2. StartOK'
    <3>1. InFlight' = InFlight
      BY <2>1 DEF InFlight, Interests, Fetcher
    <3> QED  BY <2>1, <3>1 DEF ConsumerInv, StartOK
  <2>3. pc' \in [Threads -> Labels]
    BY <2>1 DEF ConsumerInv, LockOK
  <2> QED  BY <2>1, <2>2, <2>3, QuietStep
<1> QED  BY <1>1, <1>2, <1>3, <1>4, <1>5 DEF Next

\* The invariant of the window and its threads.
LEMMA ConsumerInvariant == Spec => []ConsumerInv
BY ConsumerInit, ConsumerStep, PTL DEF Spec

-----------------------------------------------------------------------------
(* What the reads return and the copy writes.                               *)

\* The labels of a reader that is in a call.
Calling == Holding \cup {"insert", "woken", "waiting", "await", "aborted"}

Failed == stopped \/ NotOk

\* What ReadEnds leaves in the contentStore.
Entry(off, len, outcome) ==
    [off |-> off, len |-> len, octets |-> IF outcome = "ok" THEN returnData(off, len) ELSE <<>>,
     ret |-> outcome]

Entries == {Entry(x[1], x[2], x[3]) : x \in Nat \X (Nat \ {0}) \X Outcomes}

\* A block of the file, cut at its end.
IsBlock(b) == b.off < FileSize /\ b.len = Lesser(BSize, FileSize - b.off)

\* Where the m-th block of reader t begins, and the octets in its blocks.
Start(t, m) == BSize * (t + NThreads * m)
Owned(t) == {p \in 0 .. FileSize - 1 : (p \div BSize) % NThreads = t}

ProgTypeOK ==
    /\ prog \in {"copy", "plugin"} /\ bad \in BOOLEAN
    /\ DOMAIN call = Threads
    /\ first \in [Threads -> Nat]
    /\ store \in [Readers -> Seq(Entries)]
    /\ offset \in [Readers -> Nat]

OffsetsOK == \A t \in Readers : \E m \in Nat : offset[t] = Start(t, m)

\* What is not the file's has its reason.
FailuresOK ==
    /\ \A t \in Threads : pc[t] = "aborted" => stopped
    /\ bad => Failed
    /\ \A t \in Readers : \A b \in ToSet(store[t]) : b.ret # "ok" => Failed

CallsOK ==
    \A t \in Readers : pc[t] \in Calling =>
        /\ call[t].off \in Nat /\ call[t].len \in Nat \ {0}
        /\ prog = "copy" => IsBlock(call[t]) /\ call[t].off = offset[t]

BlocksOK == \A t \in Readers : \A b \in ToSet(store[t]) : IsBlock(b)

\* The octets that a reader has passed are written or wait in its contentStore.
CoveredOK ==
    \A t \in Readers : \A p \in Owned(t) : p < offset[t] =>
        bad \/ p \in DOMAIN output \/ \E b \in ToSet(store[t]) : p \in b.off .. b.off + b.len - 1

\* A reader stops at the end of the file or after a failed read.
FinishedOK ==
    \A t \in Readers :
        /\ pc[t] \in {"write", "done"} =>
            offset[t] >= FileSize \/ bad \/ \E b \in ToSet(store[t]) : b.ret # "ok"
        /\ pc[t] = "done" => store[t] = <<>>

OutputOK == \A p \in DOMAIN output : p \in 0 .. FileSize - 1 /\ output[p] = p

ExitOK == exit = 0 => \A t \in Readers : pc[t] = "done"

CopyInv ==
    /\ ProgTypeOK /\ OffsetsOK /\ FailuresOK /\ CallsOK /\ OutputOK /\ ExitOK
    /\ prog = "copy" => BlocksOK /\ CoveredOK /\ FinishedOK
    /\ prog = "plugin" => \A t \in Readers : pc[t] # "write"

\* What a read that was called returned.
LEMMA EntryFields ==
    ASSUME NEW b \in Entries
    PROVE  /\ b.off \in Nat /\ b.len \in Nat \ {0}
           /\ b.ret = "ok" => b.octets = returnData(b.off, b.len)
<1>1. PICK x \in Nat \X (Nat \ {0}) \X Outcomes : b = Entry(x[1], x[2], x[3])
  BY DEF Entries
<1> QED  BY <1>1 DEF Entry

LEMMA EntryIn ==
    ASSUME NEW off, NEW len, NEW o, off \in Nat, len \in Nat \ {0}, o \in Outcomes
    PROVE  Entry(off, len, o) \in Entries
<1>1. <<off, len, o>> \in Nat \X (Nat \ {0}) \X Outcomes
  OBVIOUS
<1> QED  BY <1>1 DEF Entries

LEMMA ToSetIn == ASSUME NEW S, NEW s \in Seq(S), NEW b \in ToSet(s) PROVE b \in S
BY DEF ToSet

LEMMA ToSetAppend ==
    ASSUME NEW S, NEW s \in Seq(S), NEW e \in S
    PROVE  /\ Append(s, e) \in Seq(S)
           /\ \A b : b \in ToSet(Append(s, e)) <=> b \in ToSet(s) \/ b = e
<1>1. /\ Len(Append(s, e)) = Len(s) + 1 /\ Append(s, e) \in Seq(S) /\ Len(s) \in Nat
      /\ Append(s, e)[Len(s) + 1] = e
      /\ \A k \in 1 .. Len(s) : Append(s, e)[k] = s[k]
  OBVIOUS
<1>2. \A b : b \in ToSet(s) <=> \E k \in 1 .. Len(s) : b = s[k]
  BY DEF ToSet
<1>3. \A b : b \in ToSet(Append(s, e)) <=> \E k \in 1 .. Len(s) + 1 : b = Append(s, e)[k]
  BY <1>1 DEF ToSet
<1>4. \A k : k \in 1 .. Len(s) + 1 <=> k \in 1 .. Len(s) \/ k = Len(s) + 1
  BY <1>1
<1> QED  BY <1>1, <1>2, <1>3, <1>4

LEMMA ToSetTail ==
    ASSUME NEW S, NEW s \in Seq(S), s # <<>>
    PROVE  /\ Tail(s) \in Seq(S) /\ Head(s) \in S /\ Head(s) \in ToSet(s)
           /\ \A b : b \in ToSet(s) <=> b \in ToSet(Tail(s)) \/ b = Head(s)
<1>1. /\ Len(Tail(s)) = Len(s) - 1 /\ Tail(s) \in Seq(S) /\ Len(s) \in Nat \ {0}
      /\ Head(s) = s[1] /\ Head(s) \in S
      /\ \A k \in 1 .. Len(s) - 1 : Tail(s)[k] = s[k + 1]
  OBVIOUS
<1>2. \A b : b \in ToSet(s) <=> \E k \in 1 .. Len(s) : b = s[k]
  BY DEF ToSet
<1>3. \A b : b \in ToSet(Tail(s)) <=> \E k \in 1 .. Len(s) - 1 : b = s[k + 1]
  <2>1. DOMAIN Tail(s) = 1 .. Len(s) - 1
    BY <1>1
  <2>2. \A b : b \in ToSet(Tail(s)) <=> \E k \in 1 .. Len(s) - 1 : b = Tail(s)[k]
    BY <2>1 DEF ToSet
  <2> QED  BY <1>1, <2>2
<1>4. \A b : b \in ToSet(Tail(s)) => b \in ToSet(s)
  BY <1>1, <1>2, <1>3
<1>5. ASSUME NEW b \in ToSet(s), b # Head(s) PROVE b \in ToSet(Tail(s))
  <2>1. PICK k \in 1 .. Len(s) : b = s[k]
    BY <1>2
  <2>2. k - 1 \in 1 .. Len(s) - 1 /\ b = s[(k - 1) + 1]
    BY <1>1, <1>5, <2>1
  <2> QED  BY <1>3, <2>2
<1>6. Head(s) \in ToSet(s)
  BY <1>1, <1>2
<1> QED  BY <1>1, <1>4, <1>5, <1>6

LEMMA ToSetEmpty == ASSUME NEW b PROVE b \notin ToSet(<<>>)
BY DEF ToSet

-----------------------------------------------------------------------------

\* The blocks of a thread are a stride apart.
LEMMA StartNext ==
    ASSUME NEW t \in Int, NEW m \in Nat
    PROVE  Start(t, m + 1) = Start(t, m) + BSize * NThreads
BY Sizes DEF Start

\* The octets of a reader between two of its blocks are those of the first.
LEMMA OwnedBlock ==
    ASSUME NEW t \in Readers, NEW m \in Nat, NEW p \in Owned(t), NEW o, o = Start(t, m),
           o <= p, p < o + BSize * NThreads
    PROVE  p < o + BSize
<1>1. BSize \in Nat \ {0} /\ NThreads \in Nat \ {0} /\ FileSize \in Nat /\ t \in Nat
  BY Sizes DEF Readers
<1>2. p \in Nat /\ (p \div BSize) % NThreads = t
  BY <1>1 DEF Owned
<1>3. PICK k \in Nat : k = p \div BSize
  BY <1>1, <1>2, DivMod
<1>4. p < BSize * k + BSize /\ BSize * k <= p
  BY <1>1, <1>2, <1>3, DivMod
<1>5. PICK q \in Nat : k = NThreads * q + t
  <2>1. k = NThreads * (k \div NThreads) + (k % NThreads) /\ (k \div NThreads) \in Nat
    BY <1>1, DivMod
  <2> QED  BY <1>2, <1>3, <2>1
<1>6. PICK j \in Nat : j = t + NThreads * m
  BY <1>1
<1>7. o = BSize * j
  BY <1>6 DEF Start
<1>8. BSize * j < BSize * (k + 1) /\ BSize * k < BSize * (j + NThreads)
  <2>1. BSize * (k + 1) = BSize * k + BSize /\ BSize * (j + NThreads) = BSize * j + BSize * NThreads
    BY <1>1
  <2>2. {p, o, BSize * k, BSize * j, BSize * NThreads} \subseteq Int
    BY <1>1, <1>2, <1>7
  <2> QED  BY <1>1, <1>4, <1>7, <2>1, <2>2
<1>9. j < k + 1 /\ k < j + NThreads
  BY <1>1, <1>8
<1>10. NThreads * m < NThreads * q + 1 /\ NThreads * q < NThreads * m + NThreads
  BY <1>1, <1>5, <1>6, <1>9
<1>11. m <= q /\ q < m + 1
  <2>1. NThreads * q < NThreads * (m + 1)
    BY <1>1, <1>10
  <2>2. NThreads * m <= NThreads * q
    BY <1>1, <1>10
  <2> QED  BY <1>1, <2>1, <2>2
<1>12. k = j
  <2>1. m = q
    BY <1>11
  <2> QED  BY <1>1, <1>5, <1>6, <2>1
<1> QED  BY <1>1, <1>4, <1>7, <1>12

\* Every octet of the file is in a block of some thread.
LEMMA EveryOwned ==
    ASSUME NEW p \in 0 .. FileSize - 1
    PROVE  \E t \in Readers : p \in Owned(t)
<1>1. BSize \in Nat \ {0} /\ NThreads \in Nat \ {0} /\ FileSize \in Nat
  BY Sizes
<1>2. PICK k \in Nat : k = p \div BSize
  BY <1>1, DivMod
<1>3. k % NThreads \in 0 .. NThreads - 1
  BY <1>1, DivMod
<1> QED  BY <1>2, <1>3 DEF Owned, Readers

-----------------------------------------------------------------------------

\* A thread has nothing before its first block.
LEMMA FirstBlock ==
    ASSUME NEW t \in Readers, NEW p \in Owned(t)
    PROVE  BSize * t <= p
<1>1. BSize \in Nat \ {0} /\ NThreads \in Nat \ {0} /\ FileSize \in Nat /\ t \in Nat
  BY Sizes DEF Readers
<1>2. p \in Nat /\ (p \div BSize) % NThreads = t
  BY <1>1 DEF Owned
<1>3. PICK k \in Nat : k = p \div BSize
  BY <1>1, <1>2, DivMod
<1>4. BSize * k <= p
  BY <1>1, <1>2, <1>3, DivMod
<1>5. PICK q \in Nat : k = NThreads * q + t
  <2>1. k = NThreads * (k \div NThreads) + (k % NThreads) /\ (k \div NThreads) \in Nat
    BY <1>1, DivMod
  <2> QED  BY <1>2, <1>3, <2>1
<1>6. NThreads * q \in Nat
  BY <1>1
<1>7. t <= k
  BY <1>1, <1>5, <1>6
<1>8. BSize * t <= BSize * k /\ BSize * t \in Int /\ BSize * k \in Int
  BY <1>1, <1>7
<1> QED  BY <1>2, <1>4, <1>8

\* The invariant of the copy holds initially.
LEMMA CopyInit == Init => CopyInv
<1> SUFFICES ASSUME Init PROVE CopyInv  OBVIOUS
<1>1. /\ prog \in {"copy", "plugin"} /\ first = [t \in Threads |-> 0]
      /\ pc = [t \in Threads |-> IF t = Main THEN "main" ELSE "new"]
      /\ offset = [t \in Readers |-> BSize * t] /\ store = [t \in Readers |-> <<>>]
      /\ output = <<>> /\ bad = FALSE /\ exit = -1 /\ DOMAIN call = Threads
  BY ConsumerAssumption DEF Init
<1>2. BSize \in Nat \ {0} /\ NThreads \in Nat \ {0}
  BY Sizes
<1>2a. \A t \in Readers : t \in Nat /\ BSize * t \in Nat
  BY <1>2 DEF Readers
<1>2b. \A t \in Readers : store[t] = <<>> /\ offset[t] = BSize * t /\ pc[t] = "new"
  BY <1>1, MainIsThread
<1>3. ProgTypeOK
  <2>1. offset \in [Readers -> Nat]
    BY <1>1, <1>2a
  <2>2. store \in [Readers -> Seq(Entries)]
    BY <1>1
  <2>3. first \in [Threads -> Nat]
    BY <1>1
  <2> QED  BY <1>1, <2>1, <2>2, <2>3 DEF ProgTypeOK
<1>4. OffsetsOK
  <2>1. ASSUME NEW t \in Readers PROVE BSize * t = Start(t, 0)
    <3>1. t + NThreads * 0 = t
      BY <1>2, <1>2a
    <3> QED  BY <3>1 DEF Start
  <2> QED  BY <1>2b, <2>1 DEF OffsetsOK
<1>5. FailuresOK
  <2>1. \A t \in Threads : pc[t] # "aborted"
    BY <1>1
  <2> QED  BY <1>1, <1>2b, <2>1, ToSetEmpty DEF FailuresOK
<1>6. CallsOK /\ FinishedOK /\ ExitOK /\ (\A t \in Readers : pc[t] # "write") /\ OutputOK
  BY <1>1, <1>2b DEF CallsOK, FinishedOK, ExitOK, OutputOK, Calling, Holding
<1>7. BlocksOK
  BY <1>2b, ToSetEmpty DEF BlocksOK
<1>8. CoveredOK
  <2> SUFFICES ASSUME NEW t \in Readers, NEW p \in Owned(t), p < offset[t] PROVE FALSE
    BY DEF CoveredOK
  <2>1. p \in Int /\ BSize * t <= p /\ BSize * t \in Int /\ p < BSize * t
    BY <1>2a, <1>2b, FirstBlock, Sizes DEF Owned
  <2> QED  BY <2>1
<1> QED  BY <1>3, <1>4, <1>5, <1>6, <1>7, <1>8 DEF CopyInv

\* A step that leaves what was read and written as it is.
LEMMA CopyFrame ==
    ASSUME CopyInv, UNCHANGED <<prog, offset, store, output, bad>>, first' \in [Threads -> Nat],
           DOMAIN call' = Threads, \A t \in Readers : call'[t] = call[t],
           stopped => stopped', NotOk => NotOk',
           \A t \in Readers :
                \/ pc'[t] = pc[t]
                \/ pc[t] \in Calling /\ pc'[t] \in Calling
                \/ pc[t] = "new" /\ pc'[t] = "next",
           \A t \in Threads : pc'[t] = "aborted" => pc[t] = "aborted" \/ stopped,
           exit' = 0 => exit = 0 \/ \A t \in Readers : pc[t] = "done"
    PROVE  CopyInv'
<1> USE DEF CopyInv
<1>1. ProgTypeOK' /\ OffsetsOK' /\ OutputOK'
  BY DEF ProgTypeOK, OffsetsOK, OutputOK
<1>2. Failed => Failed'
  BY DEF Failed
<1>3. FailuresOK'
  BY <1>2 DEF FailuresOK
<1>4. \A t \in Readers :
        /\ pc'[t] \in Calling => pc[t] \in Calling
        /\ pc'[t] \in {"write", "done"} => pc'[t] = pc[t]
        /\ pc[t] = "done" => pc'[t] = "done"
  BY DEF Calling, Holding
<1>5. CallsOK'
  BY <1>4 DEF CallsOK
<1>6. ExitOK'
  BY <1>4 DEF ExitOK
<1>7. (BlocksOK => BlocksOK') /\ (CoveredOK => CoveredOK') /\ (FinishedOK => FinishedOK')
  BY <1>4 DEF BlocksOK, CoveredOK, FinishedOK
<1>8. ASSUME prog' = "plugin", NEW t \in Readers PROVE pc'[t] # "write"
  BY <1>4, <1>8
<1> QED  BY <1>1, <1>3, <1>5, <1>6, <1>7, <1>8

LEMMA WindowLen == ASSUME WindowOK, NEW t \in Threads PROVE Len(window[t]) \in Nat /\ DOMAIN window[t] = 1 .. Len(window[t])
<1>1. PICK segs : window \in [Threads -> Seq(Fetchers(segs))]
  BY DEF WindowOK
<1> QED  BY <1>1

\* insert moves a thread from one of its labels to another.
LEMMA CopyInsert ==
    ASSUME ConsumerInv, CopyInv, NEW t \in Threads, insert(t), UNCHANGED progVars PROVE CopyInv'
<1>1. /\ UNCHANGED <<prog, offset, store, output, bad, call, exit, first, stopped>>
      /\ first \in [Threads -> Nat] /\ DOMAIN call = Threads
  BY DEF insert, Lock, Check, Block, Enter, Express, Count, progVars, threadVars, CopyInv, ProgTypeOK
<1>2. pc \in [Threads -> Labels] /\ WindowOK
  BY DEF ConsumerInv, LockOK
<1>3. NotOk => NotOk'
  <2>1. CASE Express(t)
    BY <1>2, <2>1, FlightExpress
  <2>2. CASE window' = window
    BY <2>2 DEF NotOk, Interests, Fetcher
  <2> QED  BY <2>1, <2>2 DEF insert, Lock, Check, Block, Enter, Count
<1>4. pc[t] \in Calling
  BY DEF insert, Lock, Check, Block, Enter, Express, Count, Calling, Holding
<1>5. \E label \in Calling : pc' = [pc EXCEPT ![t] = label] /\ (label = "aborted" => stopped)
  BY DEF insert, Lock, Check, Block, Enter, Express, Count, Goto, Calling, Holding
<1>6. PICK label \in Calling : pc' = [pc EXCEPT ![t] = label] /\ (label = "aborted" => stopped)
  BY <1>5
<1>7. \A u \in Threads : pc'[u] = IF u = t THEN label ELSE pc[u]
  BY <1>2, <1>6
<1> QED  BY <1>1, <1>3, <1>4, <1>6, <1>7, MainIsThread, CopyFrame

\* Nor do the steps of the face thread touch what was read.
LEMMA CopyFace ==
    ASSUME ConsumerInv, CopyInv, UNCHANGED progVars,
           (\E i \in Interests : AnswerStep(i)) \/ Callback \/ FaceFails
    PROVE  CopyInv'
<1>1. /\ UNCHANGED <<prog, offset, store, output, bad, call, exit>>
      /\ first \in [Threads -> Nat] /\ DOMAIN call = Threads
  BY DEF progVars, CopyInv, ProgTypeOK
<1>2. CASE \E i \in Interests : AnswerStep(i)
  <2>1. NotOk => NotOk'
    BY <1>2, AnswerInv
  <2>2. UNCHANGED <<pc, first, stopped>>
    BY <1>2 DEF AnswerStep, Answer, BackoffOver, handleData, handleNack, handleTimeout,
            handleNackReason, Retry, Fail, Settle, threadVars
  <2> QED  BY <1>1, <2>1, <2>2, CopyFrame
<1>3. CASE Callback \/ FaceFails
  <2>1. UNCHANGED <<first, window>> /\ (stopped => stopped')
    BY <1>3 DEF Callback, onTaskCompleteSuccess, onTaskCompleteFailure, Notify, FaceFails, threadVars
  <2>2. NotOk => NotOk'
    BY <2>1 DEF NotOk, Interests, Fetcher
  <2>3. pc \in [Threads -> Labels]
    BY DEF ConsumerInv, LockOK
  <2>4. \A t \in Threads : pc'[t] = pc[t] \/ (pc[t] = "waiting" /\ pc'[t] = "woken")
    BY <1>3, <2>3 DEF Callback, onTaskCompleteSuccess, onTaskCompleteFailure, Notify, FaceFails,
            NotifyOne, NotifyAll, Goto
  <2>5. {"waiting", "woken"} \subseteq Calling
    BY DEF Calling
  <2> QED  BY <1>1, <2>1, <2>2, <2>4, <2>5, MainIsThread, CopyFrame
<1> QED  BY <1>2, <1>3

\* The thread that opens the file starts the readers and waits for them.
LEMMA CopyMain == ASSUME ConsumerInv, CopyInv, MainStep PROVE CopyInv'
<1>1. /\ first \in [Threads -> Nat] /\ DOMAIN call = Threads /\ WindowOK
      /\ pc \in [Threads -> Labels] /\ Len(window[Main]) \in Nat
  BY MainIsThread, WindowLen DEF CopyInv, ProgTypeOK, ConsumerInv, LockOK
<1>2. UNCHANGED <<prog, offset, store, output, bad>> /\ (stopped => stopped')
  BY DEF MainStep, main, Configure, CopyOpen, OssOpen, Construct, OpenEnds, FstatEnds, Join, Destroy,
         progVars
<1>3. NotOk => NotOk'
  <2>1. CASE Destroy
    BY <1>1, <2>1, FlightDestroy DEF Destroy
  <2>2. CASE window' = window
    BY <2>2 DEF NotOk, Interests, Fetcher
  <2> QED  BY <2>1, <2>2 DEF MainStep, main, Configure, CopyOpen, OssOpen, Construct, OpenEnds,
                FstatEnds, Join
<1>4. first' = first \/ first' = [first EXCEPT ![Main] = Len(window[Main])]
  BY DEF MainStep, main, Configure, CopyOpen, OssOpen, Construct, OpenEnds, FstatEnds, Join, Destroy,
         Quit, Request, Call, threadVars
<1>5. first' \in [Threads -> Nat]
  BY <1>1, <1>4
<1>6. DOMAIN call' = Threads /\ \A t \in Readers : call'[t] = call[t]
  <2>1. call' = call \/ \E r : call' = [call EXCEPT ![Main] = r]
    BY DEF MainStep, main, Configure, CopyOpen, OssOpen, Construct, OpenEnds, FstatEnds, Join, Destroy,
           Quit, Request, progVars
  <2> QED  BY <1>1, <2>1, MainIsThread
<1>7. exit' = 0 => exit = 0 \/ \A t \in Readers : pc[t] = "done"
  BY DEF MainStep, main, Configure, CopyOpen, OssOpen, Construct, OpenEnds, FstatEnds, Join, Destroy,
         Quit, progVars
<1>8. CASE \E o \in Outcomes : FstatEnds(o) /\ o = "ok"
  <2>1. /\ pc[Main] \in {"await", "aborted"}
        /\ pc' = [t \in Threads |-> IF t = Main THEN "join" ELSE "next"]
    BY <1>8 DEF FstatEnds, Ends
  <2>2. \A t \in Readers : pc[t] = "new" /\ pc'[t] = "next"
    BY <2>1, MainIsThread DEF ConsumerInv, StartOK
  <2>3. \A t \in Threads : pc'[t] # "aborted"
    BY <2>1
  <2> QED  BY <1>2, <1>3, <1>5, <1>6, <1>7, <2>2, <2>3, CopyFrame
<1>9. CASE \E label \in {"start", "done", "insert", "leave"} : pc' = [pc EXCEPT ![Main] = label]
  <2>1. \A t \in Readers : pc'[t] = pc[t]
    BY <1>1, <1>9, MainIsThread
  <2>2. \A t \in Threads : pc'[t] = "aborted" => pc[t] = "aborted"
    BY <1>1, <1>9, MainIsThread
  <2> QED  BY <1>2, <1>3, <1>5, <1>6, <1>7, <2>1, <2>2, CopyFrame
<1>10. CASE \E o \in Outcomes : FstatEnds(o) /\ o # "ok"
  BY <1>9, <1>10 DEF FstatEnds, Quit, Goto
<1>11. CASE \E o \in Outcomes : OpenEnds(o)
  BY <1>9, <1>11 DEF OpenEnds, Quit, Goto, Request, Call
<1> QED  BY <1>8, <1>9, <1>10, <1>11 DEF MainStep, main, Configure, CopyOpen, OssOpen, Construct, Join,
             Destroy, Quit, Request, Call, Goto

\* The copy has nothing more to read.
LEMMA CopyLastBlock ==
    ASSUME ConsumerInv, CopyInv, NEW t \in Readers, ReadBlock(t), offset[t] >= FileSize
    PROVE  CopyInv'
<1>1. /\ pc[t] = "next" /\ prog = "copy" /\ t \in Threads /\ pc \in [Threads -> Labels]
      /\ offset[t] \in Nat /\ FileSize \in Nat
  BY MainIsThread, Sizes DEF ReadBlock, ConsumerInv, LockOK, CopyInv, ProgTypeOK
<1>2. /\ pc' = [pc EXCEPT ![t] = "write"]
      /\ UNCHANGED <<prog, offset, store, output, bad, call, exit, first, stopped, window>>
  BY <1>1 DEF ReadBlock, Goto, threadVars
<1>3. \A u \in Threads : pc'[u] = IF u = t THEN "write" ELSE pc[u]
  BY <1>1, <1>2
<1>4. NotOk' = NotOk
  BY <1>2 DEF NotOk, Interests, Fetcher
<1> USE DEF CopyInv
<1>5. ProgTypeOK' /\ OffsetsOK' /\ OutputOK'
  BY <1>2 DEF ProgTypeOK, OffsetsOK, OutputOK
<1>6. FailuresOK'
  BY <1>2, <1>3, <1>4 DEF FailuresOK, Failed
<1>7. CallsOK' /\ ExitOK'
  BY <1>1, <1>2, <1>3, MainIsThread DEF CallsOK, ExitOK, Calling, Holding
<1>8. BlocksOK' /\ CoveredOK'
  BY <1>1, <1>2 DEF BlocksOK, CoveredOK
<1>9. FinishedOK'
  BY <1>1, <1>2, <1>3, MainIsThread DEF FinishedOK
<1> QED  BY <1>1, <1>2, <1>5, <1>6, <1>7, <1>8, <1>9

\* A read begins.
LEMMA CopyRequest ==
    ASSUME ConsumerInv, CopyInv, NEW t \in Readers, pc[t] = "next", NEW off, NEW len,
           Request(t, "read", off, len), off \in Nat, len \in Nat \ {0},
           prog = "copy" => off = offset[t] /\ off < FileSize /\ len = Lesser(BSize, FileSize - off),
           UNCHANGED <<stopped, window, prog, offset, store, output, bad, exit>>
    PROVE  CopyInv'
<1>1. /\ t \in Threads /\ pc \in [Threads -> Labels] /\ WindowOK /\ first \in [Threads -> Nat]
      /\ DOMAIN call = Threads
  BY MainIsThread DEF ConsumerInv, LockOK, CopyInv, ProgTypeOK
<1>2. /\ pc' = [pc EXCEPT ![t] = "insert"] /\ first' = [first EXCEPT ![t] = Len(window[t])]
      /\ call' = [call EXCEPT ![t] = [op |-> "read", off |-> off, len |-> len]]
  BY DEF Request, Call, Goto
<1>3. /\ \A u \in Threads : pc'[u] = IF u = t THEN "insert" ELSE pc[u]
      /\ first' \in [Threads -> Nat] /\ DOMAIN call' = Threads
      /\ call'[t].off = off /\ call'[t].len = len
      /\ \A u \in Readers : u # t => call'[u] = call[u]
  BY <1>1, <1>2, WindowLen, MainIsThread
<1>4. NotOk' = NotOk
  BY DEF NotOk, Interests, Fetcher
<1> USE DEF CopyInv
<1>5. ProgTypeOK' /\ OffsetsOK' /\ OutputOK'
  BY <1>3 DEF ProgTypeOK, OffsetsOK, OutputOK
<1>6. FailuresOK'
  BY <1>3, <1>4 DEF FailuresOK, Failed
<1>7. CallsOK'
  BY <1>3, MainIsThread DEF CallsOK, IsBlock
<1>8. ExitOK'
  BY <1>3, MainIsThread DEF ExitOK
<1>9. (BlocksOK => BlocksOK') /\ (CoveredOK => CoveredOK')
  BY DEF BlocksOK, CoveredOK
<1>10. FinishedOK => FinishedOK'
  BY <1>3, MainIsThread DEF FinishedOK
<1>11. \A u \in Readers : pc'[u] = "write" => pc[u] = "write"
  BY <1>3, MainIsThread
<1> QED  BY <1>5, <1>6, <1>7, <1>8, <1>9, <1>10, <1>11

\* A read returns.
LEMMA CopyRead ==
    ASSUME ConsumerInv, CopyInv, NEW t \in Readers, ReadBlock(t) \/ OssRead(t)
    PROVE  CopyInv'
<1>1. CASE ReadBlock(t) /\ offset[t] >= FileSize
  BY <1>1, CopyLastBlock
<1>2. CASE ReadBlock(t) /\ ~(offset[t] >= FileSize)
  <2> DEFINE off == offset[t]
             len == Min({BSize, FileSize - off})
  <2>1. /\ pc[t] = "next" /\ Request(t, "read", off, len) /\ off < FileSize
        /\ UNCHANGED <<stopped, window, prog, offset, store, output, bad, exit>>
    BY <1>2 DEF ReadBlock
  <2>2. off \in Nat /\ BSize \in Nat \ {0} /\ FileSize \in Nat
    BY Sizes DEF CopyInv, ProgTypeOK
  <2>3. len = Lesser(BSize, FileSize - off)
    <3>1. BSize \in Int /\ FileSize - off \in Int
      BY <2>2
    <3> QED  BY <3>1, MinMaxTwo DEF Lesser
  <2>4. len \in Nat \ {0}
    BY <2>1, <2>2, <2>3 DEF Lesser
  <2> HIDE DEF len
  <2> QED  BY <2>1, <2>2, <2>3, <2>4, CopyRequest
<1>3. CASE OssRead(t)
  <2>1. PICK r \in Reads : Request(t, "read", r[1], r[2])
    BY <1>3 DEF OssRead
  <2>2. /\ pc[t] = "next" /\ prog = "plugin"
        /\ UNCHANGED <<stopped, window, prog, offset, store, output, bad, exit>>
    BY <1>3 DEF OssRead
  <2>3. r[1] \in Nat /\ r[2] \in Nat \ {0}
    BY ConsumerAssumption
  <2> QED  BY <2>1, <2>2, <2>3, CopyRequest
<1> QED  BY <1>1, <1>2, <1>3

\* A read that fails, fails for a reason.
LEMMA FailsForReason ==
    ASSUME ConsumerInv, CopyInv, NEW t \in Threads, NEW o \in Outcomes, Ends(t, o), o # "ok"
    PROVE  Failed
<1>1. CASE pc[t] = "aborted"
  BY <1>1 DEF CopyInv, FailuresOK, Failed
<1>2. CASE <<o>> \in Futures(t)
  <2>1. PICK k \in first[t] + 1 .. Len(window[t]) : window[t][k].task = <<o>>
    BY <1>2 DEF Futures
  <2>2. first[t] \in Nat /\ Len(window[t]) \in Nat /\ DOMAIN window[t] = 1 .. Len(window[t])
    BY WindowLen DEF CopyInv, ProgTypeOK, ConsumerInv
  <2>3. k \in DOMAIN window[t]
    BY <2>1, <2>2
  <2>4. <<t, k>> \in Interests
    BY <2>3, InInterests
  <2>5. Fetcher(<<t, k>>).task = <<o>>
    BY <2>1 DEF Fetcher
  <2>6. <<o>> \notin {<<>>, <<"ok">>}
    OBVIOUS
  <2> QED  BY <2>4, <2>5, <2>6 DEF Failed, NotOk
<1> QED  BY <1>1, <1>2 DEF Ends

\* A block has octets, all of them the file's.
LEMMA BlockOctets ==
    ASSUME NEW b, IsBlock(b), b.off \in Nat, b.len \in Nat \ {0}
    PROVE  /\ returnData(b.off, b.len) = Run(b.off, b.len)
           /\ b.off + b.len <= FileSize /\ b.len <= BSize
<1> DEFINE off == b.off
           len == b.len
           d == Max({0, FileSize - off})
<1>1. /\ BSize \in Nat \ {0} /\ FileSize \in Nat /\ off < FileSize
      /\ len = Lesser(BSize, FileSize - off) /\ off \in Nat /\ len \in Nat \ {0}
  BY Sizes DEF IsBlock
<1> HIDE DEF off, len
<1>2. d = FileSize - off
  <2>1. FileSize - off \in Int
    BY <1>1
  <2> QED  BY <1>1, <2>1, MaxZero
<1> HIDE DEF d
<1>3. Min({len, d}) = len
  <2>1. len \in Int /\ d \in Int /\ len <= d
    BY <1>1, <1>2 DEF Lesser
  <2> QED  BY <2>1, MinMaxTwo
<1>4. returnData(off, len) = FileOctets(off, len)
  BY <1>1, ReturnExact
<1>5. FileOctets(off, len) = Run(off, len)
  BY <1>3 DEF FileOctets, Run, d
<1>6. off + len <= FileSize /\ len <= BSize
  BY <1>1 DEF Lesser
<1> QED  BY <1>4, <1>5, <1>6 DEF off, len

\* A read ends: what it returned is stored and the reader goes on.
LEMMA CopyReadEnds ==
    ASSUME ConsumerInv, CopyInv, NEW t \in Readers, NEW o \in Outcomes, ReadEnds(t, o)
    PROVE  CopyInv'
<1> DEFINE off == call[t].off
           len == call[t].len
           e == Entry(off, len, o)
           label == IF prog = "plugin" THEN "done" ELSE IF e.octets = <<>> THEN "write" ELSE "next"
<1>1. /\ store' = [store EXCEPT ![t] = Append(@, e)]
      /\ pc' = [pc EXCEPT ![t] = label] /\ offset' = [offset EXCEPT ![t] = Stride(t)]
      /\ UNCHANGED <<first, stopped, window, prog, call, output, bad, exit>> /\ Ends(t, o)
  BY DEF ReadEnds, Goto, threadVars, Entry
<1>2. /\ t \in Threads /\ pc \in [Threads -> Labels] /\ pc[t] \in Calling /\ t \in Nat
      /\ prog \in {"copy", "plugin"}
      /\ store \in [Readers -> Seq(Entries)] /\ offset \in [Readers -> Nat]
  BY <1>1, MainIsThread, Sizes DEF Ends, Calling, ConsumerInv, LockOK, CopyInv, ProgTypeOK, Readers
<1>3. off \in Nat /\ len \in Nat \ {0} /\ (prog = "copy" => IsBlock(call[t]) /\ off = offset[t])
  BY <1>2 DEF CopyInv, CallsOK
<1>4. /\ e \in Entries /\ e.off = off /\ e.len = len /\ e.ret = o
      /\ e.octets = IF o = "ok" THEN returnData(off, len) ELSE <<>>
  BY <1>3, EntryIn DEF Entry
<1>5. prog = "copy" /\ e.octets = <<>> => o # "ok"
  <2>1. SUFFICES ASSUME prog = "copy", o = "ok", e.octets = <<>> PROVE FALSE
    OBVIOUS
  <2>2. Run(off, len) = <<>>
    BY <1>3, <1>4, <2>1, BlockOctets
  <2>3. Len(Run(off, len)) = len
    <3> HIDE DEF len
    <3> QED  BY <1>3 DEF Run
  <2> QED  BY <1>3, <2>2, <2>3
<1>6. o # "ok" => Failed
  BY <1>1, <1>2, FailsForReason
<1> HIDE DEF e, off, len
<1>7. /\ \A u \in Threads : pc'[u] = IF u = t THEN label ELSE pc[u]
      /\ \A u \in Readers : offset'[u] = IF u = t THEN Stride(t) ELSE offset[u]
      /\ \A u \in Readers : store'[u] = IF u = t THEN Append(store[t], e) ELSE store[u]
  BY <1>1, <1>2
<1>8. /\ Append(store[t], e) \in Seq(Entries)
      /\ \A b : b \in ToSet(store'[t]) <=> b \in ToSet(store[t]) \/ b = e
  BY <1>2, <1>4, <1>7, ToSetAppend
<1>9. PICK m \in Nat : offset[t] = Start(t, m)
  BY DEF CopyInv, OffsetsOK
<1>10. /\ Stride(t) = offset[t] + BSize * NThreads /\ Stride(t) = Start(t, m + 1) /\ Stride(t) \in Nat
       /\ BSize * NThreads \in Nat
  <2>1. BSize * NThreads \in Nat /\ offset[t] \in Nat
    BY <1>2, Sizes
  <2>2. t \in Int
    BY <1>2
  <2>3. Start(t, m + 1) = Start(t, m) + BSize * NThreads
    BY <2>2, StartNext
  <2>4. Stride(t) = offset[t] + BSize * NThreads
    BY DEF Stride
  <2>5. Stride(t) \in Nat
    BY <2>1, <2>4
  <2> QED  BY <1>9, <2>1, <2>3, <2>4, <2>5
<1>11. (NotOk' <=> NotOk) /\ (Failed' <=> Failed)
  BY <1>1 DEF Failed, NotOk, Interests, Fetcher
<1> HIDE DEF label
<1>12. label \notin Calling
  BY DEF label, Calling, Holding
<1> USE DEF CopyInv
<1>13. ProgTypeOK'
  <2>1. store' \in [Readers -> Seq(Entries)] /\ offset' \in [Readers -> Nat]
    BY <1>1, <1>2, <1>8, <1>10
  <2> QED  BY <1>1, <2>1 DEF ProgTypeOK
<1>14. OffsetsOK'
  BY <1>7, <1>10 DEF OffsetsOK
<1>15. FailuresOK'
  <2>1. label # "aborted"
    BY <1>12 DEF Calling
  <2> QED  BY <1>1, <1>4, <1>6, <1>7, <1>8, <1>11, <2>1 DEF FailuresOK
<1>16. CallsOK'
  BY <1>1, <1>7, <1>12, MainIsThread DEF CallsOK
<1>17. OutputOK'
  BY <1>1 DEF OutputOK
<1>18. ExitOK'
  BY <1>1, <1>2, <1>7, MainIsThread DEF ExitOK, Calling, Holding
<1>19. CASE prog = "plugin"
  <2>1. \A u \in Readers : pc'[u] # "write"
    BY <1>7, <1>19, MainIsThread DEF label
  <2> QED  BY <1>1, <1>13, <1>14, <1>15, <1>16, <1>17, <1>18, <1>19, <2>1
<1>20. CASE prog = "copy"
  <2>1. BlocksOK'
    <3>1. IsBlock(e)
      BY <1>3, <1>4, <1>20 DEF IsBlock, off, len
    <3> QED  BY <1>7, <1>8, <1>20, <3>1 DEF BlocksOK
  <2>2. CoveredOK'
    <3> SUFFICES ASSUME NEW u \in Readers, NEW p \in Owned(u), p < offset'[u]
                 PROVE  bad' \/ p \in DOMAIN output' \/ \E b \in ToSet(store'[u]) : p \in b.off .. b.off + b.len - 1
      BY DEF CoveredOK, Owned
    <3>1. CASE p < offset[u]
      BY <1>1, <1>7, <1>8, <1>20, <3>1 DEF CoveredOK
    <3>2. CASE ~(p < offset[u])
      <4>1. u = t
        BY <1>7, <3>2
      <4>2. p \in 0 .. FileSize - 1 /\ FileSize \in Nat /\ BSize \in Nat \ {0} /\ offset[t] \in Nat
        BY <1>2, Sizes DEF Owned
      <4>3. offset[t] <= p /\ p < offset[t] + BSize * NThreads
        BY <1>7, <1>10, <3>2, <4>1, <4>2
      <4>4. p < offset[t] + BSize
        BY <1>9, <4>1, <4>3, OwnedBlock
      <4>5. e.off = offset[t] /\ e.len = Lesser(BSize, FileSize - offset[t])
        BY <1>3, <1>4, <1>20 DEF IsBlock, off, len
      <4>6. p \in e.off .. e.off + e.len - 1
        BY <4>2, <4>3, <4>4, <4>5 DEF Lesser
      <4> QED  BY <1>8, <4>1, <4>6
    <3> QED  BY <3>1, <3>2
  <2>3. FinishedOK'
    <3>1. label # "done" /\ (label = "write" => o # "ok")
      BY <1>5, <1>20 DEF label
    <3>2. FinishedOK
      BY <1>20
    <3> SUFFICES ASSUME NEW u \in Readers
                 PROVE  /\ pc'[u] \in {"write", "done"} =>
                            offset'[u] >= FileSize \/ bad' \/ \E b \in ToSet(store'[u]) : b.ret # "ok"
                        /\ pc'[u] = "done" => store'[u] = <<>>
      BY DEF FinishedOK
    <3>3. CASE u = t
      BY <1>4, <1>7, <1>8, <3>1, <3>3, MainIsThread
    <3>4. CASE u # t
      BY <1>1, <1>7, <3>2, <3>4, MainIsThread DEF FinishedOK
    <3> QED  BY <3>3, <3>4
  <2> QED  BY <1>1, <1>13, <1>14, <1>15, <1>16, <1>17, <1>18, <1>20, <2>1, <2>2, <2>3
<1> QED  BY <1>2, <1>19, <1>20

\* An entry is written, unless the stream is broken.
LEMMA CopyWrite == ASSUME ConsumerInv, CopyInv, NEW t \in Readers, write(t) PROVE CopyInv'
<1>1. /\ pc[t] = "write" /\ UNCHANGED <<first, stopped, window, prog, call, offset, exit>>
  BY DEF write, threadVars
<1>2. /\ t \in Threads /\ pc \in [Threads -> Labels] /\ prog = "copy" /\ bad \in BOOLEAN
      /\ store \in [Readers -> Seq(Entries)] /\ offset \in [Readers -> Nat]
      /\ BlocksOK /\ CoveredOK /\ FinishedOK /\ \A u \in Readers : u \in Threads
  BY <1>1, MainIsThread DEF ConsumerInv, LockOK, CopyInv, ProgTypeOK
<1>3. (NotOk' <=> NotOk) /\ (Failed' <=> Failed)
  BY <1>1 DEF Failed, NotOk, Interests, Fetcher
<1>4. OffsetsOK'
  BY <1>1 DEF CopyInv, OffsetsOK
<1>5. ExitOK'
  <2>1. exit # 0
    BY <1>1 DEF CopyInv, ExitOK
  <2> QED  BY <1>1, <2>1 DEF ExitOK
<1>6. CASE store[t] = <<>>
  <2>1. pc' = [pc EXCEPT ![t] = "done"] /\ UNCHANGED <<store, output, bad>>
    BY <1>6 DEF write, Goto
  <2>2. \A u \in Threads : pc'[u] = IF u = t THEN "done" ELSE pc[u]
    BY <1>2, <2>1
  <2>3. ProgTypeOK' /\ OutputOK'
    BY <1>1, <2>1 DEF CopyInv, ProgTypeOK, OutputOK
  <2>4. FailuresOK'
    BY <1>1, <1>3, <2>1, <2>2 DEF CopyInv, FailuresOK
  <2>5. CallsOK'
    BY <1>1, <1>2, <2>2 DEF CopyInv, CallsOK, Calling, Holding
  <2>6. BlocksOK' /\ CoveredOK'
    BY <1>1, <1>2, <2>1 DEF BlocksOK, CoveredOK
  <2>7. FinishedOK'
    BY <1>1, <1>2, <1>6, <2>1, <2>2 DEF FinishedOK
  <2> QED  BY <1>1, <1>2, <1>4, <1>5, <2>3, <2>4, <2>5, <2>6, <2>7 DEF CopyInv
<1>7. CASE store[t] # <<>>
  <2> DEFINE b == Head(store[t])
             new == b.off .. b.off + Len(b.octets) - 1
  <2>1. /\ store' = [store EXCEPT ![t] = Tail(store[t])] /\ bad' = (bad \/ b.ret # "ok") /\ pc' = pc
        /\ output' = IF bad' THEN output
                     ELSE [p \in DOMAIN output \cup new |->
                            IF p \in new THEN b.octets[p - b.off + 1] ELSE output[p]]
    BY <1>7 DEF write
  <2>2. /\ Tail(store[t]) \in Seq(Entries) /\ b \in Entries /\ b \in ToSet(store[t])
        /\ \A c : c \in ToSet(store[t]) <=> c \in ToSet(Tail(store[t])) \/ c = b
    BY <1>2, <1>7, ToSetTail
  <2>3. /\ \A u \in Readers : store'[u] = IF u = t THEN Tail(store[t]) ELSE store[u]
        /\ store' \in [Readers -> Seq(Entries)]
    BY <1>2, <2>1, <2>2
  <2>4. /\ b.off \in Nat /\ b.len \in Nat \ {0} /\ IsBlock(b)
        /\ b.ret = "ok" => b.octets = returnData(b.off, b.len)
    BY <1>2, <2>2, EntryFields DEF BlocksOK
  <2> HIDE DEF b
  <2>5. /\ b.ret = "ok" => b.octets = Run(b.off, b.len)
        /\ b.off + b.len <= FileSize /\ FileSize \in Nat
    BY <2>4, BlockOctets, Sizes
  <2>6. b.ret = "ok" => /\ new = b.off .. b.off + b.len - 1
                        /\ \A p \in new : b.octets[p - b.off + 1] = p /\ p \in 0 .. FileSize - 1
    <3> SUFFICES ASSUME b.ret = "ok"
                 PROVE  /\ new = b.off .. b.off + b.len - 1
                        /\ \A p \in new : b.octets[p - b.off + 1] = p /\ p \in 0 .. FileSize - 1
      OBVIOUS
    <3>1. PICK off \in Nat, len \in Nat \ {0} : off = b.off /\ len = b.len
      BY <2>4
    <3>2. b.octets = Run(off, len)
      BY <2>5, <3>1
    <3>3. Len(Run(off, len)) = len
      BY DEF Run
    <3>4. new = off .. off + len - 1
      BY <3>1, <3>2, <3>3
    <3>5. ASSUME NEW p \in off .. off + len - 1
          PROVE  Run(off, len)[p - off + 1] = p /\ p \in 0 .. FileSize - 1
      <4>1. p - off + 1 \in 1 .. len
        OBVIOUS
      <4>2. Run(off, len)[p - off + 1] = off + (p - off + 1) - 1
        BY <4>1 DEF Run
      <4>3. off + len <= FileSize /\ FileSize \in Nat
        BY <2>5, <3>1
      <4> QED  BY <4>2, <4>3
    <3> QED  BY <3>1, <3>2, <3>4, <3>5
  <2> HIDE DEF new
  <2>7. bad' => Failed'
    BY <1>3, <2>1, <2>2 DEF CopyInv, FailuresOK
  <2>8. ProgTypeOK'
    BY <1>1, <2>1, <2>3 DEF CopyInv, ProgTypeOK
  <2>9. OutputOK'
    <3>1. CASE bad'
      BY <2>1, <3>1 DEF CopyInv, OutputOK
    <3>2. CASE ~bad'
      <4>1. b.ret = "ok"
        BY <2>1, <3>2
      <4> QED  BY <2>1, <2>6, <3>2, <4>1 DEF CopyInv, OutputOK
    <3> QED  BY <3>1, <3>2
  <2>10. FailuresOK'
    BY <1>1, <1>3, <2>1, <2>2, <2>3, <2>7 DEF CopyInv, FailuresOK
  <2>11. CallsOK'
    BY <1>1, <2>1 DEF CopyInv, CallsOK
  <2>12. BlocksOK'
    BY <1>2, <2>2, <2>3 DEF BlocksOK
  <2>13. CoveredOK'
    <3>1. CASE bad'
      BY <3>1 DEF CoveredOK
    <3>2. CASE ~bad'
      <4>1. b.ret = "ok" /\ ~bad
        BY <2>1, <3>2
      <4>2. \A p : p \in DOMAIN output \/ p \in b.off .. b.off + b.len - 1 => p \in DOMAIN output'
        BY <2>1, <2>6, <3>2, <4>1
      <4> QED  BY <1>1, <1>2, <2>2, <2>3, <4>1, <4>2 DEF CoveredOK, Owned
    <3> QED  BY <3>1, <3>2
  <2>14. FinishedOK'
    <3>1. \A u \in Readers : pc'[u] = "done" => store'[u] = <<>>
      BY <1>1, <1>2, <2>1, <2>3 DEF FinishedOK
    <3>2. ASSUME NEW u \in Readers, pc'[u] \in {"write", "done"}
          PROVE  offset'[u] >= FileSize \/ bad' \/ \E c \in ToSet(store'[u]) : c.ret # "ok"
      BY <1>1, <1>2, <2>1, <2>2, <2>3, <3>2 DEF FinishedOK
    <3> QED  BY <3>1, <3>2 DEF FinishedOK
  <2> QED  BY <1>1, <1>2, <1>4, <1>5, <2>8, <2>9, <2>10, <2>11, <2>12, <2>13, <2>14 DEF CopyInv
<1> QED  BY <1>6, <1>7

\* Every step preserves the invariant of the copy.
LEMMA CopyStep == ConsumerInv /\ CopyInv /\ [Next]_vars => CopyInv'
<1> SUFFICES ASSUME ConsumerInv, CopyInv, [Next]_vars PROVE CopyInv'
  OBVIOUS
<1>1. ASSUME NEW t \in Threads, ThreadStep(t) PROVE CopyInv'
  BY <1>1, CopyInsert, CopyMain, CopyRead, CopyReadEnds, CopyWrite DEF ThreadStep, ReaderStep
<1>2. CASE UNCHANGED vars
  <2>1. UNCHANGED <<prog, offset, store, output, bad, call, exit, pc, first, stopped, window>>
    BY <1>2 DEF vars, pipelineVars, progVars
  <2>2. NotOk => NotOk'
    BY <2>1 DEF NotOk, Interests, Fetcher
  <2>3. first \in [Threads -> Nat] /\ DOMAIN call = Threads
    BY DEF CopyInv, ProgTypeOK
  <2> QED  BY <2>1, <2>2, <2>3, CopyFrame
<1> QED  BY <1>1, <1>2, CopyFace DEF Next, AnswerStep

\* The invariant of the copy.
LEMMA CopyInvariant == Spec => []CopyInv
BY ConsumerInvariant, CopyInit, CopyStep, PTL DEF Spec

\* The invariant implies what is read and what is written.
LEMMA CopyImplies == CopyInv => ReadsReturnContent /\ CopyIsFaithful
<1> SUFFICES ASSUME CopyInv PROVE ReadsReturnContent /\ CopyIsFaithful
  OBVIOUS
<1>1. ReadsReturnContent
  <2> SUFFICES ASSUME NEW t \in Readers, NEW b \in ToSet(store[t]), b.ret = "ok",
                      b.off <= FileSize \/ b.off % P = 0
               PROVE  b.octets = FileOctets(b.off, b.len)
    BY DEF ReadsReturnContent
  <2>1. b \in Entries
    BY ToSetIn DEF CopyInv, ProgTypeOK
  <2> QED  BY <2>1, EntryFields, ReturnExact
<1>2. CopyIsFaithful
  <2>1. \A p \in DOMAIN output : output[p] = p
    BY DEF CopyInv, OutputOK
  <2>2. ASSUME prog = "copy", exit = 0, ~bad PROVE DOMAIN output = 0 .. FileSize - 1
    <3>1. \A t \in Readers : pc[t] = "done" /\ store[t] = <<>> /\ offset[t] >= FileSize
      BY <2>2, ToSetEmpty DEF CopyInv, ExitOK, FinishedOK
    <3>2. ASSUME NEW p \in 0 .. FileSize - 1 PROVE p \in DOMAIN output
      <4>1. PICK t \in Readers : p \in Owned(t)
        BY EveryOwned
      <4>2. p < offset[t]
        BY <3>1, Sizes DEF CopyInv, ProgTypeOK
      <4> QED  BY <2>2, <3>1, <4>1, <4>2, ToSetEmpty DEF CopyInv, CoveredOK
    <3>3. \A p \in DOMAIN output : p \in 0 .. FileSize - 1
      BY DEF CopyInv, OutputOK
    <3> QED  BY <3>2, <3>3
  <2>3. bad => Failed
    BY DEF CopyInv, FailuresOK
  <2>4. bad \in BOOLEAN
    BY DEF CopyInv, ProgTypeOK
  <2> QED  BY <2>1, <2>2, <2>3, <2>4 DEF CopyIsFaithful, Failed, NotOk
<1> QED  BY <1>1, <1>2

-----------------------------------------------------------------------------
(* The theorems.                                                            *)

\* However the face thread's callbacks fall between the steps of insert, a
\* thread that looks at m_windowSize under the lock finds the Interests in
\* flight counted exactly, and there are never more than m_size of them, though
\* the slot is counted after expressInterest and given back without the lock.
THEOREM ConsumerCountsExactly == Spec => []CounterIsExact
BY ConsumerInvariant, InvImplies, PTL

\* Whatever Nacks, timeouts, retries and backoffs an Interest meets, m_task is
\* called at most once for it: no promise is ever satisfied twice.
THEOREM ConsumerCallsTaskOnce == Spec => []TaskCalledOnce
BY ConsumerInvariant, InvImplies, PTL

\* insert gives a call up only when some fetch failed on the network or the
\* face thread is gone, never for an application level Nack.
THEOREM ConsumerAbortsJustified == Spec => []AbortsAreJustified
BY ConsumerInvariant, InvImplies, PTL

\* For any file, payload size, block size and number of threads, in whatever
\* order the segments of a read arrive and wherever it starts and ends in
\* them, Consumer::Read returns the octets asked for, as far as the file has
\* them; a read from past the end, off a segment boundary, is the exception.
THEOREM ConsumerReadsContent == Spec => []ReadsReturnContent
BY CopyInvariant, CopyImplies, PTL

\* Whatever the network does and however the readers' blocks interleave, the
\* copy writes no octet out of place, and when xrdndn-consumer returns 0 the
\* output is the file, or its stream broke after a fetch or the face failed.
THEOREM ConsumerCopiesFaithfully == Spec => []CopyIsFaithful
BY CopyInvariant, CopyImplies, PTL

=============================================================================
