---------------------------- MODULE SecNetProofs ----------------------------
(***************************************************************************)
(* Proofs for module SecNet, for every request, every cut of the stream    *)
(* into records, and every width of the lengths.                           *)
(***************************************************************************)
EXTENDS SecNet, SequenceTheorems, WellFoundedInduction, TLAPS

-----------------------------------------------------------------------------
(***************************************************************************)
(* Sequences of cells of any kinds.                                        *)
(***************************************************************************)

IsSeq(s) == s \in Seq({s[i] : i \in DOMAIN s})

LEMMA AnySeq ==
  ASSUME NEW S, NEW s \in Seq(S)
  PROVE  IsSeq(s)
<1>1. Len(s) \in Nat /\ s \in [1 .. Len(s) -> S] /\ DOMAIN s = 1 .. Len(s)
  BY LenProperties
<1>2. s \in [1 .. Len(s) -> {s[i] : i \in DOMAIN s}]
  BY <1>1
<1>. DEFINE R == {s[i] : i \in DOMAIN s}
<1>. HIDE DEF R
<1>3. \A n \in Nat : \A f \in [1 .. n -> R] : f \in Seq(R)
  OBVIOUS
<1>4. s \in Seq(R)
  BY <1>1, <1>2, <1>3 DEF R
<1>. QED
  BY <1>4 DEF IsSeq, R

LEMMA SeqShape ==
  ASSUME NEW s, IsSeq(s)
  PROVE  /\ Len(s) \in Nat /\ DOMAIN s = 1 .. Len(s)
         /\ s = <<>> <=> Len(s) = 0
BY DEF IsSeq

LEMMA SameSeq ==
  ASSUME NEW s, NEW t, IsSeq(s), IsSeq(t), Len(s) = Len(t),
         \A i \in 1 .. Len(s) : s[i] = t[i]
  PROVE  s = t
<1>. DEFINE S == {s[i] : i \in DOMAIN s} \cup {t[i] : i \in DOMAIN t}
<1>1. s \in Seq(S) /\ t \in Seq(S)
  BY SeqMonotonic DEF IsSeq
<1>. HIDE DEF S
<1>. QED
  BY <1>1, SeqEqual

\* \o with nothing but these facts about it.
Cat(s, t) == s \o t

CatFacts(s, t) ==
  /\ IsSeq(Cat(s, t)) /\ Len(Cat(s, t)) = Len(s) + Len(t)
  /\ \A i \in 1 .. Len(s) : Cat(s, t)[i] = s[i]
  /\ \A i \in 1 .. Len(t) : Cat(s, t)[Len(s) + i] = t[i]

LEMMA ConcatSeq ==
  ASSUME NEW s, NEW t, IsSeq(s), IsSeq(t)
  PROVE  CatFacts(s, t)
<1>. DEFINE S == {s[i] : i \in DOMAIN s} \cup {t[i] : i \in DOMAIN t}
<1>1. s \in Seq(S) /\ t \in Seq(S)
  BY SeqMonotonic DEF IsSeq
<1>. HIDE DEF S
<1>2. /\ s \o t \in Seq(S) /\ Len(s \o t) = Len(s) + Len(t)
      /\ \A i \in 1 .. Len(s) + Len(t) :
           (s \o t)[i] = IF i <= Len(s) THEN s[i] ELSE t[i - Len(s)]
  BY <1>1, ConcatProperties
<1>3. Len(s) \in Nat /\ Len(t) \in Nat
  BY SeqShape
<1>4. IsSeq(s \o t)
  BY <1>2, AnySeq
<1>. QED
  BY <1>2, <1>3, <1>4 DEF Cat, CatFacts

LEMMA FunctionSeq ==
  ASSUME NEW n \in Nat, NEW f, f = [i \in 1 .. n |-> f[i]]
  PROVE  IsSeq(f) /\ Len(f) = n
<1>1. f \in Seq({f[i] : i \in 1 .. n}) /\ DOMAIN f = 1 .. n
  OBVIOUS
<1>. QED
  BY <1>1 DEF IsSeq

LEMMA SubSeqShape ==
  ASSUME NEW s, NEW m \in Nat \ {0}, NEW n \in Nat
  PROVE  /\ IsSeq(SubSeq(s, m, n))
         /\ Len(SubSeq(s, m, n)) = IF m <= n THEN n - m + 1 ELSE 0
         /\ \A i \in 1 .. n - m + 1 : SubSeq(s, m, n)[i] = s[m + i - 1]
<1>. DEFINE S == {s[i] : i \in m .. n}
<1>1. /\ SubSeq(s, m, n) \in Seq(S)
      /\ Len(SubSeq(s, m, n)) = IF m <= n THEN n - m + 1 ELSE 0
      /\ \A i \in 1 .. n - m + 1 : SubSeq(s, m, n)[i] = s[m + i - 1]
  <2>1. \A i \in m .. n : s[i] \in S
    OBVIOUS
  <2>. HIDE DEF S
  <2>. QED
    BY <2>1, SubSeqProperties
<1>. HIDE DEF S
<1>. QED
  BY <1>1, AnySeq

LEMMA Modulo ==
  ASSUME NEW n \in Nat, NEW m \in Nat
  PROVE  /\ n % (m + 1) \in 0 .. m
         /\ n <= m => n % (m + 1) = n
<1>. DEFINE b == m + 1
<1>1. b \in Nat /\ b > 0
  OBVIOUS
<1>2. n % b \in 0 .. b - 1 /\ (n < b => n % b = n)
  <2>. HIDE DEF b
  <2>. QED
    BY <1>1
<1>. QED
  BY <1>2

LEMMA Truncation ==
  ASSUME NEW n \in Nat
  PROVE  /\ uint16(n) \in 0 .. (Width - 1) /\ uint64(n) \in 0 .. (Width - 1)
         /\ n <= MAX16 => uint16(n) = n
         /\ n < Width => uint64(n) = n
<1>1. MAX16 \in Nat /\ Width - 1 \in Nat /\ Width \in Nat /\ MAX16 <= Width - 1
      /\ (Width - 1) + 1 = Width
  BY LengthAssumption
<1>2. n % (MAX16 + 1) \in 0 .. MAX16 /\ (n <= MAX16 => n % (MAX16 + 1) = n)
  BY <1>1, Modulo
<1>3. n % ((Width - 1) + 1) \in 0 .. (Width - 1) /\ (n <= Width - 1 => n % ((Width - 1) + 1) = n)
  BY <1>1, Modulo
<1>4. uint16(n) \in 0 .. (Width - 1)
  BY <1>1, <1>2 DEF uint16
<1>. QED
  BY <1>1, <1>2, <1>3, <1>4 DEF uint16, uint64

LEMMA HostOrder ==
  ASSUME NEW n \in 0 .. (Width - 1), NEW len7
  PROVE  /\ InHostOrder(len7, n) \in 0 .. (Width - 1)
         /\ len7 # LEN16 \/ n <= MAX16 =>
              InHostOrder(len7, InHostOrder(len7, n)) = n
<1>. USE DEF InHostOrder
<1>1. /\ LEN16 \in Nat /\ LEN64 \in Nat /\ LEN16 # LEN64
      /\ MAX16 \in Nat /\ Width \in Nat /\ MAX16 + 1 < Width
  BY LengthAssumption
<1>2. CASE len7 = LEN16
  <2>1. InHostOrder(len7, n) = HostOrder16[uint16(n)] /\ uint16(n) \in 0 .. MAX16
    BY <1>1, <1>2, Modulo DEF uint16
  <2>2. HostOrder16[uint16(n)] \in 0 .. MAX16
    BY <2>1, ByteOrderAssumption
  <2>3. \A m \in 0 .. MAX16 : uint16(m) = m
    BY <1>1, Modulo DEF uint16
  <2>4. HostOrder16[HostOrder16[uint16(n)]] = uint16(n)
    BY <2>1, ByteOrderAssumption
  <2>5. InHostOrder(len7, InHostOrder(len7, n)) = uint16(n)
    <3>1. \A m : InHostOrder(len7, m) = HostOrder16[uint16(m)]
      BY <1>1, <1>2
    <3>2. uint16(HostOrder16[uint16(n)]) = HostOrder16[uint16(n)]
      BY <2>2, <2>3
    <3>. QED
      BY <2>1, <2>4, <3>1, <3>2
  <2>6. n <= MAX16 => uint16(n) = n
    BY <1>1, <2>3
  <2>7. HostOrder16[uint16(n)] \in 0 .. (Width - 1)
    BY <1>1, <2>2
  <2>. QED
    BY <1>2, <2>1, <2>5, <2>6, <2>7
<1>3. CASE len7 = LEN64
  <2>1. \A m : InHostOrder(len7, m) = HostOrder64[m]
    BY <1>1, <1>3
  <2>2. HostOrder64[n] \in 0 .. (Width - 1) /\ HostOrder64[HostOrder64[n]] = n
    BY ByteOrderAssumption
  <2>. QED
    BY <2>1, <2>2
<1>4. CASE len7 \notin {LEN16, LEN64}
  BY <1>4
<1>. QED
  BY <1>2, <1>3, <1>4

\* The server takes no frame of n cells for one of 2^64 - 1 bytes.
LEMMA HostLengths ==
  ASSUME NEW n \in Nat, n + 1 < Width
  PROVE  /\ HostLength(n) \in 0 .. (Width - 1) /\ HostLength(n) + 1 # Width
         /\ n < LEN16 => Len7(n) = n /\ HostLength(n) = n
         /\ n >= LEN16 => Len7(n) \in {LEN16, LEN64}
         /\ Len7(n) = LEN16 => n <= MAX16 /\ HostLength(n) <= MAX16
<1>1. /\ LEN16 \in Nat /\ LEN64 \in Nat /\ LEN16 < LEN64 /\ MAX16 \in Nat
      /\ Width \in Nat /\ MAX16 + 1 < Width /\ LEN64 <= MAX16
  BY LengthAssumption
<1>2. n \in 0 .. (Width - 1) /\ Width - 1 \in 0 .. (Width - 1) /\ n # Width - 1
  BY <1>1
<1>3. HostLength(n) \in 0 .. (Width - 1)
  BY <1>2, HostOrder DEF HostLength
<1>4. CASE n < LEN16
  <2>1. Len7(n) = n /\ n \notin {LEN16, LEN64}
    BY <1>1, <1>4 DEF Len7
  <2>2. HostLength(n) = n
    BY <2>1 DEF HostLength, InHostOrder
  <2>. QED
    BY <1>1, <1>2, <1>3, <1>4, <2>1, <2>2
<1>5. CASE n >= LEN16 /\ n <= MAX16
  <2>1. Len7(n) = LEN16
    BY <1>1, <1>5 DEF Len7
  <2>2. HostLength(n) = HostOrder16[uint16(n)] /\ uint16(n) \in 0 .. MAX16
    BY <1>1, <2>1, Modulo DEF HostLength, InHostOrder, uint16
  <2>3. HostLength(n) \in 0 .. MAX16
    BY <2>2, ByteOrderAssumption
  <2>. QED
    BY <1>1, <1>3, <1>5, <2>1, <2>3
<1>6. CASE n > MAX16
  <2>1. Len7(n) = LEN64
    BY <1>1, <1>6 DEF Len7
  <2>2. HostLength(n) = HostOrder64[n]
    BY <1>1, <2>1 DEF HostLength, InHostOrder
  <2>3. HostOrder64[n] # Width - 1
    BY <1>2, ByteOrderAssumption
  <2>. QED
    BY <1>1, <1>3, <1>6, <2>1, <2>2, <2>3
<1>. QED
  BY <1>1, <1>4, <1>5, <1>6

Front(s, n) == SubSeq(s, 1, n)

LEMMA FrontShape ==
  ASSUME NEW s, NEW n \in Nat
  PROVE  /\ IsSeq(Front(s, n)) /\ Len(Front(s, n)) = n
         /\ \A i \in 1 .. n : Front(s, n)[i] = s[i]
<1>. DEFINE m == 1
<1>1. m \in Nat \ {0}
  OBVIOUS
<1>2. /\ IsSeq(SubSeq(s, m, n))
      /\ Len(SubSeq(s, m, n)) = IF m <= n THEN n - m + 1 ELSE 0
      /\ \A i \in 1 .. n - m + 1 : SubSeq(s, m, n)[i] = s[m + i - 1]
  <2>. HIDE DEF m
  <2>. QED
    BY <1>1, SubSeqShape
<1>. QED
  BY <1>2 DEF Front

LEMMA Least ==
  ASSUME NEW S, S \subseteq Nat, S # {}
  PROVE  \E m \in S : \A n \in S : m <= n
<1>1. PICK m \in S : \A n \in S : ~(<<n, m>> \in OpToRel(<, Nat))
  BY NatLessThanWellFounded, WFMin
<1>2. \A n \in S : n \in Nat /\ m \in Nat /\ ~(n < m)
  BY <1>1 DEF OpToRel
<1>. QED
  BY <1>2

LEMMA ShortSeqs ==
  /\ IsSeq(<<>>) /\ Len(<<>>) = 0
  /\ \A a : IsSeq(<<a>>) /\ Len(<<a>>) = 1 /\ <<a>>[1] = a
  /\ \A a, b : IsSeq(<<a, b>>) /\ Len(<<a, b>>) = 2 /\ <<a, b>>[1] = a /\ <<a, b>>[2] = b
  /\ \A a, b, c : /\ IsSeq(<<a, b, c>>) /\ Len(<<a, b, c>>) = 3
                  /\ <<a, b, c>>[1] = a /\ <<a, b, c>>[2] = b /\ <<a, b, c>>[3] = c
<1>1. IsSeq(<<>>) /\ Len(<<>>) = 0
  BY DEF IsSeq
<1>2. \A a : <<a>> \in Seq({a}) /\ Len(<<a>>) = 1
  OBVIOUS
<1>3. \A a, b : <<a, b>> \in Seq({a, b}) /\ Len(<<a, b>>) = 2
  OBVIOUS
<1>4. \A a, b, c : <<a, b, c>> \in Seq({a, b, c}) /\ Len(<<a, b, c>>) = 3
  OBVIOUS
<1>. QED
  BY <1>1, <1>2, <1>3, <1>4, AnySeq

-----------------------------------------------------------------------------
(***************************************************************************)
(* What a client sends, cell by cell.                                      *)
(***************************************************************************)

LEMMA PacketShape ==
  ASSUME NEW r, IsSeq(r.data)
  PROVE  /\ IsSeq(PacketCells(r)) /\ Len(PacketCells(r)) = HeaderSize + Len(r.data)
         /\ PacketCells(r)[1] = <<"cmd", r.cmd>> /\ PacketCells(r)[2] = <<"len", r.len>>
         /\ \A i \in 1 .. Len(r.data) : PacketCells(r)[HeaderSize + i] = r.data[i]
<1>. DEFINE head == <<<<"cmd", r.cmd>>, <<"len", r.len>>>>
<1>1. /\ IsSeq(head) /\ Len(head) = 2
      /\ head[1] = <<"cmd", r.cmd>> /\ head[2] = <<"len", r.len>>
  BY ShortSeqs
<1>2. PacketCells(r) = Cat(head, r.data)
  BY DEF PacketCells, Cat
<1>. HIDE DEF head
<1>3. /\ IsSeq(Cat(head, r.data)) /\ Len(Cat(head, r.data)) = 2 + Len(r.data)
      /\ Cat(head, r.data)[1] = head[1] /\ Cat(head, r.data)[2] = head[2]
      /\ \A i \in 1 .. Len(r.data) : Cat(head, r.data)[2 + i] = r.data[i]
  <2>1. CatFacts(head, r.data)
    BY <1>1, ConcatSeq
  <2>. QED
    BY <1>1, <2>1 DEF CatFacts
<1>. QED
  BY <1>1, <1>2, <1>3 DEF HeaderSize

LEMMA HttpShape ==
  ASSUME NEW r, IsSeq(r.lines), NEW k, k = Len(r.lines)
  PROVE  /\ k \in Nat /\ IsSeq(HttpCells(r)) /\ Len(HttpCells(r)) = k + 5
         /\ HttpCells(r)[1] = <<"get", 0>> /\ HttpCells(r)[2] = <<"text", 0>>
         /\ HttpCells(r)[3] = <<"line", "request">>
         /\ \A i \in 1 .. k : HttpCells(r)[3 + i] = <<"line", r.lines[i]>>
         /\ HttpCells(r)[k + 4] = <<"end", 0>> /\ HttpCells(r)[k + 5] = <<"lf", 0>>
<1>. DEFINE first  == <<<<"get", 0>>, <<"text", 0>>, <<"line", "request">>>>
            middle == [i \in 1 .. k |-> <<"line", r.lines[i]>>]
            last   == <<<<"end", 0>>, <<"lf", 0>>>>
<1>1. /\ IsSeq(first) /\ Len(first) = 3 /\ first[1] = <<"get", 0>>
      /\ first[2] = <<"text", 0>> /\ first[3] = <<"line", "request">>
  BY ShortSeqs
<1>2. IsSeq(last) /\ Len(last) = 2 /\ last[1] = <<"end", 0>> /\ last[2] = <<"lf", 0>>
  BY ShortSeqs
<1>3. k \in Nat
  BY SeqShape
<1>4. /\ IsSeq(middle) /\ Len(middle) = k
      /\ \A i \in 1 .. k : middle[i] = <<"line", r.lines[i]>>
  BY <1>3, FunctionSeq
<1>5. HttpCells(r) = Cat(Cat(first, middle), last)
  BY DEF HttpCells, Cat
<1>. HIDE DEF first, middle, last
<1>6. /\ IsSeq(Cat(first, middle)) /\ Len(Cat(first, middle)) = 3 + k
      /\ \A i \in 1 .. 3 : Cat(first, middle)[i] = first[i]
      /\ \A i \in 1 .. k : Cat(first, middle)[3 + i] = middle[i]
  <2>1. CatFacts(first, middle)
    BY <1>1, <1>4, ConcatSeq
  <2>. QED
    BY <1>1, <1>4, <2>1 DEF CatFacts
<1>7. /\ IsSeq(HttpCells(r)) /\ Len(HttpCells(r)) = (3 + k) + 2
      /\ \A i \in 1 .. 3 + k : HttpCells(r)[i] = Cat(first, middle)[i]
      /\ \A i \in 1 .. 2 : HttpCells(r)[(3 + k) + i] = last[i]
  <2>1. CatFacts(Cat(first, middle), last)
    BY <1>2, <1>5, <1>6, ConcatSeq
  <2>. QED
    BY <1>2, <1>5, <1>6, <2>1 DEF CatFacts
<1>8. ASSUME NEW i \in 1 .. 3 PROVE HttpCells(r)[i] = first[i]
  <2>1. i \in 1 .. 3 + k
    BY <1>3
  <2>. QED
    BY <1>6, <1>7, <2>1
<1>9. ASSUME NEW i \in 1 .. k PROVE HttpCells(r)[3 + i] = middle[i]
  <2>1. 3 + i \in 1 .. 3 + k
    BY <1>3
  <2>. QED
    BY <1>6, <1>7, <2>1
<1>10. HttpCells(r)[k + 4] = last[1] /\ HttpCells(r)[k + 5] = last[2]
  BY <1>3, <1>7
<1>11. \A i \in 1 .. k : HttpCells(r)[3 + i] = <<"line", r.lines[i]>>
  BY <1>4, <1>9
<1>12. /\ HttpCells(r)[1] = <<"get", 0>> /\ HttpCells(r)[2] = <<"text", 0>>
       /\ HttpCells(r)[3] = <<"line", "request">>
  BY <1>1, <1>8
<1>13. HttpCells(r)[k + 4] = <<"end", 0>> /\ HttpCells(r)[k + 5] = <<"lf", 0>>
  BY <1>2, <1>10
<1>14. IsSeq(HttpCells(r)) /\ Len(HttpCells(r)) = k + 5
  BY <1>3, <1>7
<1>. QED
  BY <1>3, <1>11, <1>12, <1>13, <1>14

LEMMA FrameHeadShape ==
  ASSUME NEW r, NEW n \in Nat, n = Len(PacketCells(r)), r.masked \in BOOLEAN,
         NEW f, f = Len(FrameHead(r))
  PROVE  /\ IsSeq(FrameHead(r))
         /\ f = 2 + (IF n < LEN16 THEN 0 ELSE 1) + (IF r.masked THEN 1 ELSE 0)
         /\ FrameHead(r)[1] = <<"op", r.binary>>
         /\ FrameHead(r)[2] = <<"len7", [len |-> Len7(n), masked |-> r.masked]>>
         /\ n >= LEN16 => FrameHead(r)[3] = <<"ext", n>>
         /\ r.masked => FrameHead(r)[f] = <<"mask", 0>>
<1>. DEFINE op   == <<<<"op", r.binary>>>>
            len7 == <<<<"len7", [len |-> Len7(n), masked |-> r.masked]>>>>
            ext  == IF n < LEN16 THEN <<>> ELSE <<<<"ext", n>>>>
            mask == IF r.masked THEN <<<<"mask", 0>>>> ELSE <<>>
<1>0. LEN16 \in Nat
  BY LengthAssumption
<1>1. /\ IsSeq(op) /\ Len(op) = 1 /\ op[1] = <<"op", r.binary>>
      /\ IsSeq(len7) /\ Len(len7) = 1
      /\ len7[1] = <<"len7", [len |-> Len7(n), masked |-> r.masked]>>
  BY ShortSeqs
<1>2. /\ IsSeq(ext) /\ Len(ext) = (IF n < LEN16 THEN 0 ELSE 1)
      /\ n >= LEN16 => ext[1] = <<"ext", n>>
  BY <1>0, ShortSeqs
<1>3. /\ IsSeq(mask) /\ Len(mask) = (IF r.masked THEN 1 ELSE 0)
      /\ r.masked => mask[1] = <<"mask", 0>>
  BY ShortSeqs
<1>4. FrameHead(r) = Cat(Cat(op, Cat(len7, ext)), mask)
  BY DEF FrameHead, LengthCells, Len7, Cat
<1>. HIDE DEF op, len7, ext, mask
<1>5. /\ IsSeq(Cat(len7, ext)) /\ Len(Cat(len7, ext)) = 1 + Len(ext)
      /\ Cat(len7, ext)[1] = len7[1]
      /\ \A i \in 1 .. Len(ext) : Cat(len7, ext)[1 + i] = ext[i]
  <2>1. CatFacts(len7, ext)
    BY <1>1, <1>2, ConcatSeq
  <2>. QED
    BY <1>1, <1>2, <2>1 DEF CatFacts
<1>6. /\ IsSeq(Cat(op, Cat(len7, ext))) /\ Len(Cat(op, Cat(len7, ext))) = 2 + Len(ext)
      /\ Cat(op, Cat(len7, ext))[1] = op[1]
      /\ \A i \in 1 .. 1 + Len(ext) : Cat(op, Cat(len7, ext))[1 + i] = Cat(len7, ext)[i]
  <2>1. CatFacts(op, Cat(len7, ext))
    BY <1>1, <1>2, <1>5, ConcatSeq
  <2>. QED
    BY <1>1, <1>2, <1>5, <2>1 DEF CatFacts
<1>7. /\ IsSeq(FrameHead(r)) /\ f = 2 + Len(ext) + Len(mask)
      /\ \A i \in 1 .. 2 + Len(ext) : FrameHead(r)[i] = Cat(op, Cat(len7, ext))[i]
      /\ \A i \in 1 .. Len(mask) : FrameHead(r)[2 + Len(ext) + i] = mask[i]
  <2>1. CatFacts(Cat(op, Cat(len7, ext)), mask)
    BY <1>3, <1>4, <1>6, ConcatSeq
  <2>. QED
    BY <1>3, <1>4, <1>6, <2>1 DEF CatFacts
<1>8. FrameHead(r)[1] = op[1] /\ FrameHead(r)[2] = len7[1]
  BY <1>2, <1>5, <1>6, <1>7
<1>9. n >= LEN16 => FrameHead(r)[3] = ext[1]
  <2>. SUFFICES ASSUME n >= LEN16 PROVE FrameHead(r)[3] = ext[1]
    OBVIOUS
  <2>1. Len(ext) = 1
    BY <1>0, <1>2
  <2>2. Cat(len7, ext)[1 + 1] = ext[1]
    BY <1>5, <2>1
  <2>3. Cat(op, Cat(len7, ext))[1 + 2] = Cat(len7, ext)[2]
    BY <1>6, <2>1
  <2>4. FrameHead(r)[3] = Cat(op, Cat(len7, ext))[3]
    BY <1>7, <2>1
  <2>. QED
    BY <2>2, <2>3, <2>4
<1>10. r.masked => FrameHead(r)[f] = mask[1]
  BY <1>2, <1>3, <1>7
<1>. QED
  BY <1>1, <1>2, <1>3, <1>7, <1>8, <1>9, <1>10

LEMMA FrameBodyShape ==
  ASSUME NEW r, NEW n \in Nat, n = Len(PacketCells(r)), IsSeq(PacketCells(r)),
         r.masked \in BOOLEAN
  PROVE  /\ IsSeq(FrameBody(r)) /\ Len(FrameBody(r)) = n
         /\ \A i \in 1 .. n : FrameBody(r)[i] =
              IF r.masked THEN <<"masked", PacketCells(r)[i]>> ELSE PacketCells(r)[i]
<1>1. CASE r.masked
  <2>1. FrameBody(r) = [i \in 1 .. n |-> <<"masked", PacketCells(r)[i]>>]
    BY <1>1 DEF FrameBody
  <2>. QED
    BY <1>1, <2>1, FunctionSeq
<1>2. CASE ~r.masked
  BY <1>2 DEF FrameBody
<1>. QED
  BY <1>1, <1>2

-----------------------------------------------------------------------------
(***************************************************************************)
(* The stream.  sent are the cells of the client, in the records that have *)
(* arrived, left those it has not sent, ends the ends of its records.      *)
(* Record k has the cells from place[k] + 1 to place[k + 1].               *)
(***************************************************************************)

InPlace(sent, record, from, to) ==
  /\ IsSeq(record) /\ from < to /\ Len(record) = to - from
  /\ \A i \in 1 .. Len(record) : record[i] = sent[from + i]

Places(sent, in, left, ends, place) ==
  /\ place \in [1 .. Len(in) + 1 -> 0 .. Len(sent) - Len(left)]
  /\ place[Len(in) + 1] = Len(sent) - Len(left)
  /\ \A k \in 1 .. Len(in) :
       /\ InPlace(sent, in[k], place[k], place[k + 1])
       /\ place[k + 1] \in ends
       /\ \A c \in ends : c <= place[k] \/ c >= place[k + 1]

At(sent, in, left, ends, p) ==
  \E place : Places(sent, in, left, ends, place) /\ p = place[1]

\* How many cells the child has read.
Here == CHOOSE p : At(Cells(request), inbox, wire, cuts, p)

Stream(sent, in, left, ends) ==
  /\ IsSeq(sent) /\ IsSeq(in) /\ IsSeq(left)
  /\ Len(left) <= Len(sent)
  /\ \A i \in 1 .. Len(left) : left[i] = sent[Len(sent) - Len(left) + i]
  /\ ends \subseteq 1 .. Len(sent) - Len(left)
  /\ \E p : At(sent, in, left, ends, p)

LEMMA OnePlace ==
  ASSUME NEW sent, NEW in, NEW left, NEW ends, IsSeq(in),
         NEW p, At(sent, in, left, ends, p), NEW q, At(sent, in, left, ends, q)
  PROVE  p = q
<1>1. PICK a : Places(sent, in, left, ends, a) /\ p = a[1]
  BY DEF At
<1>2. PICK b : Places(sent, in, left, ends, b) /\ q = b[1]
  BY DEF At
<1>. DEFINE n == Len(in)
            D == {d \in Nat : d <= n /\ a[n + 1 - d] # b[n + 1 - d]}
<1>3. n \in Nat
  BY SeqShape
<1>4. ASSUME NEW d \in D PROVE FALSE
  <2>1. D \subseteq Nat /\ D # {}
    BY <1>4
  <2>. HIDE DEF D
  <2>2. PICK e \in D : \A x \in D : e <= x
    BY <2>1, Least
  <2>. USE DEF D
  <2>a. e \in Nat /\ e <= n /\ a[n + 1 - e] # b[n + 1 - e]
    OBVIOUS
  <2>3. e # 0
    BY <1>1, <1>2, <1>3, <2>a DEF Places
  <2>4. e - 1 \in Nat /\ e - 1 < e
    BY <2>a, <2>3
  <2>5. e - 1 \notin D
    BY <2>2, <2>a, <2>4
  <2>. DEFINE k == n + 1 - e
  <2>6. k \in 1 .. n /\ k + 1 = n + 1 - (e - 1)
    BY <1>3, <2>a, <2>3
  <2>7. a[k + 1] = b[k + 1]
    <3>1. e - 1 <= n
      BY <1>3, <2>a
    <3>2. a[n + 1 - (e - 1)] = b[n + 1 - (e - 1)]
      BY <2>4, <2>5, <3>1
    <3>. QED
      BY <2>6, <3>2
  <2>8. /\ a[k] \in Int /\ a[k + 1] \in Int /\ b[k] \in Int /\ b[k + 1] \in Int
        /\ Len(in[k]) = a[k + 1] - a[k] /\ Len(in[k]) = b[k + 1] - b[k]
    <3>1. k \in 1 .. Len(in) + 1 /\ k + 1 \in 1 .. Len(in) + 1
      BY <1>3, <2>6
    <3>2. /\ a \in [1 .. Len(in) + 1 -> 0 .. Len(sent) - Len(left)]
          /\ b \in [1 .. Len(in) + 1 -> 0 .. Len(sent) - Len(left)]
      BY <1>1, <1>2 DEF Places
    <3>3. InPlace(sent, in[k], a[k], a[k + 1]) /\ InPlace(sent, in[k], b[k], b[k + 1])
      BY <1>1, <1>2, <2>6 DEF Places
    <3>. DEFINE R == 0 .. Len(sent) - Len(left)
    <3>4. \A x \in R : x \in Int
      OBVIOUS
    <3>5. /\ a[k] \in R /\ a[k + 1] \in R /\ b[k] \in R /\ b[k + 1] \in R
      BY <3>1, <3>2
    <3>6. /\ a[k] \in Int /\ a[k + 1] \in Int /\ b[k] \in Int /\ b[k + 1] \in Int
      BY <3>4, <3>5
    <3>. QED
      BY <3>3, <3>6 DEF InPlace
  <2>9. a[k] = b[k]
    BY <2>7, <2>8
  <2>. QED
    BY <2>a, <2>9
<1>5. n \in Nat /\ n <= n /\ n + 1 - n = 1
  BY <1>3
<1>6. n \notin D
  BY <1>4
<1>. QED
  BY <1>1, <1>2, <1>5, <1>6

LEMMA StreamPlace ==
  ASSUME NEW sent, NEW in, NEW left, NEW ends, Stream(sent, in, left, ends),
         NEW p, At(sent, in, left, ends, p)
  PROVE  /\ p \in Nat /\ p <= Len(sent) - Len(left) /\ Len(sent) - Len(left) \in Nat
         /\ in = <<>> <=> p = Len(sent) - Len(left)
         /\ in # <<>> =>
              \E q \in Nat :
                /\ InPlace(sent, in[1], p, q) /\ q \in ends
                /\ \A c \in ends : c <= p \/ c >= q
         /\ \A k \in 1 .. Len(in) : in[k] # <<>>
<1>1. PICK place : Places(sent, in, left, ends, place) /\ p = place[1]
  BY DEF At
<1>2. IsSeq(in) /\ Len(in) \in Nat /\ (in = <<>> <=> Len(in) = 0)
  BY SeqShape DEF Stream
<1>3. Len(sent) \in Nat /\ Len(left) \in Nat /\ Len(left) <= Len(sent)
  BY SeqShape DEF Stream
<1>4. \A k \in 1 .. Len(in) + 1 : place[k] \in 0 .. Len(sent) - Len(left)
  BY <1>1 DEF Places
<1>5. p \in 0 .. Len(sent) - Len(left)
  BY <1>1, <1>2, <1>4
<1>6. ASSUME NEW k \in 1 .. Len(in) PROVE in[k] # <<>>
  <2>1. k \in 1 .. Len(in) + 1 /\ k + 1 \in 1 .. Len(in) + 1
    BY <1>2
  <2>. DEFINE a == place[k]
              b == place[k + 1]
  <2>2. a \in Nat /\ b \in Nat
    BY <1>3, <1>4, <2>1
  <2>3. InPlace(sent, in[k], a, b)
    BY <1>1 DEF Places
  <2>. HIDE DEF a, b
  <2>4. Len(in[k]) = b - a /\ a < b /\ IsSeq(in[k])
    BY <2>3 DEF InPlace
  <2>5. Len(in[k]) # 0
    BY <2>2, <2>4
  <2>. QED
    BY <2>4, <2>5, SeqShape
<1>7. CASE in = <<>>
  BY <1>1, <1>2, <1>3, <1>5, <1>6, <1>7 DEF Places
<1>8. CASE in # <<>>
  <2>1. 1 \in 1 .. Len(in) /\ 1 + 1 \in 1 .. Len(in) + 1
    BY <1>2, <1>8
  <2>. DEFINE q == place[1 + 1]
  <2>2. q \in 0 .. Len(sent) - Len(left)
    BY <1>4, <2>1
  <2>3. /\ InPlace(sent, in[1], p, q) /\ q \in ends
        /\ \A c \in ends : c <= p \/ c >= q
    BY <1>1, <2>1 DEF Places
  <2>4. p < q
    BY <2>3 DEF InPlace
  <2>. HIDE DEF q
  <2>. QED
    BY <1>3, <1>5, <1>6, <1>8, <2>2, <2>3, <2>4
<1>. QED
  BY <1>7, <1>8

\* A record of n cells.
Sends(sent, in, left, ends, n, in1, left1, ends1) ==
  /\ in1 = Append(in, SubSeq(left, 1, n))
  /\ left1 = SubSeq(left, n + 1, Len(left))
  /\ ends1 = ends \cup {Len(sent) - Len(left) + n}

LEMMA StreamSend ==
  ASSUME NEW sent, NEW in, NEW left, NEW ends, Stream(sent, in, left, ends),
         NEW p, At(sent, in, left, ends, p), NEW n \in 1 .. Len(left),
         NEW in1, NEW left1, NEW ends1, Sends(sent, in, left, ends, n, in1, left1, ends1)
  PROVE  /\ Stream(sent, in1, left1, ends1) /\ At(sent, in1, left1, ends1, p)
         /\ Len(left1) < Len(left)
<1>1. PICK place : Places(sent, in, left, ends, place) /\ p = place[1]
  BY DEF At
<1>. DEFINE S == Len(sent)
            L == Len(left)
            m == Len(in)
<1>2. S \in Nat /\ L \in Nat /\ m \in Nat /\ L <= S /\ n \in Nat /\ n >= 1 /\ n <= L
  BY SeqShape DEF Stream
<1>3. IsSeq(SubSeq(left, 1, n)) /\ Len(SubSeq(left, 1, n)) = n
      /\ \A i \in 1 .. n : SubSeq(left, 1, n)[i] = left[i]
  BY <1>2, SubSeqShape
<1>4. IsSeq(left1) /\ Len(left1) = L - n
      /\ \A i \in 1 .. L - n : left1[i] = left[n + i]
  BY <1>2, SubSeqShape DEF Sends
<1>5. /\ IsSeq(in1) /\ Len(in1) = m + 1 /\ in1[m + 1] = SubSeq(left, 1, n)
      /\ \A k \in 1 .. m : in1[k] = in[k]
  <2>. DEFINE C == {in[k] : k \in DOMAIN in} \cup {SubSeq(left, 1, n)}
  <2>1. in \in Seq(C) /\ SubSeq(left, 1, n) \in C
    BY SeqMonotonic DEF IsSeq, Stream
  <2>. HIDE DEF C
  <2>2. /\ in1 \in Seq(C) /\ Len(in1) = Len(in) + 1 /\ in1[Len(in) + 1] = SubSeq(left, 1, n)
        /\ \A k \in 1 .. Len(in) : in1[k] = in[k]
    BY <2>1, AppendProperties DEF Sends
  <2>3. IsSeq(in1)
    BY <2>2, AnySeq
  <2>. QED
    BY <2>2, <2>3
<1>6. /\ \A i \in 1 .. L : left[i] = sent[S - L + i]
      /\ ends \subseteq 1 .. S - L
      /\ IsSeq(sent)
  BY DEF Stream
<1>7. /\ place \in [1 .. m + 1 -> 0 .. S - L] /\ place[m + 1] = S - L
      /\ \A k \in 1 .. m :
           /\ InPlace(sent, in[k], place[k], place[k + 1])
           /\ place[k + 1] \in ends
           /\ \A c \in ends : c <= place[k] \/ c >= place[k + 1]
  BY <1>1 DEF Places
<1>a. ends1 = ends \cup {S - L + n} /\ S - L \in Nat /\ S - L + n \in Nat
  BY <1>2 DEF Sends
<1>b. S = Len(sent) /\ L = Len(left) /\ m = Len(in)
  OBVIOUS
<1>. HIDE DEF S, L, m
<1>. DEFINE place1 == [k \in 1 .. (m + 1) + 1 |-> IF k = m + 2 THEN S - L + n ELSE place[k]]
<1>8. place1 \in [1 .. (m + 1) + 1 -> 0 .. S - (L - n)]
  BY <1>2, <1>7
<1>9. place1[(m + 1) + 1] = S - (L - n) /\ place1[m + 1] = S - L /\ place1[1] = place[1]
  BY <1>2, <1>7
<1>10. ASSUME NEW k \in 1 .. m + 1
       PROVE  /\ InPlace(sent, in1[k], place1[k], place1[k + 1])
              /\ place1[k + 1] \in ends1
              /\ \A c \in ends1 : c <= place1[k] \/ c >= place1[k + 1]
  <2>1. CASE k = m + 1
    <3>1. InPlace(sent, SubSeq(left, 1, n), S - L, S - L + n)
      <4>1. S - L < S - L + n /\ (S - L + n) - (S - L) = n
        BY <1>2
      <4>2. \A i \in 1 .. n : SubSeq(left, 1, n)[i] = sent[S - L + i]
        <5>1. \A i \in 1 .. n : i \in 1 .. L
          BY <1>2
        <5>. QED
          BY <1>3, <1>6, <5>1
      <4>. QED
        BY <1>3, <4>1, <4>2 DEF InPlace
    <3>2. place1[k] = S - L /\ place1[k + 1] = S - L + n
      BY <1>2, <1>9, <2>1
    <3>3. S - L + n \in ends1
      BY <1>a
    <3>4. ASSUME NEW c \in ends1 PROVE c <= S - L \/ c >= S - L + n
      <4>1. c \in ends => c \in 1 .. S - L
        BY <1>6
      <4>2. c \in ends \/ c = S - L + n
        BY <1>a
      <4>. QED
        BY <1>a, <4>1, <4>2
    <3>. HIDE DEF place1
    <3>. QED
      BY <1>5, <2>1, <3>1, <3>2, <3>3, <3>4
  <2>2. CASE k \in 1 .. m
    <3>1. place1[k] = place[k] /\ place1[k + 1] = place[k + 1]
      BY <1>2, <2>2
    <3>2. /\ place[k] \in 0 .. S - L /\ place[k + 1] \in 0 .. S - L
      BY <1>2, <1>7, <2>2
    <3>3. S - L + n >= place[k + 1]
      BY <1>2, <3>2
    <3>. HIDE DEF place1
    <3>. QED
      BY <1>5, <1>7, <1>a, <2>2, <3>1, <3>3
  <2>3. k = m + 1 \/ k \in 1 .. m
    BY <1>2
  <2>. HIDE DEF place1
  <2>. QED
    BY <2>1, <2>2, <2>3
<1>11. Places(sent, in1, left1, ends1, place1)
  <2>1. S - Len(left1) = S - (L - n)
    BY <1>4
  <2>. HIDE DEF place1
  <2>. QED
    BY <1>5, <1>8, <1>9, <1>10, <2>1 DEF Places, S
<1>12. At(sent, in1, left1, ends1, p)
  BY <1>1, <1>9, <1>11 DEF At
<1>13. /\ Len(left1) <= S /\ S - Len(left1) = S - L + n
       /\ \A i \in 1 .. Len(left1) : left1[i] = sent[S - Len(left1) + i]
  <2>1. ASSUME NEW i \in 1 .. L - n PROVE left1[i] = sent[S - (L - n) + i]
    <3>1. n + i \in 1 .. L /\ S - L + (n + i) = S - (L - n) + i
      BY <1>2
    <3>. QED
      BY <1>4, <1>6, <3>1
  <2>2. L - n <= S /\ S - (L - n) = S - L + n
    BY <1>2
  <2>3. Len(left1) = L - n
    BY <1>4
  <2>. QED
    BY <2>1, <2>2, <2>3
<1>14. ends1 \subseteq 1 .. S - L + n
  <2>. SUFFICES ASSUME NEW c \in ends1 PROVE c \in 1 .. S - L + n
    OBVIOUS
  <2>1. c \in 1 .. S - L \/ c = S - L + n
    BY <1>6, <1>a
  <2>. QED
    BY <1>2, <1>a, <2>1
<1>15. Len(left1) < L
  BY <1>2, <1>4
<1>16. Stream(sent, in1, left1, ends1)
  BY <1>4, <1>5, <1>6, <1>12, <1>13, <1>14, <1>b DEF Stream
<1>. QED
  BY <1>12, <1>15, <1>16, <1>b

LEMMA TailShape ==
  ASSUME NEW s, IsSeq(s), s # <<>>
  PROVE  /\ IsSeq(Tail(s)) /\ Len(Tail(s)) = Len(s) - 1
         /\ \A i \in 1 .. Len(s) - 1 : Tail(s)[i] = s[i + 1]
<1>. DEFINE S == {s[i] : i \in DOMAIN s}
<1>1. s \in Seq(S)
  BY DEF IsSeq
<1>. HIDE DEF S
<1>2. /\ Tail(s) \in Seq(S) /\ Len(Tail(s)) = Len(s) - 1
      /\ \A i \in 1 .. Len(Tail(s)) : Tail(s)[i] = s[i + 1]
  BY <1>1, HeadTailProperties
<1>3. IsSeq(Tail(s))
  BY <1>2, AnySeq
<1>. QED
  BY <1>2, <1>3

\* n cells are asked for: a record that is shorter, or the front of one.
LEMMA StreamReadAll ==
  ASSUME NEW sent, NEW in, NEW left, NEW ends, Stream(sent, in, left, ends),
         NEW p, At(sent, in, left, ends, p), in # <<>>
  PROVE  /\ Stream(sent, Tail(in), left, ends)
         /\ At(sent, Tail(in), left, ends, p + Len(in[1]))
<1>1. PICK place : Places(sent, in, left, ends, place) /\ p = place[1]
  BY DEF At
<1>2. PICK S \in Nat : S = Len(sent) - Len(left)
  <2>1. Len(sent) \in Nat /\ Len(left) \in Nat /\ Len(left) <= Len(sent)
    BY SeqShape DEF Stream
  <2>2. Len(sent) - Len(left) \in Nat
    BY <2>1
  <2>. QED
    BY <2>2
<1>3. PICK m \in Nat : m = Len(in)
  BY SeqShape DEF Stream
<1>4. m >= 1
  BY <1>3, SeqShape DEF Stream
<1>5. /\ IsSeq(Tail(in)) /\ Len(Tail(in)) = m - 1
      /\ \A k \in 1 .. m - 1 : Tail(in)[k] = in[k + 1]
  BY <1>3, TailShape DEF Stream
<1>6. /\ place \in [1 .. m + 1 -> 0 .. S] /\ place[m + 1] = S
      /\ \A k \in 1 .. m :
           /\ InPlace(sent, in[k], place[k], place[k + 1])
           /\ place[k + 1] \in ends
           /\ \A c \in ends : c <= place[k] \/ c >= place[k + 1]
  BY <1>1, <1>2, <1>3 DEF Places
<1>. DEFINE place1 == [k \in 1 .. (m - 1) + 1 |-> place[k + 1]]
<1>7. \A k \in 1 .. (m - 1) + 1 : k + 1 \in 1 .. m + 1
  BY <1>4
<1>8. place1 \in [1 .. (m - 1) + 1 -> 0 .. S]
  BY <1>6, <1>7
<1>9. place1[(m - 1) + 1] = S /\ place1[1] = place[1 + 1]
  BY <1>4, <1>6
<1>10. ASSUME NEW k \in 1 .. m - 1
       PROVE  /\ InPlace(sent, Tail(in)[k], place1[k], place1[k + 1])
              /\ place1[k + 1] \in ends
              /\ \A c \in ends : c <= place1[k] \/ c >= place1[k + 1]
  <2>1. k + 1 \in 1 .. m /\ k \in 1 .. (m - 1) + 1 /\ k + 1 \in 1 .. (m - 1) + 1
    BY <1>4
  <2>2. place1[k] = place[k + 1] /\ place1[k + 1] = place[(k + 1) + 1]
    BY <2>1
  <2>3. Tail(in)[k] = in[k + 1]
    BY <1>5
  <2>. HIDE DEF place1
  <2>. QED
    BY <1>6, <2>1, <2>2, <2>3
<1>. HIDE DEF place1
<1>11. Places(sent, Tail(in), left, ends, place1)
  BY <1>2, <1>5, <1>8, <1>9, <1>10 DEF Places
<1>12. place1[1] = p + Len(in[1])
  <2>1. InPlace(sent, in[1], place[1], place[1 + 1])
    BY <1>4, <1>6
  <2>2. place[1] \in 0 .. S /\ place[1 + 1] \in 0 .. S
    BY <1>4, <1>6
  <2>. QED
    BY <1>1, <1>9, <2>1, <2>2 DEF InPlace
<1>13. At(sent, Tail(in), left, ends, p + Len(in[1]))
  BY <1>11, <1>12 DEF At
<1>. QED
  BY <1>5, <1>13 DEF Stream

\* What is left behind the first n of the cells from p to q.
LEMMA Shift ==
  ASSUME NEW p \in Nat, NEW q \in Nat, NEW n \in Nat, p < q, n < q - p
  PROVE  /\ n + 1 \in Nat \ {0} /\ q - p \in Nat /\ n + 1 <= q - p
         /\ (q - p) - (n + 1) + 1 = q - (p + n) /\ p + n < q /\ p + n \in Nat
         /\ \A i \in 1 .. q - (p + n) :
              n + i \in 1 .. q - p /\ (n + 1) + i - 1 = n + i /\ p + (n + i) = (p + n) + i
OBVIOUS

LEMMA StreamReadFront ==
  ASSUME NEW sent, NEW in, NEW left, NEW ends, Stream(sent, in, left, ends),
         NEW p, At(sent, in, left, ends, p), in # <<>>,
         NEW n \in Nat, n < Len(in[1]),
         NEW in1, in1 = Cat(<<SubSeq(in[1], n + 1, Len(in[1]))>>, Tail(in))
  PROVE  Stream(sent, in1, left, ends) /\ At(sent, in1, left, ends, p + n)
<1>1. PICK place : Places(sent, in, left, ends, place) /\ p = place[1]
  BY DEF At
<1>2. PICK S \in Nat : S = Len(sent) - Len(left)
  <2>1. Len(sent) \in Nat /\ Len(left) \in Nat /\ Len(left) <= Len(sent)
    BY SeqShape DEF Stream
  <2>2. Len(sent) - Len(left) \in Nat
    BY <2>1
  <2>. QED
    BY <2>2
<1>3. PICK m \in Nat : m = Len(in)
  BY SeqShape DEF Stream
<1>4. m >= 1
  BY <1>3, SeqShape DEF Stream
<1>5. /\ place \in [1 .. m + 1 -> 0 .. S] /\ place[m + 1] = S
      /\ \A k \in 1 .. m :
           /\ InPlace(sent, in[k], place[k], place[k + 1])
           /\ place[k + 1] \in ends
           /\ \A c \in ends : c <= place[k] \/ c >= place[k + 1]
  BY <1>1, <1>2, <1>3 DEF Places
<1>. DEFINE rest == SubSeq(in[1], n + 1, Len(in[1]))
            q == place[1 + 1]
<1>6. p \in Nat /\ q \in 0 .. S /\ p < q /\ Len(in[1]) = q - p
      /\ \A i \in 1 .. q - p : in[1][i] = sent[p + i]
  BY <1>1, <1>4, <1>5 DEF InPlace
<1>. HIDE DEF q
<1>s. /\ n + 1 \in Nat \ {0} /\ q - p \in Nat /\ n + 1 <= q - p
      /\ (q - p) - (n + 1) + 1 = q - (p + n) /\ p + n < q
      /\ \A i \in 1 .. q - (p + n) :
           n + i \in 1 .. q - p /\ (n + 1) + i - 1 = n + i /\ p + (n + i) = (p + n) + i
  <2>1. q \in Nat /\ n < q - p
    BY <1>6
  <2>. HIDE DEF rest
  <2>. QED
    BY <1>6, <2>1, Shift
<1>7. /\ IsSeq(rest) /\ Len(rest) = q - (p + n)
      /\ \A i \in 1 .. q - (p + n) : rest[i] = in[1][n + i]
  <2>1. rest = SubSeq(in[1], n + 1, q - p)
    BY <1>6
  <2>. HIDE DEF rest
  <2>2. /\ IsSeq(SubSeq(in[1], n + 1, q - p))
        /\ Len(SubSeq(in[1], n + 1, q - p)) =
             IF n + 1 <= q - p THEN (q - p) - (n + 1) + 1 ELSE 0
        /\ \A i \in 1 .. (q - p) - (n + 1) + 1 :
             SubSeq(in[1], n + 1, q - p)[i] = in[1][(n + 1) + i - 1]
    BY <1>s, SubSeqShape
  <2>. QED
    BY <1>s, <2>1, <2>2
<1>8. InPlace(sent, rest, p + n, q)
  <2>. HIDE DEF rest
  <2>1. ASSUME NEW i \in 1 .. q - (p + n) PROVE rest[i] = sent[(p + n) + i]
    <3>1. n + i \in 1 .. q - p /\ p + (n + i) = (p + n) + i
      BY <1>s
    <3>. QED
      BY <1>6, <1>7, <3>1
  <2>. QED
    BY <1>s, <1>7, <2>1 DEF InPlace
<1>. HIDE DEF rest
<1>. DEFINE others == Tail(in)
<1>9. /\ IsSeq(others) /\ Len(others) = m - 1
      /\ \A k \in 1 .. m - 1 : others[k] = in[k + 1]
  BY <1>3, TailShape DEF Stream
<1>. DEFINE one == <<rest>>
<1>10. in1 = Cat(one, others)
  BY DEF rest
<1>. HIDE DEF others
<1>11. IsSeq(one) /\ Len(one) = 1 /\ one[1] = rest
  BY ShortSeqs
<1>. HIDE DEF one
<1>12. CatFacts(one, others)
  BY <1>9, <1>11, ConcatSeq
<1>13. /\ IsSeq(in1) /\ Len(in1) = 1 + (m - 1) /\ in1[1] = rest
       /\ \A k \in 1 .. m - 1 : in1[1 + k] = others[k]
  <2>1. /\ IsSeq(in1) /\ Len(in1) = Len(one) + Len(others)
        /\ \A k \in 1 .. Len(one) : in1[k] = one[k]
        /\ \A k \in 1 .. Len(others) : in1[Len(one) + k] = others[k]
    BY <1>10, <1>12 DEF CatFacts
  <2>2. IsSeq(in1) /\ Len(in1) = 1 + (m - 1)
    BY <1>9, <1>11, <2>1
  <2>3. in1[1] = rest
    BY <1>11, <2>1
  <2>4. ASSUME NEW k \in 1 .. m - 1 PROVE in1[1 + k] = others[k]
    BY <1>9, <1>11, <2>1
  <2>. QED
    BY <2>2, <2>3, <2>4
<1>. DEFINE place1 == [place EXCEPT ![1] = p + n]
<1>14. place1 \in [1 .. m + 1 -> 0 .. S]
  <2>1. p + n \in 0 .. S
    BY <1>6, <1>s
  <2>. QED
    BY <1>5, <2>1
<1>15. place1[1] = p + n /\ \A k \in 2 .. m + 1 : place1[k] = place[k]
  BY <1>4, <1>5
<1>16. ASSUME NEW k \in 1 .. m
       PROVE  /\ InPlace(sent, in1[k], place1[k], place1[k + 1])
              /\ place1[k + 1] \in ends
              /\ \A c \in ends : c <= place1[k] \/ c >= place1[k + 1]
  <2>1. CASE k = 1
    <3>1. place1[k] = p + n /\ place1[k + 1] = q /\ in1[k] = rest
      BY <1>4, <1>13, <1>15, <2>1 DEF q
    <3>2. q \in ends /\ \A c \in ends : c <= p \/ c >= q
      BY <1>1, <1>4, <1>5 DEF q
    <3>3. ASSUME NEW c \in ends PROVE c <= p + n \/ c >= q
      <4>1. c \in Int /\ (c <= p \/ c >= q)
        BY <3>2 DEF Stream
      <4>. HIDE DEF place1
      <4>. QED
        BY <1>6, <4>1
    <3>. HIDE DEF place1
    <3>. QED
      BY <1>8, <3>1, <3>2, <3>3
  <2>2. CASE k # 1
    <3>1. k - 1 \in 1 .. m - 1 /\ 1 + (k - 1) = k /\ (k - 1) + 1 = k
      BY <1>4, <2>2
    <3>2. in1[k] = in[k]
      BY <1>9, <1>13, <3>1
    <3>3. place1[k] = place[k] /\ place1[k + 1] = place[k + 1]
      BY <1>4, <1>15, <2>2
    <3>. HIDE DEF place1
    <3>. QED
      BY <1>5, <3>2, <3>3
  <2>. QED
    BY <2>1, <2>2
<1>17. place1[m + 1] = S
  BY <1>4, <1>5, <1>15
<1>18. Len(in1) = m
  BY <1>13
<1>. HIDE DEF place1
<1>19. Places(sent, in1, left, ends, place1)
  BY <1>2, <1>14, <1>16, <1>17, <1>18 DEF Places
<1>20. At(sent, in1, left, ends, p + n)
  BY <1>15, <1>19 DEF At
<1>. QED
  BY <1>13, <1>20 DEF Stream

-----------------------------------------------------------------------------
(***************************************************************************)
(* The whole request.                                                      *)
(***************************************************************************)

LEMMA RequestFacts ==
  ASSUME NEW r \in Requests
  PROVE  /\ IsSeq(r.lines) /\ Len(r.lines) \in Nat /\ Len(r.lines) < MaxHeaders
         /\ IsHttp(r) => Len(r.lines) >= 1
         /\ IsSeq(r.data) /\ Len(r.data) \in Nat
         /\ HeaderSize + Len(r.data) + 1 < Width
         /\ \A i \in 1 .. Len(r.data) : r.data[i][1] \in {"data", "byte"}
         /\ r.cmd \in Commands /\ r.len \in 0 .. (Width - 1)
         /\ r.masked \in BOOLEAN /\ r.binary \in BOOLEAN
<1>1. IsSeq(r.lines) /\ IsSeq(r.data)
  BY RequestAssumption DEF IsSeq
<1>2. /\ Len(r.lines) < MaxHeaders /\ HeaderSize + Len(r.data) + 1 < Width
      /\ \A i \in DOMAIN r.data : r.data[i][1] \in {"data", "byte"}
      /\ r.cmd \in Commands /\ r.len \in 0 .. (Width - 1)
      /\ r.masked \in BOOLEAN /\ r.binary \in BOOLEAN
  BY RequestAssumption
<1>3. IsHttp(r) => Len(r.lines) >= 1
  BY <1>1, SeqShape DEF IsHttp
<1>. QED
  BY <1>1, <1>2, <1>3, SeqShape

LineCount(r)  == Len(r.lines)
HeadSize(r)   == Len(FrameHead(r))
PacketSize(r) == Len(PacketCells(r))

\* k header lines, f cells of a frame header, n cells of a packet.
LEMMA CellsShape ==
  ASSUME NEW r \in Requests, NEW k, k = LineCount(r), NEW f, f = HeadSize(r),
         NEW n, n = PacketSize(r)
  PROVE  /\ k \in Nat /\ f \in Nat /\ n \in Nat /\ IsSeq(Cells(r))
         /\ ~IsHttp(r) => Cells(r) = PacketCells(r) /\ Total(r) = n
         /\ IsHttp(r) =>
              /\ Total(r) = k + 5 + f + n
              /\ \A i \in 1 .. k + 5 : Cells(r)[i] = HttpCells(r)[i]
              /\ \A i \in 1 .. f : Cells(r)[k + 5 + i] = FrameHead(r)[i]
              /\ \A i \in 1 .. n : Cells(r)[k + 5 + f + i] = FrameBody(r)[i]
<1>. DEFINE http == HttpCells(r)
            head == FrameHead(r)
            body == FrameBody(r)
<1>0. k = Len(r.lines) /\ f = Len(head) /\ n = Len(PacketCells(r))
  BY DEF LineCount, HeadSize, PacketSize
<1>1. IsSeq(PacketCells(r)) /\ n = HeaderSize + Len(r.data) /\ n \in Nat
  BY <1>0, RequestFacts, PacketShape DEF HeaderSize
<1>2. k \in Nat /\ IsSeq(http) /\ Len(http) = k + 5
  BY <1>0, RequestFacts, HttpShape
<1>3. IsSeq(head) /\ Len(head) = f /\ f \in Nat
  <2>1. IsSeq(FrameHead(r))
    BY <1>0, <1>1, RequestFacts, FrameHeadShape
  <2>. QED
    BY <1>0, <2>1, SeqShape
<1>4. IsSeq(body) /\ Len(body) = n
  BY <1>0, <1>1, RequestFacts, FrameBodyShape
<1>5. CASE ~IsHttp(r)
  BY <1>0, <1>1, <1>2, <1>3, <1>5 DEF Cells, Total
<1>6. CASE IsHttp(r)
  <2>1. Cells(r) = Cat(Cat(http, head), body)
    BY <1>6 DEF Cells, Cat
  <2>. HIDE DEF http, head, body
  <2>2. CatFacts(http, head)
    BY <1>2, <1>3, ConcatSeq
  <2>. DEFINE front == Cat(http, head)
  <2>3. /\ IsSeq(front) /\ Len(front) = k + 5 + f
        /\ \A i \in 1 .. k + 5 : front[i] = http[i]
        /\ \A i \in 1 .. f : front[k + 5 + i] = head[i]
    BY <1>2, <1>3, <2>2 DEF CatFacts
  <2>4. Cells(r) = Cat(front, body)
    BY <2>1
  <2>. HIDE DEF front
  <2>5. CatFacts(front, body)
    BY <1>4, <2>3, ConcatSeq
  <2>6. /\ IsSeq(Cells(r)) /\ Len(Cells(r)) = k + 5 + f + n
        /\ \A i \in 1 .. k + 5 + f : Cells(r)[i] = front[i]
        /\ \A i \in 1 .. n : Cells(r)[k + 5 + f + i] = body[i]
    BY <1>4, <2>3, <2>4, <2>5 DEF CatFacts
  <2>7. \A i \in 1 .. k + 5 : i \in 1 .. k + 5 + f
    BY <1>2, <1>3
  <2>8. \A i \in 1 .. f : k + 5 + i \in 1 .. k + 5 + f
    BY <1>2, <1>3
  <2>. QED
    BY <1>1, <1>2, <1>3, <1>6, <2>3, <2>6, <2>7, <2>8 DEF http, head, body, Total
<1>. QED
  BY <1>5, <1>6

SentByte(cell) == \E r \in Requests : \E i \in DOMAIN r.data : cell = r.data[i]

\* The values of the cells of the kinds that the code reads as such.
TypedCell(cell) ==
  /\ cell[1] = "byte" => SentByte(cell)
  /\ cell[1] = "cmd"  => cell[2] \in Commands
  /\ cell[1] \in {"len", "ext"} => cell[2] \in 0 .. (Width - 1)
  /\ cell[1] = "op"   => cell[2] \in BOOLEAN
  /\ cell[1] = "len7" => cell[2] \in [len : 0 .. LEN64, masked : BOOLEAN]

LEMMA PacketTyped ==
  ASSUME NEW r \in Requests, NEW i \in 1 .. PacketSize(r)
  PROVE  TypedCell(PacketCells(r)[i]) /\ PacketCells(r)[i][1] # "masked"
<1>1. /\ PacketSize(r) = 2 + Len(r.data) /\ Len(r.data) \in Nat
      /\ PacketCells(r)[1] = <<"cmd", r.cmd>> /\ PacketCells(r)[2] = <<"len", r.len>>
      /\ \A j \in 1 .. Len(r.data) : PacketCells(r)[2 + j] = r.data[j]
  BY RequestFacts, PacketShape DEF HeaderSize, PacketSize
<1>2. CASE i = 1
  BY <1>1, <1>2, RequestFacts DEF TypedCell
<1>3. CASE i = 2
  BY <1>1, <1>3, RequestFacts DEF TypedCell
<1>4. CASE i > 2
  <2>1. i - 2 \in 1 .. Len(r.data) /\ 2 + (i - 2) = i
    BY <1>1, <1>4
  <2>2. PacketCells(r)[i] = r.data[i - 2]
    BY <1>1, <2>1
  <2>3. PacketCells(r)[i][1] \in {"data", "byte"}
    BY <2>1, <2>2, RequestFacts
  <2>4. SentByte(PacketCells(r)[i])
    <3>1. i - 2 \in DOMAIN r.data
      BY <2>1, RequestFacts, SeqShape
    <3>. QED
      BY <2>2, <3>1 DEF SentByte
  <2>. QED
    BY <2>3, <2>4 DEF TypedCell
<1>. QED
  BY <1>2, <1>3, <1>4

\* The cells of the header of a frame of n cells.
HeadCount(n, isMasked) ==
  2 + (IF n < LEN16 THEN 0 ELSE 1) + (IF isMasked THEN 1 ELSE 0)

LEMMA HeadCells ==
  ASSUME NEW r \in Requests, NEW n, n = PacketSize(r), NEW f, f = HeadSize(r)
  PROVE  /\ n \in Nat /\ n >= 2 /\ n + 1 < Width /\ n < Width
         /\ r.masked \in BOOLEAN /\ r.binary \in BOOLEAN
         /\ f = HeadCount(n, r.masked)
         /\ FrameHead(r)[1] = <<"op", r.binary>>
         /\ FrameHead(r)[2] = <<"len7", [len |-> Len7(n), masked |-> r.masked]>>
         /\ n >= LEN16 => FrameHead(r)[3] = <<"ext", n>>
         /\ r.masked => FrameHead(r)[f] = <<"mask", 0>>
<1>1. /\ n \in Nat /\ n >= 2 /\ n + 1 < Width /\ n < Width
      /\ r.masked \in BOOLEAN /\ r.binary \in BOOLEAN
  <2>1. /\ IsSeq(r.data) /\ Len(r.data) \in Nat /\ 2 + Len(r.data) + 1 < Width
        /\ r.masked \in BOOLEAN /\ r.binary \in BOOLEAN
    BY RequestFacts DEF HeaderSize
  <2>2. n = 2 + Len(r.data)
    BY <2>1, PacketShape DEF HeaderSize, PacketSize
  <2>3. Width \in Nat
    BY LengthAssumption
  <2>. QED
    BY <2>1, <2>2, <2>3
<1>2. /\ f = HeadCount(n, r.masked)
      /\ FrameHead(r)[1] = <<"op", r.binary>>
      /\ FrameHead(r)[2] = <<"len7", [len |-> Len7(n), masked |-> r.masked]>>
      /\ n >= LEN16 => FrameHead(r)[3] = <<"ext", n>>
      /\ r.masked => FrameHead(r)[f] = <<"mask", 0>>
  BY <1>1, FrameHeadShape DEF PacketSize, HeadSize, HeadCount
<1>. QED
  BY <1>1, <1>2

LEMMA FrameHeadTyped ==
  ASSUME NEW r \in Requests, NEW i \in 1 .. HeadSize(r)
  PROVE  TypedCell(FrameHead(r)[i]) /\ FrameHead(r)[i][1] # "masked"
<1>. DEFINE n == PacketSize(r)
            f == HeadSize(r)
<1>1. n \in Nat /\ n < Width /\ r.masked \in BOOLEAN /\ r.binary \in BOOLEAN
  BY HeadCells
<1>2. /\ f = HeadCount(n, r.masked)
      /\ FrameHead(r)[1] = <<"op", r.binary>>
      /\ FrameHead(r)[2] = <<"len7", [len |-> Len7(n), masked |-> r.masked]>>
      /\ n >= LEN16 => FrameHead(r)[3] = <<"ext", n>>
      /\ r.masked => FrameHead(r)[f] = <<"mask", 0>>
  BY HeadCells
<1>3. Len7(n) \in 0 .. LEN64
  BY <1>1, LengthAssumption DEF Len7
<1>4. n \in 0 .. (Width - 1) /\ i \in 1 .. f
  BY <1>1, LengthAssumption
<1>. HIDE DEF n, f
<1>5. CASE i = 1
  BY <1>1, <1>2, <1>5 DEF TypedCell
<1>6. CASE i = 2
  <2>1. [len |-> Len7(n), masked |-> r.masked] \in [len : 0 .. LEN64, masked : BOOLEAN]
    BY <1>1, <1>3
  <2>. QED
    BY <1>2, <1>6, <2>1 DEF TypedCell
<1>7. CASE i > 2
  <2>1. \/ n >= LEN16 /\ i = 3
        \/ r.masked /\ i = f
    BY <1>1, <1>2, <1>4, <1>7, LengthAssumption DEF HeadCount
  <2>. QED
    BY <1>2, <1>4, <2>1 DEF TypedCell
<1>. QED
  BY <1>4, <1>5, <1>6, <1>7

LEMMA CellsTyped ==
  ASSUME NEW r \in Requests, NEW i \in 1 .. Total(r)
  PROVE  /\ TypedCell(Cells(r)[i])
         /\ Cells(r)[i][1] = "masked" => TypedCell(Cells(r)[i][2])
<1>. DEFINE k == LineCount(r)
            f == HeadSize(r)
            n == PacketSize(r)
<1>1. CASE ~IsHttp(r)
  BY <1>1, CellsShape, PacketTyped
<1>2. CASE IsHttp(r)
  <2>1. /\ k \in Nat /\ f \in Nat /\ n \in Nat /\ Total(r) = k + 5 + f + n
        /\ \A j \in 1 .. k + 5 : Cells(r)[j] = HttpCells(r)[j]
        /\ \A j \in 1 .. f : Cells(r)[k + 5 + j] = FrameHead(r)[j]
        /\ \A j \in 1 .. n : Cells(r)[k + 5 + f + j] = FrameBody(r)[j]
    BY <1>2, CellsShape
  <2>2. CASE i \in 1 .. k + 5
    <3>1. /\ HttpCells(r)[1] = <<"get", 0>> /\ HttpCells(r)[2] = <<"text", 0>>
          /\ HttpCells(r)[3] = <<"line", "request">>
          /\ \A j \in 1 .. k : HttpCells(r)[3 + j] = <<"line", r.lines[j]>>
          /\ HttpCells(r)[k + 4] = <<"end", 0>> /\ HttpCells(r)[k + 5] = <<"lf", 0>>
      BY RequestFacts, HttpShape DEF LineCount
    <3>2. \/ i \in {1, 2, 3, k + 4, k + 5}
          \/ i - 3 \in 1 .. k /\ 3 + (i - 3) = i
      BY <2>1, <2>2
    <3>a. \A j \in 1 .. k : HttpCells(r)[3 + j][1] = "line"
      BY <3>1
    <3>3. HttpCells(r)[i][1] \in {"get", "text", "line", "end", "lf"}
      BY <3>1, <3>2, <3>a
    <3>4. Cells(r)[i][1] \in {"get", "text", "line", "end", "lf"}
      BY <2>1, <2>2, <3>3
    <3>. QED
      BY <3>4 DEF TypedCell
  <2>3. CASE i - (k + 5) \in 1 .. f
    <3>0. k + 5 + (i - (k + 5)) = i
      BY <2>1
    <3>1. Cells(r)[i] = FrameHead(r)[i - (k + 5)]
      BY <2>1, <2>3, <3>0
    <3>. QED
      BY <2>3, <3>1, FrameHeadTyped
  <2>4. CASE i - (k + 5 + f) \in 1 .. n
    <3>. DEFINE j == i - (k + 5 + f)
    <3>0. k + 5 + f + j = i
      BY <2>1
    <3>1. Cells(r)[i] = FrameBody(r)[j]
      BY <2>1, <2>4, <3>0
    <3>2. FrameBody(r)[j] = IF r.masked THEN <<"masked", PacketCells(r)[j]>> ELSE PacketCells(r)[j]
      BY <2>1, <2>4, RequestFacts, PacketShape, FrameBodyShape DEF PacketSize
    <3>3. TypedCell(PacketCells(r)[j]) /\ PacketCells(r)[j][1] # "masked"
      BY <2>4, PacketTyped
    <3>. HIDE DEF j
    <3>4. CASE r.masked
      BY <3>1, <3>2, <3>3, <3>4 DEF TypedCell
    <3>5. CASE ~r.masked
      BY <3>1, <3>2, <3>3, <3>5
    <3>. QED
      BY <3>4, <3>5
  <2>5. i \in 1 .. k + 5 \/ i - (k + 5) \in 1 .. f \/ i - (k + 5 + f) \in 1 .. n
    BY <2>1
  <2>. QED
    BY <2>2, <2>3, <2>4, <2>5
<1>. QED
  BY <1>1, <1>2

\* The cells that the code tells apart before it reads a frame.
LEMMA HttpCell ==
  ASSUME NEW r \in Requests, IsHttp(r), NEW k, k = LineCount(r)
  PROVE  /\ k \in Nat /\ k >= 1 /\ k < MaxHeaders /\ Total(r) >= k + 7
         /\ Total(r) \in Nat
         /\ Cells(r)[1] = <<"get", 0>> /\ Cells(r)[2] = <<"text", 0>>
         /\ Cells(r)[3] = <<"line", "request">>
         /\ \A i \in 1 .. k : Cells(r)[3 + i] = <<"line", r.lines[i]>>
         /\ Cells(r)[k + 4] = <<"end", 0>> /\ Cells(r)[k + 5] = <<"lf", 0>>
<1>. DEFINE f == HeadSize(r)
            n == PacketSize(r)
<1>1. /\ k \in Nat /\ f \in Nat /\ n \in Nat /\ Total(r) = k + 5 + f + n
      /\ \A i \in 1 .. k + 5 : Cells(r)[i] = HttpCells(r)[i]
  BY CellsShape
<1>2. /\ HttpCells(r)[1] = <<"get", 0>> /\ HttpCells(r)[2] = <<"text", 0>>
      /\ HttpCells(r)[3] = <<"line", "request">>
      /\ \A i \in 1 .. k : HttpCells(r)[3 + i] = <<"line", r.lines[i]>>
      /\ HttpCells(r)[k + 4] = <<"end", 0>> /\ HttpCells(r)[k + 5] = <<"lf", 0>>
  BY RequestFacts, HttpShape DEF LineCount
<1>3. k >= 1 /\ k < MaxHeaders
  BY RequestFacts DEF LineCount
<1>4. f >= 2
  <2>1. f = HeadCount(n, r.masked) /\ n \in Nat
    BY <1>1, HeadCells
  <2>. HIDE DEF f, n
  <2>. QED
    BY <2>1 DEF HeadCount
<1>. HIDE DEF f, n
<1>5. \A i \in 1 .. k : 3 + i \in 1 .. k + 5
  BY <1>1
<1>6. {1, 2, 3, k + 4, k + 5} \subseteq 1 .. k + 5
  BY <1>1
<1>. QED
  BY <1>1, <1>2, <1>3, <1>4, <1>5, <1>6

LEMMA PlainCell ==
  ASSUME NEW r \in Requests, ~IsHttp(r)
  PROVE  /\ Total(r) = 2 + Len(r.data) /\ Len(r.data) \in Nat /\ IsSeq(r.data)
         /\ Cells(r)[1] = <<"cmd", r.cmd>> /\ Cells(r)[2] = <<"len", r.len>>
         /\ \A i \in 1 .. Len(r.data) : Cells(r)[2 + i] = r.data[i]
<1>1. Cells(r) = PacketCells(r) /\ Total(r) = PacketSize(r)
  BY CellsShape
<1>. QED
  BY <1>1, RequestFacts, PacketShape DEF PacketSize, HeaderSize

-----------------------------------------------------------------------------
(***************************************************************************)
(* The child reads the stream in order.                                    *)
(***************************************************************************)

StreamInv ==
  /\ request \in Requests
  /\ peerOpen \in BOOLEAN
  /\ Stream(Cells(request), inbox, wire, cuts)

LEMMA HereIs ==
  ASSUME NEW sent, NEW in, NEW left, NEW ends, Stream(sent, in, left, ends)
  PROVE  /\ At(sent, in, left, ends, CHOOSE p : At(sent, in, left, ends, p))
         /\ \A q : At(sent, in, left, ends, q) =>
                  q = CHOOSE p : At(sent, in, left, ends, p)
<1>1. At(sent, in, left, ends, CHOOSE p : At(sent, in, left, ends, p))
  BY DEF Stream
<1>2. IsSeq(in)
  BY DEF Stream
<1>. QED
  BY <1>1, <1>2, OnePlace

LEMMA HereFacts ==
  ASSUME StreamInv
  PROVE  /\ At(Cells(request), inbox, wire, cuts, Here)
         /\ Here \in Nat /\ Sent \in Nat /\ Here <= Sent
         /\ Total(request) \in Nat /\ Sent <= Total(request)
         /\ wire = <<>> <=> Sent = Total(request)
         /\ inbox = <<>> <=> Here = Sent
         /\ inbox # <<>> =>
              \E q \in Nat :
                /\ InPlace(Cells(request), inbox[1], Here, q) /\ q \in cuts
                /\ \A c \in cuts : c <= Here \/ c >= q
         /\ \A k \in 1 .. Len(inbox) : inbox[k] # <<>>
         /\ cuts \subseteq 1 .. Sent
<1>1. Stream(Cells(request), inbox, wire, cuts)
  BY DEF StreamInv
<1>2. At(Cells(request), inbox, wire, cuts, Here)
  BY <1>1, HereIs DEF Here
<1>3. /\ IsSeq(wire) /\ Len(wire) \in Nat /\ Total(request) \in Nat
      /\ Len(wire) <= Total(request) /\ (wire = <<>> <=> Len(wire) = 0)
      /\ cuts \subseteq 1 .. Sent
  BY <1>1, SeqShape DEF Stream, Total, Sent
<1>4. /\ Here \in Nat /\ Here <= Sent /\ (inbox = <<>> <=> Here = Sent)
      /\ inbox # <<>> =>
              \E q \in Nat :
                /\ InPlace(Cells(request), inbox[1], Here, q) /\ q \in cuts
                /\ \A c \in cuts : c <= Here \/ c >= q
      /\ \A k \in 1 .. Len(inbox) : inbox[k] # <<>>
  BY <1>1, <1>2, StreamPlace DEF Sent, Total
<1>5. Sent \in Nat /\ Sent <= Total(request) /\ (wire = <<>> <=> Sent = Total(request))
  BY <1>3 DEF Sent
<1>. QED
  BY <1>2, <1>3, <1>4, <1>5

LEMMA StreamIdle ==
  ASSUME StreamInv, UNCHANGED <<request, wire, cuts, inbox>>, peerOpen' \in BOOLEAN
  PROVE  StreamInv' /\ Here' = Here
BY DEF StreamInv, Here

LEMMA StreamSends ==
  ASSUME StreamInv, NEW n \in Nat, ClientSends(n)
  PROVE  /\ StreamInv' /\ Here' = Here
         /\ Sent < Sent' /\ cuts \subseteq cuts' /\ cuts' \subseteq cuts \cup {Sent'}
<1>. DEFINE T == Cells(request)
<1>1. /\ Stream(T, inbox, wire, cuts) /\ At(T, inbox, wire, cuts, Here)
      /\ n \in 1 .. Len(wire)
      /\ Sends(T, inbox, wire, cuts, n, inbox', wire', cuts')
      /\ request' = request /\ peerOpen' = peerOpen /\ cuts \subseteq cuts'
  BY HereFacts DEF StreamInv, ClientSends, Sends
<1>2. /\ Stream(T, inbox', wire', cuts') /\ At(T, inbox', wire', cuts', Here)
      /\ Len(wire') < Len(wire)
  BY <1>1, StreamSend
<1>3. Here' = Here
  BY <1>1, <1>2, HereIs DEF Here
<1>4. StreamInv'
  BY <1>1, <1>2 DEF StreamInv
<1>5. /\ IsSeq(wire) /\ Len(wire) \in Nat /\ Len(wire') \in Nat
      /\ Total(request) \in Nat /\ Total(request) = Len(T) /\ Total(request)' = Len(T)
  BY <1>1, <1>2, SeqShape DEF Stream, Total
<1>. HIDE DEF T
<1>6. wire' = SubSeq(wire, n + 1, Len(wire)) /\ cuts' = cuts \cup {Total(request) - Len(wire) + n}
  BY <1>1, <1>5 DEF Sends
<1>7. Len(wire') = Len(wire) - n
  <2>1. n + 1 \in Nat \ {0}
    BY <1>1
  <2>2. Len(SubSeq(wire, n + 1, Len(wire))) =
          IF n + 1 <= Len(wire) THEN Len(wire) - (n + 1) + 1 ELSE 0
    BY <1>5, <2>1, SubSeqShape
  <2>. QED
    BY <1>1, <1>5, <1>6, <2>2
<1>8. Sent' = Sent + n /\ Sent' = Total(request) - Len(wire) + n
  BY <1>1, <1>5, <1>7 DEF Sent
<1>9. Sent < Sent' /\ cuts' \subseteq cuts \cup {Sent'}
  <2>1. Sent \in Int
    BY <1>5 DEF Sent
  <2>. QED
    BY <1>1, <1>6, <1>8, <2>1
<1>. QED
  BY <1>1, <1>3, <1>4, <1>9

\* What SSL_read of n bytes returns and what it leaves.
ReadStep(n) ==
  /\ StreamInv'
  /\ IsSeq(Got(n)) /\ Len(Got(n)) \in Nat /\ Len(Got(n)) <= n
  /\ Here' = Here + Len(Got(n))
  /\ \A i \in 1 .. Len(Got(n)) :
       Here + i \in 1 .. Total(request) /\ Got(n)[i] = Cells(request)[Here + i]
  /\ inbox = <<>> => Got(n) = <<>> /\ Here = Sent /\ ~peerOpen
  /\ inbox # <<>> =>
       \E q \in cuts :
         /\ q \in Nat /\ Here < q /\ q <= Sent
         /\ Len(Got(n)) = AtMost(n, q - Here)
         /\ \A c \in cuts : c <= Here \/ c >= q

LEMMA Reads ==
  ASSUME StreamInv, NEW n \in Nat, Read(n), UNCHANGED clientVars
  PROVE  ReadStep(n)
<1>. DEFINE T == Cells(request)
<1>1. /\ Stream(T, inbox, wire, cuts) /\ At(T, inbox, wire, cuts, Here)
      /\ request' = request /\ peerOpen' = peerOpen /\ wire' = wire /\ cuts' = cuts
      /\ request \in Requests /\ peerOpen \in BOOLEAN
  BY HereFacts DEF StreamInv, clientVars
<1>2. CASE inbox = <<>>
  <2>1. inbox' = inbox /\ ~peerOpen /\ Got(n) = <<>>
    BY <1>2 DEF Read, Got
  <2>2. StreamInv' /\ Here' = Here
    BY <1>1, <2>1, StreamIdle
  <2>3. Here = Sent /\ Here \in Nat
    BY <1>2, HereFacts
  <2>4. IsSeq(Got(n)) /\ Len(Got(n)) = 0
    BY <2>1, ShortSeqs
  <2>. QED
    BY <1>2, <2>1, <2>2, <2>3, <2>4 DEF ReadStep
<1>3. CASE inbox # <<>>
  <2>1. PICK q \in Nat : /\ InPlace(T, inbox[1], Here, q) /\ q \in cuts
                        /\ \A c \in cuts : c <= Here \/ c >= q
    BY <1>3, HereFacts
  <2>2. /\ Here \in Nat /\ Here < q /\ IsSeq(inbox[1]) /\ Len(inbox[1]) = q - Here
        /\ \A i \in 1 .. q - Here : inbox[1][i] = T[Here + i]
        /\ q <= Sent /\ Sent \in Nat /\ Sent <= Total(request) /\ Total(request) \in Nat
    BY <2>1, HereFacts DEF InPlace
  <2>. DEFINE a == AtMost(n, q - Here)
  <2>3. a \in Nat /\ a <= n /\ a <= q - Here
    BY <2>2 DEF AtMost
  <2>4. Got(n) = SubSeq(inbox[1], 1, a)
    BY <1>3, <2>2 DEF Got
  <2>. HIDE DEF a
  <2>5. /\ IsSeq(Got(n)) /\ Len(Got(n)) = a
        /\ \A i \in 1 .. a : Got(n)[i] = inbox[1][i]
    <3>1. Got(n) = Front(inbox[1], a)
      BY <2>4 DEF Front
    <3>. QED
      BY <2>3, <3>1, FrontShape
  <2>6. ASSUME NEW i \in 1 .. a
        PROVE  Here + i \in 1 .. Total(request) /\ Got(n)[i] = T[Here + i]
    <3>1. i \in 1 .. q - Here /\ Here + i \in 1 .. Total(request)
      BY <2>2, <2>3
    <3>. QED
      BY <2>2, <2>5, <3>1
  <2>7. /\ Stream(T, inbox', wire', cuts')
        /\ At(T, inbox', wire', cuts', Here + a)
    <3>1. CASE Len(inbox[1]) <= n
      <4>1. inbox' = Tail(inbox)
        BY <1>3, <3>1 DEF Read
      <4>2. a = Len(inbox[1])
        BY <2>2, <3>1 DEF a, AtMost
      <4>. QED
        BY <1>1, <1>3, <4>1, <4>2, StreamReadAll
    <3>2. CASE n < Len(inbox[1])
      <4>1. inbox' = Cat(<<SubSeq(inbox[1], n + 1, Len(inbox[1]))>>, Tail(inbox))
        BY <1>3, <2>2, <3>2 DEF Read, Cat
      <4>2. a = n
        BY <2>2, <3>2 DEF a, AtMost
      <4>. QED
        BY <1>1, <1>3, <3>2, <4>1, <4>2, StreamReadFront
    <3>. QED
      BY <2>2, <3>1, <3>2
  <2>8. StreamInv'
    BY <1>1, <2>7 DEF StreamInv
  <2>9. Here' = Here + a
    BY <1>1, <2>7, HereIs DEF Here
  <2>. QED
    BY <1>3, <2>1, <2>2, <2>3, <2>5, <2>6, <2>8, <2>9 DEF ReadStep, a
<1>. QED
  BY <1>2, <1>3

-----------------------------------------------------------------------------
(***************************************************************************)
(* The inductive invariant of TypeOK: where in the stream the child stands *)
(* while it reads the HTTP request, and which lines it has.                *)
(***************************************************************************)

Types ==
  /\ pc \in {"handshake", "header", "payload", "lines", "parse", "tail", "frame",
             "length", "mask", "framePayload", "handler", "sendFrame",
             "sendLength", "sendPacket", "sendPayload"} \cup Ended
  /\ webSocket \in BOOLEAN
  /\ frame \in [binary : BOOLEAN, len : 0 .. (Width - 1), masked : BOOLEAN,
                keyRead : BOOLEAN]
  /\ packet \in [cmd : Commands, len : 0 .. (Width - 1)]
  /\ answer \in Answers \cup {NULL}

Line(i) == IF i = 1 THEN "request" ELSE request.lines[i - 1]

LinesInv ==
  /\ IsSeq(lines) /\ Len(lines) <= LineCount(request) + 1
  /\ \A i \in 1 .. Len(lines) : lines[i] = Line(i)
  /\ headers \in 0 .. MaxHeaders /\ headers <= Len(lines)

PlaceInv ==
  LET k == LineCount(request) IN
    /\ pc \in {"handshake", "header"} => Here = 0 /\ Len(lines) = 0
    /\ pc = "lines" =>
         /\ IsHttp(request) /\ Here \in 1 .. k + 3
         /\ headers = Len(lines) /\ headers < MaxHeaders
         /\ Len(lines) = IF Here <= 2 THEN 0 ELSE Here - 2
    /\ pc = "parse" =>
         /\ IsHttp(request) /\ Len(lines) = k + 1
         /\ headers = IF k + 1 = MaxHeaders THEN k + 1 ELSE k
    /\ pc \in {"parse", "tail"} =>
         IsHttp(request) /\ Here = IF k + 1 = MaxHeaders THEN k + 3 ELSE k + 4

TypeInv == StreamInv /\ Types /\ LinesInv /\ PlaceInv

LEMMA TypeInit == Init => TypeInv
<1>. SUFFICES ASSUME Init PROVE TypeInv
  OBVIOUS
<1>. DEFINE T == Cells(request)
            place == [i \in 1 .. 0 + 1 |-> 0]
<1>1. request \in Requests /\ IsSeq(T) /\ Len(T) \in Nat
  BY CellsShape, SeqShape DEF Init
<1>2. wire = T /\ cuts = {} /\ inbox = <<>> /\ IsSeq(inbox) /\ Len(inbox) = 0
  BY ShortSeqs DEF Init
<1>3. Places(T, inbox, wire, cuts, place)
  BY <1>1, <1>2 DEF Places
<1>4. \E p : At(T, inbox, wire, cuts, p)
  BY <1>3 DEF At
<1>5. StreamInv
  <2>1. \A i \in 1 .. Len(wire) : wire[i] = T[Len(T) - Len(wire) + i]
    BY <1>1, <1>2
  <2>2. Len(wire) <= Len(T) /\ cuts \subseteq 1 .. Len(T) - Len(wire)
    BY <1>1, <1>2
  <2>3. IsSeq(wire)
    BY <1>1, <1>2
  <2>. HIDE DEF T
  <2>4. Stream(T, inbox, wire, cuts)
    BY <1>1, <1>2, <1>4, <2>1, <2>2, <2>3 DEF Stream
  <2>. QED
    BY <1>1, <2>4 DEF StreamInv, Init, T
<1>6. Here = 0
  <2>1. Sent = 0
    BY <1>1, <1>2 DEF Sent, Total
  <2>. QED
    BY <1>2, <1>5, <2>1, HereFacts
<1>7. Types
  BY LengthAssumption, RequestAssumption DEF Init, Types
<1>8. LinesInv
  <2>1. LineCount(request) \in Nat
    BY <1>1, RequestFacts DEF LineCount
  <2>2. lines = <<>> /\ IsSeq(lines) /\ Len(lines) = 0 /\ headers = 0
    BY ShortSeqs DEF Init
  <2>3. MaxHeaders \in Nat
    BY LengthAssumption
  <2>. QED
    BY <2>1, <2>2, <2>3 DEF LinesInv
<1>9. PlaceInv
  BY <1>6, ShortSeqs DEF Init, PlaceInv
<1>. QED
  BY <1>5, <1>7, <1>8, <1>9 DEF TypeInv

\* A step that reads nothing and leaves the lines alone.
LEMMA NoRead ==
  ASSUME TypeInv, UNCHANGED <<request, wire, cuts, inbox>>, peerOpen' \in BOOLEAN
  PROVE  StreamInv' /\ Here' = Here /\ (UNCHANGED httpVars => LinesInv')
BY StreamIdle DEF TypeInv, LinesInv, Line, httpVars

LEMMA TypeClient ==
  ASSUME TypeInv, Client
  PROVE  TypeInv'
<1>1. CASE ClientCloses
  <2>1. /\ UNCHANGED <<request, wire, cuts, inbox>> /\ peerOpen' \in BOOLEAN
        /\ UNCHANGED <<pc, webSocket, lines, headers, frame, packet, answer>>
    BY <1>1 DEF ClientCloses, httpVars, packetVars
  <2>2. StreamInv' /\ Here' = Here
    BY <2>1, NoRead
  <2>. QED
    BY <2>1, <2>2 DEF TypeInv, Types, LinesInv, Line, PlaceInv
<1>2. ASSUME NEW n \in 1 .. MaxRecord, ClientSends(n) PROVE TypeInv'
  <2>1. StreamInv' /\ Here' = Here
    BY <1>2, StreamSends, LengthAssumption DEF TypeInv
  <2>2. UNCHANGED <<request, peerOpen, pc, webSocket, lines, headers, frame, packet, answer>>
    BY <1>2 DEF ClientSends, httpVars, packetVars
  <2>. QED
    BY <2>1, <2>2 DEF TypeInv, Types, LinesInv, Line, PlaceInv
<1>. QED
  BY <1>1, <1>2 DEF Client

\* The steps of the child that read nothing.
Quiet ==
  \/ Handshake \/ ParseHeaders \/ FrameNotAllocated
  \/ SendFrame \/ SendLength \/ SendPacket \/ SendPayload \/ Handler

LEMMA TypeQuiet ==
  ASSUME TypeInv, Quiet
  PROVE  TypeInv'
<1>1. /\ UNCHANGED <<request, wire, cuts, inbox, peerOpen>> /\ UNCHANGED httpVars
      /\ UNCHANGED <<webSocket, frame, packet, payload>>
  BY DEF Quiet, Handshake, ParseHeaders, FrameNotAllocated, SendFrame, SendLength,
         SendPacket, SendPayload, Handler, HandlerAnswers, HandlerReturns, HandlerExits,
         clientVars, httpVars, packetVars
<1>2. StreamInv' /\ Here' = Here /\ LinesInv'
  BY <1>1, NoRead DEF TypeInv, StreamInv
<1>3. answer' \in Answers \cup {NULL}
  BY DEF Quiet, Handshake, ParseHeaders, FrameNotAllocated, SendFrame, SendLength,
         SendPacket, SendPayload, Handler, HandlerAnswers, HandlerReturns, HandlerExits,
         TypeInv, Types
<1>4. \/ pc = "handshake" /\ pc' \in {"header", "refused"}
      \/ pc = "parse" /\ pc' \in {"tail", "refused", "crashed"}
      \/ pc' \in {"sendFrame", "sendLength", "sendPacket", "sendPayload"} \cup Ended
  BY DEF Quiet, Handshake, ParseHeaders, FrameNotAllocated, SendFrame, SendLength,
         SendPacket, SendPayload, Handler, HandlerAnswers, HandlerReturns, HandlerExits,
         Write, Ended
<1>5. Types'
  BY <1>1, <1>3, <1>4 DEF TypeInv, Types, Ended
<1>6. PlaceInv'
  BY <1>1, <1>2, <1>4 DEF TypeInv, PlaceInv, Ended, httpVars
<1>. QED
  BY <1>2, <1>5, <1>6 DEF TypeInv

\* What is read is typed, and an empty result is the end of the stream.
LEMMA GotFacts ==
  ASSUME StreamInv, NEW n \in Nat, ReadStep(n)
  PROVE  /\ \A i \in 1 .. Len(Got(n)) :
              /\ TypedCell(Got(n)[i])
              /\ Got(n)[i][1] = "masked" => TypedCell(Got(n)[i][2])
         /\ Got(n) = <<>> <=> Len(Got(n)) = 0
         /\ Got(n) = <<>> /\ n > 0 => inbox = <<>>
         /\ Here \in Nat /\ Here' \in Nat
<1>1. ASSUME NEW i \in 1 .. Len(Got(n))
      PROVE  /\ TypedCell(Got(n)[i])
             /\ Got(n)[i][1] = "masked" => TypedCell(Got(n)[i][2])
  <2>1. Here + i \in 1 .. Total(request) /\ Got(n)[i] = Cells(request)[Here + i]
    BY DEF ReadStep
  <2>. QED
    BY <2>1, CellsTyped DEF StreamInv
<1>2. Got(n) = <<>> <=> Len(Got(n)) = 0
  BY SeqShape DEF ReadStep
<1>3. Here \in Nat /\ Len(Got(n)) \in Nat /\ Here' = Here + Len(Got(n))
  BY HereFacts DEF ReadStep
<1>4. ASSUME inbox # <<>>, n > 0 PROVE Len(Got(n)) # 0
  <2>1. PICK q \in Nat : Here < q /\ Len(Got(n)) = AtMost(n, q - Here)
    BY <1>4 DEF ReadStep
  <2>. QED
    BY <1>3, <1>4, <2>1 DEF AtMost
<1>. QED
  BY <1>1, <1>2, <1>3, <1>4

LEMMA TypeReadHeader ==
  ASSUME TypeInv, ReadHeader
  PROVE  TypeInv'
<1>. DEFINE got == Got(HeaderSize)
<1>1. /\ pc = "header" /\ Read(HeaderSize) /\ UNCHANGED clientVars
      /\ UNCHANGED <<webSocket, lines, headers, frame, answer>>
  BY DEF ReadHeader, httpVars
<1>2. StreamInv /\ Here = 0 /\ Len(lines) = 0 /\ request' = request /\ request \in Requests
  BY <1>1 DEF TypeInv, PlaceInv, StreamInv, clientVars
<1>3. HeaderSize \in Nat /\ HeaderSize = 2
  BY DEF HeaderSize
<1>4. ReadStep(HeaderSize)
  BY <1>1, <1>2, <1>3, Reads
<1>5. StreamInv' /\ Here' = Len(got) /\ Len(got) \in 0 .. 2 /\ (got = <<>> <=> Len(got) = 0)
  <2>1. /\ StreamInv' /\ Here' = Here + Len(got) /\ Len(got) \in Nat /\ Len(got) <= HeaderSize
    BY <1>4 DEF ReadStep
  <2>2. got = <<>> <=> Len(got) = 0
    BY <1>2, <1>3, <1>4, GotFacts
  <2>. HIDE DEF got
  <2>. QED
    BY <1>2, <1>3, <2>1, <2>2
<1>6. \A i \in 1 .. Len(got) : got[i] = Cells(request)[i]
  <2>1. \A i \in 1 .. Len(got) : got[i] = Cells(request)[Here + i]
    BY <1>4 DEF ReadStep
  <2>2. \A i \in 1 .. Len(got) : Here + i = i
    BY <1>2, <1>5
  <2>. QED
    BY <2>1, <2>2
<1>7. LinesInv'
  BY <1>1, <1>2 DEF TypeInv, LinesInv, Line
<1>. HIDE DEF got
<1>8. CASE got # <<>> /\ got[1][1] = "get"
  <2>1. pc' = "lines" /\ UNCHANGED packet
    BY <1>8 DEF ReadHeader, got
  <2>2. IsHttp(request)
    <3>1. ~IsHttp(request) => Cells(request)[1][1] = "cmd"
      BY <1>2, PlainCell
    <3>. QED
      BY <1>5, <1>6, <1>8, <3>1
  <2>3. headers = 0
    <3>1. headers \in Nat /\ headers <= 0
      BY <1>2 DEF TypeInv, LinesInv
    <3>. QED
      BY <3>1
  <2>4. LineCount(request) \in Nat /\ MaxHeaders > 0
    <3>1. LineCount(request) \in Nat /\ LineCount(request) < MaxHeaders
      BY <1>2, RequestFacts DEF LineCount
    <3>. QED
      BY <3>1, LengthAssumption
  <2>5. PlaceInv'
    BY <1>1, <1>2, <1>5, <1>8, <2>1, <2>2, <2>3, <2>4 DEF PlaceInv
  <2>6. Types'
    BY <1>1, <2>1 DEF TypeInv, Types
  <2>. QED
    BY <1>5, <1>7, <2>5, <2>6 DEF TypeInv
<1>9. CASE ~(got # <<>> /\ got[1][1] = "get")
  <2>1. /\ pc' \in {"refused", "payload"}
        /\ packet' = [cmd |-> IF got = <<>> THEN ZeroCommand ELSE got[1][2],
                      len |-> IF Len(got) < 2 THEN 0 ELSE got[2][2]]
    BY <1>9 DEF ReadHeader, got
  <2>2. got # <<>> => ~IsHttp(request)
    <3>1. IsHttp(request) => Cells(request)[1][1] = "get"
      BY <1>2, HttpCell
    <3>. QED
      BY <1>5, <1>6, <1>9, <3>1
  <2>3. got # <<>> => got[1][2] \in Commands
    <3>1. ~IsHttp(request) => Cells(request)[1][2] \in Commands
      BY <1>2, PlainCell, RequestFacts
    <3>. QED
      BY <1>5, <1>6, <2>2, <3>1
  <2>4. Len(got) >= 2 => got[2][2] \in 0 .. (Width - 1)
    <3>1. ~IsHttp(request) => Cells(request)[2][2] \in 0 .. (Width - 1)
      BY <1>2, PlainCell, RequestFacts
    <3>. QED
      BY <1>5, <1>6, <2>2, <3>1
  <2>5. ZeroCommand \in Commands /\ 0 \in 0 .. (Width - 1)
    BY RequestAssumption, LengthAssumption
  <2>6. packet' \in [cmd : Commands, len : 0 .. (Width - 1)]
    BY <1>5, <2>1, <2>3, <2>4, <2>5
  <2>7. Types'
    BY <1>1, <2>1, <2>6 DEF TypeInv, Types, Ended
  <2>8. PlaceInv'
    BY <2>1 DEF PlaceInv
  <2>. QED
    BY <1>5, <1>7, <2>7, <2>8 DEF TypeInv
<1>. QED
  BY <1>8, <1>9

LEMMA TypeReadLine ==
  ASSUME TypeInv, ReadLine
  PROVE  TypeInv'
<1>. DEFINE cell == IF Got(1) = <<>> THEN Garbage ELSE Got(1)[1]
            k == LineCount(request)
<1>1. /\ pc = "lines" /\ Read(1) /\ UNCHANGED clientVars
      /\ UNCHANGED <<webSocket, frame, packet, answer>>
  BY DEF ReadLine, packetVars
<1>2. /\ StreamInv /\ request' = request /\ request \in Requests
      /\ IsHttp(request) /\ Here \in 1 .. k + 3
      /\ headers = Len(lines) /\ headers < MaxHeaders
      /\ Len(lines) = IF Here <= 2 THEN 0 ELSE Here - 2
  BY <1>1 DEF TypeInv, PlaceInv, StreamInv, clientVars
<1>3. /\ k \in Nat /\ k >= 1 /\ k < MaxHeaders /\ MaxHeaders \in Nat
      /\ Cells(request)[1] = <<"get", 0>> /\ Cells(request)[2] = <<"text", 0>>
      /\ Cells(request)[3] = <<"line", "request">>
      /\ \A i \in 1 .. k : Cells(request)[3 + i] = <<"line", request.lines[i]>>
      /\ Cells(request)[k + 4] = <<"end", 0>>
  BY <1>2, HttpCell, LengthAssumption
<1>4. ReadStep(1)
  BY <1>1, <1>2, Reads
<1>5. /\ StreamInv' /\ Here' = Here + Len(Got(1)) /\ Len(Got(1)) \in {0, 1}
      /\ Got(1) = <<>> <=> Len(Got(1)) = 0
      /\ Got(1) # <<>> => Got(1)[1] = Cells(request)[Here + 1]
  <2>1. /\ StreamInv' /\ Here' = Here + Len(Got(1)) /\ Len(Got(1)) \in Nat /\ Len(Got(1)) <= 1
        /\ \A i \in 1 .. Len(Got(1)) : Got(1)[i] = Cells(request)[Here + i]
    BY <1>4 DEF ReadStep
  <2>2. Got(1) = <<>> <=> Len(Got(1)) = 0
    BY <1>2, <1>4, GotFacts
  <2>. DEFINE m == Len(Got(1))
  <2>a. m \in Nat /\ m <= 1
    BY <2>1
  <2>. HIDE DEF m
  <2>b. m \in {0, 1}
    BY <2>a
  <2>3. Len(Got(1)) \in {0, 1}
    BY <2>b DEF m
  <2>4. Len(Got(1)) = 1 => Got(1)[1] = Cells(request)[Here + 1]
    BY <2>1
  <2>. QED
    BY <2>1, <2>2, <2>3, <2>4
<1>6. /\ IsSeq(lines) /\ Len(lines) \in Nat /\ Len(lines) <= k + 1
      /\ \A i \in 1 .. Len(lines) : lines[i] = Line(i)
  BY SeqShape DEF TypeInv, LinesInv
<1>. HIDE DEF cell, k
<1>7. pc' \in {"lines", "parse", "crashed"}
  BY <1>1 DEF ReadLine
<1>8. Types'
  BY <1>1, <1>7 DEF TypeInv, Types, Ended
<1>9. CASE cell[1] = "line"
  <2>1. /\ Got(1) # <<>> /\ cell = Cells(request)[Here + 1] /\ Here' = Here + 1
    BY <1>5, <1>9 DEF cell, Garbage
  <2>2. Here # 1 /\ Here # k + 3
    BY <1>2, <1>3, <1>9, <2>1
  <2>3. Here \in 2 .. k + 2 /\ Len(lines) = Here - 2
    BY <1>2, <1>3, <2>2
  <2>4. cell[2] = Line(Here - 1)
    <3>1. CASE Here = 2
      BY <1>3, <2>1, <3>1 DEF Line
    <3>2. CASE Here > 2
      <4>1. Here - 2 \in 1 .. k /\ 3 + (Here - 2) = Here + 1 /\ Here - 1 # 1
            /\ Here - 1 - 1 = Here - 2
        BY <1>3, <2>3, <3>2
      <4>2. cell = <<"line", request.lines[Here - 2]>>
        BY <1>3, <2>1, <4>1
      <4>. QED
        BY <4>1, <4>2 DEF Line
    <3>. QED
      BY <2>3, <3>1, <3>2
  <2>5. lines' = Append(lines, cell[2]) /\ headers' = headers + 1
        /\ pc' \in IF headers' = MaxHeaders THEN {"parse", "crashed"} ELSE {"lines"}
    BY <1>9 DEF ReadLine, cell
  <2>6. /\ IsSeq(lines') /\ Len(lines') = Here - 1
        /\ \A i \in 1 .. Here - 1 : lines'[i] = Line(i)
    <3>. DEFINE C == {lines[i] : i \in DOMAIN lines} \cup {cell[2]}
    <3>1. lines \in Seq(C) /\ cell[2] \in C
      BY <1>6, SeqMonotonic DEF IsSeq
    <3>. HIDE DEF C
    <3>2. /\ lines' \in Seq(C) /\ Len(lines') = Len(lines) + 1
          /\ lines'[Len(lines) + 1] = cell[2]
          /\ \A i \in 1 .. Len(lines) : lines'[i] = lines[i]
      BY <2>5, <3>1, AppendProperties
    <3>3. IsSeq(lines')
      BY <3>2, AnySeq
    <3>4. Len(lines) + 1 = Here - 1
      BY <2>3
    <3>5. lines'[Here - 1] = Line(Here - 1)
      BY <2>4, <3>2, <3>4
    <3>6. ASSUME NEW i \in 1 .. Here - 1 PROVE lines'[i] = Line(i)
      <4>1. i = Here - 1 \/ i \in 1 .. Len(lines)
        BY <2>3
      <4>. QED
        BY <1>6, <3>2, <3>5, <4>1
    <3>. QED
      BY <3>2, <3>3, <3>4, <3>6
  <2>7. headers' = Here - 1 /\ headers' \in 1 .. MaxHeaders /\ Here - 1 <= k + 1
        /\ Here' - 2 = Here - 1 /\ Here' \in 1 .. k + 3 /\ Here' > 2
    BY <1>2, <1>3, <2>1, <2>3, <2>5
  <2>8. LinesInv'
    <3>1. \A i : Line(i)' = Line(i)
      BY <1>2 DEF Line
    <3>2. Len(lines') <= k + 1 /\ headers' \in 0 .. MaxHeaders /\ headers' <= Len(lines')
      BY <1>3, <2>3, <2>6, <2>7
    <3>. QED
      BY <1>2, <2>6, <3>1, <3>2 DEF LinesInv, k
  <2>9. PlaceInv'
    <3>1. CASE headers' = MaxHeaders
      <4>1. k + 1 = MaxHeaders /\ Here = k + 2 /\ Here' = k + 3 /\ Here - 1 = k + 1
        BY <1>3, <2>1, <2>3, <2>7, <3>1
      <4>2. pc' \in {"parse", "crashed"}
        BY <2>5, <3>1
      <4>. QED
        BY <1>2, <2>6, <2>7, <4>1, <4>2 DEF PlaceInv, k
    <3>2. CASE headers' # MaxHeaders
      <4>1. pc' = "lines" /\ headers' < MaxHeaders
        BY <1>3, <2>5, <2>7, <3>2
      <4>2. Len(lines') = (IF Here' <= 2 THEN 0 ELSE Here' - 2) /\ headers' = Len(lines')
        BY <2>6, <2>7
      <4>. QED
        BY <1>2, <2>7, <4>1, <4>2 DEF PlaceInv, k
    <3>. QED
      BY <3>1, <3>2
  <2>. QED
    BY <1>5, <1>8, <2>8, <2>9 DEF TypeInv
<1>10. CASE cell[1] = "end"
  <2>1. /\ Got(1) # <<>> /\ cell = Cells(request)[Here + 1] /\ Here' = Here + 1
    BY <1>5, <1>10 DEF cell, Garbage
  <2>2. Here = k + 3
    <3>1. Here # 1 /\ Here # 2
      BY <1>3, <1>10, <2>1
    <3>2. Here - 2 \notin 1 .. k
      <4>. SUFFICES ASSUME Here - 2 \in 1 .. k PROVE FALSE
        OBVIOUS
      <4>1. 3 + (Here - 2) = Here + 1
        BY <1>2
      <4>. QED
        BY <1>3, <1>10, <2>1, <4>1
    <3>. QED
      BY <1>2, <1>3, <3>1, <3>2
  <2>3. lines' = lines /\ headers' = headers - 1 /\ pc' = "parse"
    BY <1>10 DEF ReadLine, cell
  <2>4. headers = k + 1 /\ Len(lines) = k + 1 /\ headers' = k /\ k + 1 # MaxHeaders
        /\ Here' = k + 4
    BY <1>2, <1>3, <2>1, <2>2, <2>3
  <2>5. LinesInv'
    BY <1>2, <1>3, <1>6, <2>3, <2>4 DEF LinesInv, Line, k
  <2>6. PlaceInv'
    BY <1>2, <2>3, <2>4 DEF PlaceInv, k
  <2>. QED
    BY <1>5, <1>8, <2>5, <2>6 DEF TypeInv
<1>11. CASE cell[1] \notin {"line", "end"}
  <2>1. lines' = lines /\ headers' = headers /\ pc' = "lines"
    BY <1>1, <1>11 DEF ReadLine, cell, httpVars
  <2>2. Here' = Here \/ (Here = 1 /\ Here' = 2)
    <3>1. CASE Got(1) = <<>>
      BY <1>2, <1>5, <3>1
    <3>2. CASE Got(1) # <<>>
      <4>1. cell = Cells(request)[Here + 1] /\ Here' = Here + 1
        BY <1>5, <3>2 DEF cell
      <4>2. Here # 2 /\ Here # k + 3
        BY <1>3, <1>11, <4>1
      <4>3. Here - 2 \notin 1 .. k
        <5>. SUFFICES ASSUME Here - 2 \in 1 .. k PROVE FALSE
          OBVIOUS
        <5>1. 3 + (Here - 2) = Here + 1
          BY <1>2
        <5>. QED
          BY <1>3, <1>11, <4>1, <5>1
      <4>. QED
        BY <1>2, <1>3, <4>1, <4>2, <4>3
    <3>. QED
      BY <3>1, <3>2
  <2>3. LinesInv'
    BY <1>2, <2>1 DEF TypeInv, LinesInv, Line
  <2>4. PlaceInv'
    BY <1>2, <1>3, <2>1, <2>2 DEF PlaceInv, k
  <2>. QED
    BY <1>5, <1>8, <2>3, <2>4 DEF TypeInv
<1>. QED
  BY <1>9, <1>10, <1>11

\* A read that leaves the lines alone and does not wait for more of the request.
LEMMA TypeReadOn ==
  ASSUME TypeInv, NEW n \in Nat, Read(n), UNCHANGED clientVars, UNCHANGED httpVars,
         pc' \notin {"handshake", "header", "lines", "parse", "tail"},
         ReadStep(n) => Types'
  PROVE  TypeInv'
<1>1. StreamInv /\ request' = request
  BY DEF TypeInv, clientVars
<1>2. ReadStep(n)
  BY <1>1, Reads
<1>3. StreamInv'
  BY <1>2 DEF ReadStep
<1>4. LinesInv'
  BY <1>1 DEF TypeInv, LinesInv, Line, httpVars
<1>5. PlaceInv'
  BY DEF PlaceInv
<1>. QED
  BY <1>2, <1>3, <1>4, <1>5 DEF TypeInv

\* A cell of Buffer is one that was read or garbage; unmasked, it stays typed.
LEMMA BufferTyped ==
  ASSUME TypeInv, NEW n \in Nat, ReadStep(n), NEW i \in 1 .. n
  PROVE  TypedCell(Buffer(n)[i]) /\ TypedCell(Unmask(Buffer(n)[i]))
<1>. DEFINE cell == Buffer(n)[i]
<1>1. cell = IF i <= Len(Got(n)) THEN Got(n)[i] ELSE Garbage
  BY DEF Buffer
<1>2. TypedCell(Garbage) /\ Garbage[1] # "masked"
  BY DEF TypedCell, Garbage
<1>3. i <= Len(Got(n)) =>
        TypedCell(Got(n)[i]) /\ (Got(n)[i][1] = "masked" => TypedCell(Got(n)[i][2]))
  <2>1. i <= Len(Got(n)) => i \in 1 .. Len(Got(n))
    BY DEF ReadStep
  <2>. QED
    BY <2>1, GotFacts DEF TypeInv
<1>4. TypedCell(cell) /\ (cell[1] = "masked" => TypedCell(cell[2]))
  <2>. HIDE DEF cell
  <2>. QED
    BY <1>1, <1>2, <1>3
<1>. HIDE DEF cell
<1>5. TypedCell(Unmask(cell))
  BY <1>2, <1>4 DEF Unmask
<1>. QED
  BY <1>4, <1>5 DEF cell

LEMMA TypeReadOthers ==
  ASSUME TypeInv,
         \/ ReadPayload \/ ReadTail \/ ReadFrameHeader \/ ReadFrameLength \/ ReadMask
         \/ ReadFramePayload
  PROVE  TypeInv'
<1>1. StreamInv /\ packet.len \in Nat /\ frame.len \in Nat /\ frame.masked \in BOOLEAN
  <2>1. 0 .. (Width - 1) \subseteq Nat
    BY LengthAssumption
  <2>. QED
    BY <2>1 DEF TypeInv, Types
<1>2. CASE ReadPayload
  <2>1. /\ Read(packet.len) /\ UNCHANGED clientVars /\ UNCHANGED httpVars /\ pc' = "handler"
        /\ UNCHANGED <<webSocket, frame, packet, answer>>
    BY <1>2 DEF ReadPayload
  <2>2. Types'
    BY <2>1 DEF TypeInv, Types
  <2>. QED
    BY <1>1, <2>1, <2>2, TypeReadOn
<1>3. CASE ReadTail
  <2>1. /\ Read(TailSize) /\ UNCHANGED clientVars /\ UNCHANGED httpVars /\ pc' = "frame"
        /\ webSocket' = TRUE /\ UNCHANGED <<frame, packet, answer>>
    BY <1>3 DEF ReadTail, packetVars
  <2>2. TailSize \in Nat
    BY DEF TailSize
  <2>3. Types'
    BY <2>1 DEF TypeInv, Types
  <2>. QED
    BY <1>1, <2>1, <2>2, <2>3, TypeReadOn
<1>4. CASE ReadFrameHeader
  <2>. DEFINE got == Got(2)
  <2>1. /\ Read(2) /\ UNCHANGED clientVars /\ UNCHANGED httpVars
        /\ UNCHANGED <<webSocket, packet, answer>>
    BY <1>4 DEF ReadFrameHeader, packetVars
  <2>2. PICK binary, second :
          /\ binary \in IF got = <<>> THEN {FALSE} ELSE ReadAs("op", got[1], BOOLEAN)
          /\ second \in IF Len(got) < 2 THEN {[len |-> 0, masked |-> FALSE]}
                        ELSE ReadAs("len7", got[2], [len : 0 .. LEN64, masked : BOOLEAN])
          /\ frame' = [binary |-> binary, len |-> second.len, masked |-> second.masked,
                       keyRead |-> FALSE]
          /\ pc' = CASE second.len \in {LEN16, LEN64} -> "length"
                      [] OTHER -> IF second.masked THEN "mask" ELSE "framePayload"
    BY <1>4 DEF ReadFrameHeader
  <2>3. pc' \in {"length", "mask", "framePayload"}
    BY <2>2
  <2>4. ASSUME ReadStep(2) PROVE Types'
    <3>1. \A i \in 1 .. Len(got) : TypedCell(got[i])
      BY <1>1, <2>4, GotFacts
    <3>2. Len(got) \in Nat /\ (got = <<>> <=> Len(got) = 0)
      BY <1>1, <2>4, GotFacts DEF ReadStep
    <3>. HIDE DEF got
    <3>3. got # <<>> => 1 \in 1 .. Len(got)
      BY <3>2
    <3>4. ~(Len(got) < 2) => 2 \in 1 .. Len(got)
      BY <3>2
    <3>5. binary \in BOOLEAN
      <4>1. got # <<>> => TypedCell(got[1])
        BY <3>1, <3>3
      <4>. QED
        BY <2>2, <4>1 DEF ReadAs, TypedCell
    <3>6. second \in [len : 0 .. LEN64, masked : BOOLEAN]
      <4>1. ~(Len(got) < 2) => TypedCell(got[2])
        BY <3>1, <3>4
      <4>2. [len |-> 0, masked |-> FALSE] \in [len : 0 .. LEN64, masked : BOOLEAN]
        BY LengthAssumption
      <4>. QED
        BY <2>2, <4>1, <4>2 DEF ReadAs, TypedCell
    <3>7. 0 .. LEN64 \subseteq 0 .. (Width - 1)
      BY LengthAssumption
    <3>8. frame' \in [binary : BOOLEAN, len : 0 .. (Width - 1), masked : BOOLEAN,
                      keyRead : BOOLEAN]
      BY <2>2, <3>5, <3>6, <3>7
    <3>. QED
      BY <2>1, <2>3, <3>8 DEF TypeInv, Types
  <2>. QED
    BY <2>1, <2>3, <2>4, TypeReadOn
<1>5. CASE ReadFrameLength
  <2>1. /\ Read(1) /\ UNCHANGED clientVars /\ UNCHANGED httpVars
        /\ UNCHANGED <<webSocket, packet, answer>> /\ pc' \in {"mask", "framePayload"}
    BY <1>5 DEF ReadFrameLength, packetVars
  <2>. DEFINE cell == IF Got(1) = <<>> THEN Garbage ELSE Got(1)[1]
  <2>2. PICK n \in IF cell[1] = "ext" THEN {InHostOrder(frame.len, cell[2])} ELSE Lengths :
          frame' = [frame EXCEPT !.len = IF frame.len = LEN16 THEN uint16(n) ELSE n]
    BY <1>5 DEF ReadFrameLength
  <2>3. ASSUME ReadStep(1) PROVE Types'
    <3>1. Got(1) # <<>> => TypedCell(Got(1)[1])
      <4>1. Len(Got(1)) \in Nat /\ (Got(1) = <<>> <=> Len(Got(1)) = 0)
        BY <1>1, <2>3, GotFacts DEF ReadStep
      <4>2. Got(1) # <<>> => 1 \in 1 .. Len(Got(1))
        BY <4>1
      <4>. QED
        BY <1>1, <2>3, <4>2, GotFacts
    <3>2. n \in 0 .. (Width - 1)
      <4>1. TypedCell(cell)
        BY <3>1 DEF Garbage, TypedCell
      <4>. HIDE DEF cell
      <4>2. cell[1] = "ext" => InHostOrder(frame.len, cell[2]) \in 0 .. (Width - 1)
        BY <4>1, HostOrder DEF TypedCell
      <4>. QED
        BY <2>2, <4>2, LengthAssumption
    <3>3. uint16(n) \in 0 .. (Width - 1)
      BY <3>2, Truncation, LengthAssumption
    <3>4. frame' \in [binary : BOOLEAN, len : 0 .. (Width - 1), masked : BOOLEAN,
                      keyRead : BOOLEAN]
      BY <2>2, <3>2, <3>3 DEF TypeInv, Types
    <3>. QED
      BY <2>1, <3>4 DEF TypeInv, Types
  <2>. QED
    BY <2>1, <2>3, TypeReadOn
<1>6. CASE ReadMask
  <2>1. /\ Read(1) /\ UNCHANGED clientVars /\ UNCHANGED httpVars
        /\ UNCHANGED <<webSocket, packet, answer>> /\ pc' = "framePayload"
        /\ frame' = [frame EXCEPT !.keyRead = Got(1) # <<>> /\ Got(1)[1][1] = "mask"]
    BY <1>6 DEF ReadMask, packetVars
  <2>2. frame' \in [binary : BOOLEAN, len : 0 .. (Width - 1), masked : BOOLEAN,
                    keyRead : BOOLEAN]
    BY <2>1 DEF TypeInv, Types
  <2>3. Types'
    BY <2>1, <2>2 DEF TypeInv, Types
  <2>. QED
    BY <2>1, <2>3, TypeReadOn
<1>7. CASE ReadFramePayload
  <2>. DEFINE cells == [i \in 1 .. frame.len |-> Unmask(Buffer(frame.len)[i])]
  <2>1. /\ Read(frame.len) /\ UNCHANGED clientVars /\ UNCHANGED httpVars
        /\ UNCHANGED <<webSocket, frame, answer>> /\ pc' \in {"refused", "handler"}
    BY <1>7 DEF ReadFramePayload
  <2>2. \/ packet' = packet
        \/ /\ frame.len >= HeaderSize
           /\ \E cmd \in ReadAs("cmd", cells[1], Commands),
                 len \in ReadAs("len", cells[2], Lengths) :
               packet' = [cmd |-> cmd, len |-> len]
    BY <1>7 DEF ReadFramePayload, packetVars
  <2>3. ASSUME ReadStep(frame.len) PROVE Types'
    <3>1. \A i \in 1 .. frame.len : TypedCell(cells[i])
      BY <1>1, <2>3, BufferTyped
    <3>. HIDE DEF cells
    <3>2. ASSUME frame.len >= HeaderSize,
                 NEW cmd \in ReadAs("cmd", cells[1], Commands),
                 NEW len \in ReadAs("len", cells[2], Lengths),
                 packet' = [cmd |-> cmd, len |-> len]
          PROVE  packet' \in [cmd : Commands, len : 0 .. (Width - 1)]
      <4>1. 1 \in 1 .. frame.len /\ 2 \in 1 .. frame.len
        BY <1>1, <3>2 DEF HeaderSize
      <4>2. TypedCell(cells[1]) /\ TypedCell(cells[2])
        BY <3>1, <4>1
      <4>3. cmd \in Commands /\ len \in 0 .. (Width - 1)
        BY <4>2, LengthAssumption DEF ReadAs, TypedCell
      <4>. QED
        BY <3>2, <4>3
    <3>3. packet' \in [cmd : Commands, len : 0 .. (Width - 1)]
      BY <2>2, <3>2 DEF TypeInv, Types
    <3>. QED
      BY <2>1, <3>3 DEF TypeInv, Types, Ended
  <2>. QED
    BY <1>1, <2>1, <2>3, TypeReadOn
<1>. QED
  BY <1>2, <1>3, <1>4, <1>5, <1>6, <1>7

LEMMA TypeNoArray ==
  ASSUME TypeInv, ReadFrameNoArray
  PROVE  TypeInv'
<1>1. /\ UNCHANGED <<request, wire, cuts, inbox, peerOpen>> /\ UNCHANGED httpVars
      /\ UNCHANGED <<webSocket, frame, answer>>
  BY DEF ReadFrameNoArray, clientVars
<1>2. StreamInv' /\ Here' = Here /\ LinesInv'
  BY <1>1, NoRead DEF TypeInv, StreamInv
<1>3. pc' \in {"handler", "refused", "crashed"}
  BY DEF ReadFrameNoArray
<1>4. packet' \in [cmd : Commands, len : 0 .. (Width - 1)]
  <2>1. packet' = packet \/ packet' \in [cmd : Commands, len : Lengths]
    BY DEF ReadFrameNoArray, packetVars
  <2>2. packet \in [cmd : Commands, len : 0 .. (Width - 1)]
    BY DEF TypeInv, Types
  <2>3. Lengths \subseteq 0 .. (Width - 1)
    BY LengthAssumption
  <2>. QED
    BY <2>1, <2>2, <2>3
<1>5. Types'
  BY <1>1, <1>3, <1>4 DEF TypeInv, Types, Ended
<1>6. PlaceInv'
  BY <1>3 DEF PlaceInv
<1>. QED
  BY <1>2, <1>5, <1>6 DEF TypeInv

LEMMA TypeStep == TypeInv /\ [Next]_vars => TypeInv'
<1>. SUFFICES ASSUME TypeInv, [Next]_vars PROVE TypeInv'
  OBVIOUS
<1>1. CASE UNCHANGED vars
  <2>1. UNCHANGED <<request, wire, cuts, inbox, peerOpen, pc, webSocket, lines, headers,
                    frame, packet, answer>>
    BY <1>1 DEF vars, clientVars, httpVars, packetVars
  <2>2. StreamInv' /\ Here' = Here
    BY <2>1, NoRead DEF TypeInv, StreamInv
  <2>. QED
    BY <2>1, <2>2 DEF TypeInv, Types, LinesInv, Line, PlaceInv
<1>2. \/ Client \/ Quiet \/ ReadHeader \/ ReadLine
      \/ ReadPayload \/ ReadTail \/ ReadFrameHeader \/ ReadFrameLength \/ ReadMask
      \/ ReadFramePayload \/ ReadFrameNoArray \/ UNCHANGED vars
  BY DEF Next, Connection, Quiet
<1>. QED
  BY <1>1, <1>2, TypeClient, TypeQuiet, TypeReadHeader, TypeReadLine, TypeReadOthers,
     TypeNoArray

\* Every variable keeps its type, whatever the client sends in whatever records:
\* lengths stay in their width, headers within the array, and no record is empty
\* (secnet.cpp:46-62,133-163,216-302).
THEOREM ConnectionTypeCorrect == Spec => []TypeOK
<1>1. TypeInv => TypeOK
  BY HereFacts DEF TypeInv, StreamInv, Types, LinesInv, TypeOK
<1>. QED
  BY TypeInit, TypeStep, <1>1, PTL DEF Spec

-----------------------------------------------------------------------------
(***************************************************************************)
(* PayloadInBounds.  The two reads that end in the receiver leave as many  *)
(* cells as the packet says: one asks for that number, the other has       *)
(* compared it with the length of the frame.  Without an array for the     *)
(* frame there is no read.                                                 *)
(***************************************************************************)

LEMMA BufferShape ==
  ASSUME NEW n \in Nat
  PROVE  IsSeq(Buffer(n)) /\ Len(Buffer(n)) = n
BY FunctionSeq DEF Buffer

LEMMA BoundsStep == TypeInv /\ PayloadInBounds /\ [Next]_vars => PayloadInBounds'
<1>. SUFFICES ASSUME TypeInv, PayloadInBounds, [Next]_vars PROVE PayloadInBounds'
  OBVIOUS
<1>1. packet.len \in Nat /\ frame.len \in Nat /\ packet'.len \in Nat
  <2>1. 0 .. (Width - 1) \subseteq Nat
    BY LengthAssumption
  <2>2. Types /\ Types'
    BY TypeStep DEF TypeInv
  <2>. QED
    BY <2>1, <2>2 DEF Types
<1>2. CASE ReadPayload
  <2>1. payload' = Buffer(packet.len) /\ packet' = packet
    BY <1>2 DEF ReadPayload
  <2>2. Len(payload') = packet.len
    BY <1>1, <2>1, BufferShape
  <2>3. packet'.len <= Len(payload')
    BY <1>1, <2>1, <2>2
  <2>. QED
    BY <2>3 DEF PayloadInBounds
<1>3. CASE ReadFramePayload
  <2>. SUFFICES ASSUME pc' = "handler", HeaderSize + packet'.len < Width
                PROVE  packet'.len <= Len(payload')
    BY <1>1, LengthAssumption DEF PayloadInBounds, HeaderSize
  <2>. DEFINE cells == [i \in 1 .. frame.len |-> Unmask(Buffer(frame.len)[i])]
  <2>1. PICK len : /\ ~Truncated(len) /\ packet'.len = len /\ frame.len >= HeaderSize
                   /\ payload' = SubSeq(cells, HeaderSize + 1, frame.len)
    <3>1. pc' = "handler" =>
            \E cmd \in ReadAs("cmd", cells[1], Commands),
               len \in ReadAs("len", cells[2], Lengths) :
               /\ ~Truncated(len) /\ packet' = [cmd |-> cmd, len |-> len]
               /\ payload' = SubSeq(cells, HeaderSize + 1, frame.len)
               /\ frame.len >= HeaderSize
      BY <1>3 DEF ReadFramePayload
    <3>. HIDE DEF cells
    <3>2. PICK cmd, len :
            /\ ~Truncated(len) /\ packet' = [cmd |-> cmd, len |-> len]
            /\ payload' = SubSeq(cells, HeaderSize + 1, frame.len)
            /\ frame.len >= HeaderSize
      BY <3>1
    <3>3. packet'.len = len
      BY <3>2
    <3>. QED
      BY <3>2, <3>3
  <2>. HIDE DEF cells
  <2>2. Len(payload') = frame.len - 2
    <3>1. frame.len \in Nat /\ 3 \in Nat \ {0} /\ payload' = SubSeq(cells, 3, frame.len)
      BY <1>1, <2>1 DEF HeaderSize
    <3>2. Len(SubSeq(cells, 3, frame.len)) = IF 3 <= frame.len THEN frame.len - 3 + 1 ELSE 0
      BY <3>1, SubSeqShape
    <3>. QED
      BY <1>1, <2>1, <3>1, <3>2 DEF HeaderSize
  <2>3. uint64(HeaderSize + packet'.len) = 2 + packet'.len
    <3>1. HeaderSize + packet'.len \in Nat
      BY <1>1 DEF HeaderSize
    <3>. QED
      BY <3>1, Truncation DEF HeaderSize
  <2>4. frame.len >= 2 + packet'.len
    BY <1>1, <2>1, <2>3 DEF Truncated
  <2>. QED
    BY <1>1, <2>2, <2>4
<1>4. CASE UNCHANGED <<pc, frame, packet, payload>>
  BY <1>4 DEF PayloadInBounds, NoArray
<1>5. CASE pc' # "handler"
  BY <1>5 DEF PayloadInBounds
<1>7. CASE ReadFrameNoArray
  <2>1. NoArray /\ frame' = frame
    BY <1>7 DEF ReadFrameNoArray
  <2>. QED
    BY <2>1 DEF PayloadInBounds, NoArray
<1>6. \/ ReadPayload \/ ReadFramePayload \/ UNCHANGED <<pc, frame, packet, payload>>
      \/ ReadFrameNoArray \/ pc' # "handler"
  <2>1. Client \/ UNCHANGED vars => UNCHANGED <<pc, frame, packet, payload>>
    BY DEF Client, ClientSends, ClientCloses, vars, packetVars
  <2>2. Quiet \/ ReadHeader \/ ReadLine => pc' # "handler"
    BY DEF Quiet, Handshake, ParseHeaders, FrameNotAllocated, SendFrame, SendLength,
           SendPacket, SendPayload, Handler, HandlerAnswers, HandlerReturns, HandlerExits,
           Write, ReadHeader, ReadLine
  <2>3. ReadTail \/ ReadFrameHeader \/ ReadFrameLength \/ ReadMask => pc' # "handler"
    BY DEF ReadTail, ReadFrameHeader, ReadFrameLength, ReadMask
  <2>. QED
    BY <2>1, <2>2, <2>3 DEF Next, Connection, Quiet
<1>. QED
  BY <1>2, <1>3, <1>4, <1>5, <1>6, <1>7

\* A receiver that reads as much payload as the packet it was given announces
\* stays within the buffer, for every packet and every frame on either transport
\* but those whose lengths overflow, be it the sum of header and payload or the
\* size of the array for the frame (secnet.cpp:61,274,294-302).
THEOREM PayloadBoundsCorrect == Spec => []PayloadInBounds
<1>1. Init => PayloadInBounds
  BY DEF Init, PayloadInBounds
<1>. QED
  BY TypeInit, TypeStep, BoundsStep, <1>1, PTL DEF Spec

-----------------------------------------------------------------------------
(***************************************************************************)
(* HeadersJudged.  The lines that the child looks at are those of the      *)
(* request, so that the last one found there is the last one sent.         *)
(***************************************************************************)

\* The first n elements of L are the lines that the loop visits.
Visits(L, n) == headers = n + 1 /\ \A i \in 1 .. n : lines[i + 1] = L[i]

AskedFor(L, n, a, b) == \E i \in 1 .. n : L[i] = a /\ \A j \in i .. n : L[j] # b

LEMMA LastOfIs ==
  ASSUME NEW L, NEW n \in Nat, Visits(L, n), NEW a, NEW b, a # b, a # NULL
  PROVE  LastOf({a, b}) = a <=> AskedFor(L, n, a, b)
<1>. USE DEF Visits, AskedFor
<1>. DEFINE found == {i \in ParsedLines : lines[i] \in {a, b}}
            last  == CHOOSE i \in found : \A j \in found : j <= i
<1>1. ASSUME NEW i \in 1 .. n
      PROVE  /\ i + 1 \in ParsedLines /\ lines[i + 1] = L[i]
             /\ L[i] \in {a, b} => i + 1 \in found
  BY DEF ParsedLines
<1>2. ASSUME NEW i \in found
      PROVE  /\ i - 1 \in 1 .. n /\ (i - 1) + 1 = i /\ lines[i] = L[i - 1]
             /\ L[i - 1] \in {a, b} /\ i \in 2 .. n + 1
  <2>1. i \in 2 .. n + 1 /\ lines[i] \in {a, b}
    BY DEF ParsedLines
  <2>2. i - 1 \in 1 .. n /\ (i - 1) + 1 = i
    BY <2>1
  <2>3. lines[(i - 1) + 1] = L[i - 1]
    BY <2>2
  <2>. QED
    BY <2>1, <2>2, <2>3
<1>. HIDE DEF found
<1>3. LastOf({a, b}) = IF found = {} THEN NULL ELSE lines[last]
  BY DEF LastOf, found
<1>4. CASE found = {}
  <2>1. LastOf({a, b}) # a
    BY <1>3, <1>4
  <2>2. \A i \in 1 .. n : L[i] # a
    BY <1>1, <1>4
  <2>. QED
    BY <2>1, <2>2
<1>5. CASE found # {}
  <2>1. \E i \in found : \A j \in found : j <= i
    <3>. DEFINE S == {n + 1 - i : i \in found}
    <3>1. \A i \in found : i \in Int /\ n + 1 - i \in Nat
      BY <1>2
    <3>2. S \subseteq Nat /\ S # {}
      BY <1>5, <3>1
    <3>. HIDE DEF S
    <3>3. PICK m \in S : \A x \in S : m <= x
      BY <3>2, Least
    <3>. USE DEF S
    <3>4. PICK i \in found : m = n + 1 - i
      OBVIOUS
    <3>5. ASSUME NEW j \in found PROVE j <= i
      <4>1. n + 1 - j \in S
        OBVIOUS
      <4>2. n + 1 - i <= n + 1 - j
        BY <3>3, <3>4, <4>1
      <4>. QED
        BY <3>1, <4>2
    <3>. QED
      BY <3>5
  <2>2. last \in found /\ \A j \in found : j <= last
    BY <2>1
  <2>. HIDE DEF last
  <2>. DEFINE m == last - 1
  <2>3. m \in 1 .. n /\ m + 1 = last /\ L[m] \in {a, b} /\ last \in Int
        /\ LastOf({a, b}) = L[m]
    BY <1>2, <1>3, <1>5, <2>2
  <2>. HIDE DEF m
  <2>4. ASSUME NEW j \in 1 .. n, L[j] \in {a, b} PROVE j <= m
    <3>1. j + 1 \in found
      BY <1>1, <2>4
    <3>2. j + 1 <= m + 1
      BY <2>2, <2>3, <3>1
    <3>. QED
      BY <2>3, <3>2
  <2>5. CASE L[m] = a
    <3>1. ASSUME NEW j \in m .. n PROVE L[j] # b
      <4>1. j \in 1 .. n /\ j >= m
        BY <2>3
      <4>2. L[j] = b => j = m
        BY <2>3, <2>4, <4>1
      <4>. QED
        BY <2>5, <4>2
    <3>. QED
      BY <2>3, <2>5, <3>1
  <2>6. CASE L[m] = b
    <3>1. ASSUME NEW i \in 1 .. n, L[i] = a PROVE \E j \in i .. n : L[j] = b
      <4>1. i <= m
        BY <2>4, <3>1
      <4>2. m \in i .. n
        BY <2>3, <4>1
      <4>. QED
        BY <2>6, <4>2
    <3>. QED
      BY <2>3, <2>6, <3>1
  <2>. QED
    BY <2>3, <2>5, <2>6
<1>. QED
  BY <1>4, <1>5

\* The loop looks at the lines of the request but for the last one at most.
LEMMA LinesJudged ==
  ASSUME TypeInv, pc = "parse"
  PROVE  /\ HeadersAccepted => Wanted \subseteq LinesOf(request.lines)
         /\ Unmistakable(request.lines) => HeadersAccepted
<1>. DEFINE L == request.lines
            k == Len(L)
            n == headers - 1
            V13 == "version 13"
            V8  == "version 8"
            PS  == "protocol shepoo"
            PC  == "protocol chat"
<1>1. request \in Requests /\ IsHttp(request) /\ Len(lines) = k + 1
      /\ headers = IF k + 1 = MaxHeaders THEN k + 1 ELSE k
  BY DEF TypeInv, PlaceInv, StreamInv, LineCount
<1>2. k \in Nat /\ k >= 1
  BY <1>1, RequestFacts
<1>3. \A i \in 1 .. k + 1 : lines[i] = Line(i)
  BY <1>1 DEF TypeInv, LinesInv
<1>4. n \in Nat /\ headers = n + 1 /\ n <= k /\ k - 1 <= n
  BY <1>1, <1>2
<1>5. ASSUME NEW i \in 1 .. n PROVE lines[i + 1] = L[i]
  <2>1. i + 1 \in 1 .. k + 1 /\ i + 1 # 1 /\ (i + 1) - 1 = i
    BY <1>2, <1>4
  <2>. QED
    BY <1>3, <2>1 DEF Line
<1>. HIDE DEF L, k, n
<1>6. Visits(L, n)
  BY <1>4, <1>5 DEF Visits
<1>7. V13 # V8 /\ V13 # NULL /\ PS # PC /\ PS # NULL
  BY NullAssumption
<1>8. HeadersAccepted <=> AskedFor(L, n, V13, V8) /\ AskedFor(L, n, PS, PC)
  <2>1. LastOf({V13, V8}) = V13 <=> AskedFor(L, n, V13, V8)
    BY <1>4, <1>6, <1>7, LastOfIs
  <2>2. LastOf({PS, PC}) = PS <=> AskedFor(L, n, PS, PC)
    BY <1>4, <1>6, <1>7, LastOfIs
  <2>. QED
    BY <2>1, <2>2 DEF HeadersAccepted
<1>9. ASSUME NEW a, NEW b, AskedFor(L, n, a, b) PROVE a \in LinesOf(L)
  <2>1. PICK i \in 1 .. n : L[i] = a
    BY <1>9 DEF AskedFor
  <2>2. i \in 1 .. Len(L)
    BY <1>2, <1>4 DEF k
  <2>. QED
    BY <2>1, <2>2 DEF LinesOf
<1>10. ASSUME NEW a \in {L[i] : i \in 1 .. (Len(L) - 1)}, NEW b, b \notin LinesOf(L)
       PROVE  AskedFor(L, n, a, b)
  <2>1. PICK i \in 1 .. (k - 1) : L[i] = a
    BY DEF k
  <2>2. i \in 1 .. n /\ \A j \in i .. n : j \in 1 .. Len(L)
    BY <1>2, <1>4 DEF k
  <2>3. \A j \in i .. n : L[j] # b
    BY <1>10, <2>2 DEF LinesOf
  <2>. QED
    BY <2>1, <2>2, <2>3 DEF AskedFor
<1>11. HeadersAccepted => Wanted \subseteq LinesOf(L)
  BY <1>8, <1>9 DEF Wanted
<1>12. Unmistakable(L) => HeadersAccepted
  <2>. SUFFICES ASSUME Unmistakable(L) PROVE HeadersAccepted
    OBVIOUS
  <2>1. /\ V13 \in {L[i] : i \in 1 .. (Len(L) - 1)} /\ V8 \notin LinesOf(L)
        /\ PS \in {L[i] : i \in 1 .. (Len(L) - 1)} /\ PC \notin LinesOf(L)
    BY DEF Unmistakable, Wanted
  <2>2. AskedFor(L, n, V13, V8)
    BY <1>10, <2>1
  <2>3. AskedFor(L, n, PS, PC)
    BY <1>10, <2>1
  <2>. QED
    BY <1>8, <2>2, <2>3
<1>. QED
  BY <1>11, <1>12 DEF L

\* A WebSocket request is accepted only when one of its lines asks for version 13
\* and one for shepoo, it is not refused when lines before the last one do and no
\* line asks for another version or protocol, and the child crashes over the lines
\* only when they fill the array (secnet.cpp:126-214).
THEOREM HeadersJudgedCorrect == Spec => HeadersJudged
<1>. DEFINE Judged ==
       /\ pc = "parse" /\ pc' = "tail" => Wanted \subseteq LinesOf(request.lines)
       /\ pc = "parse" /\ pc' = "refused" => ~Unmistakable(request.lines)
       /\ pc = "lines" /\ pc' = "crashed" => Len(request.lines) >= MaxHeaders - 1
<1>1. TypeInv /\ [Next]_vars => [Judged]_vars
  <2>. SUFFICES ASSUME TypeInv, Next PROVE Judged
    OBVIOUS
  <2>1. pc = "parse" /\ pc' # "parse" => ParseHeaders
    BY DEF Next, Client, ClientSends, ClientCloses, Connection, Handler, HandlerAnswers,
           HandlerReturns, HandlerExits, Handshake, ReadHeader, ReadPayload, ReadLine,
           ReadTail, ReadFrameHeader, ReadFrameLength, ReadMask, ReadFramePayload,
           ReadFrameNoArray, FrameNotAllocated, SendFrame, SendLength, SendPacket,
           SendPayload
  <2>2. ParseHeaders =>
          (pc' = "tail" => HeadersAccepted) /\ (pc' = "refused" => ~HeadersAccepted)
    BY DEF ParseHeaders, Write
  <2>3. pc = "lines" /\ pc' # "lines" => ReadLine
    BY DEF Next, Client, ClientSends, ClientCloses, Connection, Handler, HandlerAnswers,
           HandlerReturns, HandlerExits, Handshake, ReadHeader, ReadPayload, ParseHeaders,
           ReadTail, ReadFrameHeader, ReadFrameLength, ReadMask, ReadFramePayload,
           ReadFrameNoArray, FrameNotAllocated, SendFrame, SendLength, SendPacket,
           SendPayload
  <2>4. ASSUME ReadLine, pc = "lines", pc' = "crashed"
        PROVE  Len(request.lines) >= MaxHeaders - 1
    <3>1. headers' = MaxHeaders /\ request' = request
      BY <2>4 DEF ReadLine, clientVars
    <3>2. TypeInv'
      BY TypeStep
    <3>3. /\ Len(lines') \in Nat /\ Len(lines') <= Len(request'.lines) + 1
          /\ headers' <= Len(lines')
      BY <3>2, SeqShape DEF TypeInv, LinesInv, LineCount
    <3>4. Len(request.lines) \in Nat
      BY RequestFacts DEF TypeInv, StreamInv
    <3>. QED
      BY <3>1, <3>3, <3>4, LengthAssumption
  <2>. QED
    BY <2>1, <2>2, <2>3, <2>4, LinesJudged
<1>. QED
  BY TypeInit, TypeStep, <1>1, PTL DEF Spec, HeadersJudged

-----------------------------------------------------------------------------
(***************************************************************************)
(* AnswerDecodable.  What has been written, at every step of sendPacket:   *)
(* the HTTP answer or nothing, the head of a frame or nothing, the packet. *)
(***************************************************************************)

Http == <<"http", 101>>

FrameStart(a) ==
  <<<<"op", TRUE>>, <<"len7", [len |-> AnswerLen7(a), masked |-> FALSE]>>>>

Extended(a) == AnswerLen7(a) \in {LEN16, LEN64}

Extension(a) == <<<<"ext", InHostOrder(AnswerLen7(a), FrameLength(a))>>>>

Framing(a) == IF Extended(a) THEN Cat(FrameStart(a), Extension(a)) ELSE FrameStart(a)

AnswerHead(a) == <<<<"cmd", a.cmd>>, <<"len", a.len>>>>

Openings == {<<>>, <<Http>>}

Framings(a) == {<<>>, Framing(a)}

Sending == {"sendFrame", "sendLength", "sendPacket", "sendPayload"}

Framed == {"frame", "length", "mask", "framePayload"}

OutInv ==
  /\ pc \in {"handshake", "header", "payload", "lines", "parse"} => out = <<>>
  /\ pc \in Framed \cup {"tail", "handler", "sendFrame"} => out \in Openings
  /\ pc \notin Sending \cup Ended => answer = NULL
  /\ pc \in Sending => answer \in Answers
  /\ pc = "sendLength" =>
       Extended(answer) /\ \E o \in Openings : out = Cat(o, FrameStart(answer))
  /\ pc = "sendPacket" =>
       \E o \in Openings, f \in Framings(answer) : out = Cat(o, f)
  /\ pc = "sendPayload" =>
       \E o \in Openings, f \in Framings(answer) : out = Cat(o, Cat(f, AnswerHead(answer)))
  /\ pc = "done" /\ answer # NULL =>
       /\ answer.len > 0 => answer.data # NULL
       /\ \E o \in Openings, f \in Framings(answer) : out = Cat(o, Cat(f, Message(answer)))

LEMMA CatJoins ==
  ASSUME NEW s, NEW t, IsSeq(s), IsSeq(t)
  PROVE  /\ Cat(<<>>, t) = t /\ Cat(s, <<>>) = s
         /\ \A u : IsSeq(u) => Cat(Cat(s, t), u) = Cat(s, Cat(t, u))
<1>1. Cat(<<>>, t) = t /\ Cat(s, <<>>) = s
  BY ConcatEmptySeq DEF IsSeq, Cat
<1>2. ASSUME NEW u, IsSeq(u) PROVE Cat(Cat(s, t), u) = Cat(s, Cat(t, u))
  <2>. DEFINE S == {s[i] : i \in DOMAIN s} \cup {t[i] : i \in DOMAIN t} \cup {u[i] : i \in DOMAIN u}
  <2>1. s \in Seq(S) /\ t \in Seq(S) /\ u \in Seq(S)
    BY <1>2, SeqMonotonic DEF IsSeq
  <2>. HIDE DEF S
  <2>. QED
    BY <2>1, ConcatAssociative DEF Cat
<1>. QED
  BY <1>1, <1>2

LEMMA Written ==
  ASSUME NEW a \in Answers
  PROVE  /\ IsSeq(FrameStart(a)) /\ Len(FrameStart(a)) = 2
         /\ FrameStart(a)[1] = <<"op", TRUE>>
         /\ FrameStart(a)[2] = <<"len7", [len |-> AnswerLen7(a), masked |-> FALSE]>>
         /\ IsSeq(Extension(a)) /\ Len(Extension(a)) = 1
         /\ Extension(a)[1] = <<"ext", InHostOrder(AnswerLen7(a), FrameLength(a))>>
         /\ IsSeq(AnswerHead(a)) /\ Len(AnswerHead(a)) = 2
         /\ AnswerHead(a)[1] = <<"cmd", a.cmd>> /\ AnswerHead(a)[2] = <<"len", a.len>>
         /\ a.len \in Nat /\ HeaderSize + a.len < Width
         /\ a.data # NULL => IsSeq(a.data) /\ Len(a.data) = a.len
<1>1. /\ IsSeq(FrameStart(a)) /\ Len(FrameStart(a)) = 2
      /\ FrameStart(a)[1] = <<"op", TRUE>>
      /\ FrameStart(a)[2] = <<"len7", [len |-> AnswerLen7(a), masked |-> FALSE]>>
  BY ShortSeqs DEF FrameStart
<1>2. /\ IsSeq(Extension(a)) /\ Len(Extension(a)) = 1
      /\ Extension(a)[1] = <<"ext", InHostOrder(AnswerLen7(a), FrameLength(a))>>
  BY ShortSeqs DEF Extension
<1>3. /\ IsSeq(AnswerHead(a)) /\ Len(AnswerHead(a)) = 2
      /\ AnswerHead(a)[1] = <<"cmd", a.cmd>> /\ AnswerHead(a)[2] = <<"len", a.len>>
  BY ShortSeqs DEF AnswerHead
<1>4. /\ a.len \in Nat /\ HeaderSize + a.len < Width
      /\ a.data # NULL => IsSeq(a.data) /\ Len(a.data) = a.len
  BY AnswerAssumption DEF IsSeq
<1>. QED
  BY <1>1, <1>2, <1>3, <1>4

\* The payload of a message, which is empty for the null pointer.
Carried(a) == IF a.data = NULL THEN <<>> ELSE a.data

LEMMA MessageShape ==
  ASSUME NEW a \in Answers
  PROVE  /\ Message(a) = Cat(AnswerHead(a), Carried(a)) /\ IsSeq(Carried(a))
         /\ IsSeq(Message(a)) /\ Len(Message(a)) = 2 + Len(Carried(a))
         /\ Len(Carried(a)) \in Nat
         /\ Message(a)[1] = <<"cmd", a.cmd>>
<1>1. IsSeq(Carried(a))
  BY Written, ShortSeqs DEF Carried
<1>2. Message(a) = Cat(AnswerHead(a), Carried(a))
  <2>. DEFINE m == [a EXCEPT !.data = IF @ = NULL THEN <<>> ELSE @]
  <2>1. m.cmd = a.cmd /\ m.len = a.len /\ m.data = Carried(a)
    BY AnswerAssumption DEF Carried
  <2>2. Message(a) = PacketCells(m)
    BY DEF Message
  <2>. HIDE DEF m
  <2>. QED
    BY <2>1, <2>2 DEF PacketCells, AnswerHead, Cat
<1>. DEFINE h == AnswerHead(a)
            c == Carried(a)
<1>3. CatFacts(h, c) /\ Len(h) = 2 /\ h[1] = <<"cmd", a.cmd>>
  BY <1>1, Written, ConcatSeq
<1>. HIDE DEF h, c
<1>4. IsSeq(Cat(h, c)) /\ Len(Cat(h, c)) = 2 + Len(c) /\ Cat(h, c)[1] = h[1]
  <2>1. 1 \in 1 .. Len(h)
    BY <1>3
  <2>. QED
    BY <1>3, <2>1 DEF CatFacts
<1>5. Len(c) \in Nat
  BY <1>1, SeqShape DEF c
<1>. QED
  BY <1>1, <1>2, <1>3, <1>4, <1>5 DEF h, c

LEMMA FramingShape ==
  ASSUME NEW a \in Answers
  PROVE  /\ IsSeq(Framing(a)) /\ Len(Framing(a)) = (IF Extended(a) THEN 3 ELSE 2)
         /\ Framing(a)[1] = <<"op", TRUE>>
         /\ Framing(a)[2] = <<"len7", [len |-> AnswerLen7(a), masked |-> FALSE]>>
         /\ Extended(a) => Framing(a)[3] = Extension(a)[1]
<1>1. /\ IsSeq(FrameStart(a)) /\ Len(FrameStart(a)) = 2
      /\ FrameStart(a)[1] = <<"op", TRUE>>
      /\ FrameStart(a)[2] = <<"len7", [len |-> AnswerLen7(a), masked |-> FALSE]>>
      /\ IsSeq(Extension(a)) /\ Len(Extension(a)) = 1
  BY Written
<1>. DEFINE long == Cat(FrameStart(a), Extension(a))
<1>2. CatFacts(FrameStart(a), Extension(a))
  BY <1>1, ConcatSeq
<1>3. /\ IsSeq(long) /\ Len(long) = 3
      /\ long[1] = FrameStart(a)[1] /\ long[2] = FrameStart(a)[2]
  <2>1. IsSeq(long) /\ Len(long) = 3
    BY <1>1, <1>2 DEF CatFacts
  <2>2. 1 \in 1 .. Len(FrameStart(a)) /\ 2 \in 1 .. Len(FrameStart(a))
    BY <1>1
  <2>3. \A i \in 1 .. Len(FrameStart(a)) : long[i] = FrameStart(a)[i]
    BY <1>2 DEF CatFacts
  <2>. HIDE DEF long
  <2>. QED
    BY <2>1, <2>2, <2>3
<1>4. long[3] = Extension(a)[1]
  <2>1. 1 \in 1 .. Len(Extension(a)) /\ Len(FrameStart(a)) + 1 = 3
    BY <1>1
  <2>2. long[Len(FrameStart(a)) + 1] = Extension(a)[1]
    BY <1>2, <2>1 DEF CatFacts
  <2>. QED
    BY <2>1, <2>2
<1>5. Framing(a) = IF Extended(a) THEN long ELSE FrameStart(a)
  BY DEF Framing
<1>. HIDE DEF long
<1>. QED
  BY <1>1, <1>3, <1>4, <1>5

LEMMA PartsSeq ==
  ASSUME NEW a \in Answers, NEW o \in Openings, NEW f \in Framings(a)
  PROVE  IsSeq(o) /\ IsSeq(f)
BY ShortSeqs, FramingShape DEF Openings, Framings

LEMMA OutSend ==
  ASSUME TypeInv, OutInv, SendFrame \/ SendLength \/ SendPacket \/ SendPayload
  PROVE  OutInv'
<1>. DEFINE a == answer
<1>1. pc \in Sending /\ a \in Answers /\ answer' = answer /\ a # NULL
  BY NullAssumption DEF OutInv, SendFrame, SendLength, SendPacket, SendPayload, Sending
<1>2. /\ IsSeq(FrameStart(a)) /\ IsSeq(Extension(a)) /\ IsSeq(AnswerHead(a))
      /\ IsSeq(Carried(a)) /\ Message(a) = Cat(AnswerHead(a), Carried(a)) /\ a.len \in Nat
  BY <1>1, Written, MessageShape
<1>3. CASE pc' = "crashed"
  BY <1>1, <1>3 DEF OutInv, Sending, Ended, Framed
<1>4. CASE SendFrame /\ out' = Cat(out, FrameStart(a))
           /\ pc' = IF Extended(a) THEN "sendLength" ELSE "sendPacket"
  <2>1. out \in Openings
    BY <1>4 DEF OutInv, SendFrame
  <2>2. ~Extended(a) => FrameStart(a) \in Framings(a)
    BY DEF Framings, Framing
  <2>3. CASE Extended(a)
    BY <1>1, <1>4, <2>1, <2>3 DEF OutInv, Sending, Ended, Framed
  <2>4. CASE ~Extended(a)
    BY <1>1, <1>4, <2>1, <2>2, <2>4 DEF OutInv, Sending, Ended, Framed
  <2>. QED
    BY <2>3, <2>4
<1>5. CASE SendLength /\ out' = Cat(out, Extension(a)) /\ pc' = "sendPacket"
  <2>1. PICK o \in Openings : out = Cat(o, FrameStart(a))
    BY <1>5 DEF OutInv, SendLength
  <2>2. Extended(a)
    BY <1>5 DEF OutInv, SendLength
  <2>3. IsSeq(o)
    BY ShortSeqs DEF Openings
  <2>4. out' = Cat(o, Cat(FrameStart(a), Extension(a)))
    BY <1>2, <1>5, <2>1, <2>3, CatJoins
  <2>5. Cat(FrameStart(a), Extension(a)) \in Framings(a)
    BY <2>2 DEF Framings, Framing
  <2>. QED
    BY <1>1, <1>5, <2>4, <2>5 DEF OutInv, Sending, Ended, Framed
<1>6. CASE SendPacket /\ out' = Cat(out, AnswerHead(a)) /\ pc' = "sendPayload"
  <2>1. PICK o \in Openings, f \in Framings(a) : out = Cat(o, f)
    BY <1>6 DEF OutInv, SendPacket
  <2>2. IsSeq(o) /\ IsSeq(f)
    BY <1>1, PartsSeq
  <2>3. out' = Cat(o, Cat(f, AnswerHead(a)))
    BY <1>2, <1>6, <2>1, <2>2, CatJoins
  <2>. QED
    BY <1>1, <1>6, <2>3 DEF OutInv, Sending, Ended, Framed
<1>7. CASE SendPayload /\ pc' = "done"
  <2>1. PICK o \in Openings, f \in Framings(a) : out = Cat(o, Cat(f, AnswerHead(a)))
    BY <1>7 DEF OutInv, SendPayload
  <2>2. IsSeq(o) /\ IsSeq(f) /\ IsSeq(Cat(f, AnswerHead(a)))
    <3>1. IsSeq(o) /\ IsSeq(f)
      BY <1>1, PartsSeq
    <3>2. CatFacts(f, AnswerHead(a))
      BY <1>2, <3>1, ConcatSeq
    <3>. QED
      BY <3>1, <3>2 DEF CatFacts
  <2>3. out' = Cat(out, Carried(a)) /\ (a.len > 0 => a.data # NULL)
    <3>1. CASE a.len = 0
      <4>1. out' = out
        BY <1>7, <3>1 DEF SendPayload
      <4>2. Len(Carried(a)) = 0
        BY <1>1, <3>1, Written, ShortSeqs DEF Carried
      <4>3. Carried(a) = <<>>
        BY <1>2, <4>2, SeqShape
      <4>4. CatFacts(o, Cat(f, AnswerHead(a)))
        BY <2>2, ConcatSeq
      <4>5. IsSeq(out)
        BY <2>1, <4>4 DEF CatFacts
      <4>. QED
        BY <3>1, <4>1, <4>3, <4>5, CatJoins
    <3>2. CASE a.len > 0
      <4>1. a.data # NULL /\ out' = out \o a.data
        BY <1>2, <1>7, <3>2 DEF SendPayload, Write
      <4>. QED
        BY <4>1 DEF Carried, Cat
    <3>. QED
      BY <1>2, <3>1, <3>2
  <2>4. out' = Cat(o, Cat(Cat(f, AnswerHead(a)), Carried(a)))
    BY <1>2, <2>1, <2>2, <2>3, CatJoins
  <2>5. Cat(Cat(f, AnswerHead(a)), Carried(a)) = Cat(f, Message(a))
    BY <1>2, <2>2, CatJoins
  <2>. QED
    BY <1>1, <1>7, <2>3, <2>4, <2>5 DEF OutInv, Sending, Ended, Framed
<1>8. SendFrame =>
        \/ pc' = "crashed"
        \/ /\ out' = Cat(out, FrameStart(a))
           /\ pc' = IF Extended(a) THEN "sendLength" ELSE "sendPacket"
  BY DEF SendFrame, Write, FrameStart, Extended, Cat
<1>9. SendLength =>
        \/ pc' = "crashed"
        \/ out' = Cat(out, Extension(a)) /\ pc' = "sendPacket"
  BY DEF SendLength, Write, Extension, Cat
<1>10. SendPacket =>
        \/ pc' = "crashed"
        \/ out' = Cat(out, AnswerHead(a)) /\ pc' = "sendPayload"
  BY DEF SendPacket, Write, AnswerHead, Cat
<1>11. SendPayload => pc' = "crashed" \/ pc' = "done"
  BY DEF SendPayload, Write
<1>. QED
  BY <1>3, <1>4, <1>5, <1>6, <1>7, <1>8, <1>9, <1>10, <1>11

LEMMA OutInit == Init => OutInv
BY DEF Init, OutInv, Sending, Ended, Framed

LEMMA OutStep == TypeInv /\ OutInv /\ [Next]_vars => OutInv'
<1>. SUFFICES ASSUME TypeInv, OutInv, [Next]_vars PROVE OutInv'
  OBVIOUS
<1>1. CASE SendFrame \/ SendLength \/ SendPacket \/ SendPayload
  BY <1>1, OutSend
<1>2. CASE Client \/ UNCHANGED vars
  <2>1. UNCHANGED <<pc, answer, out>>
    BY <1>2 DEF Client, ClientSends, ClientCloses, vars
  <2>. QED
    BY <2>1 DEF OutInv
<1>3. CASE ReadHeader \/ ReadPayload \/ ReadLine \/ Handshake \/ ReadFrameHeader
           \/ ReadFrameLength \/ ReadMask \/ ReadFramePayload \/ ReadFrameNoArray
           \/ FrameNotAllocated
  <2>1. UNCHANGED <<answer, out>>
    BY <1>3 DEF ReadHeader, ReadPayload, ReadLine, Handshake, ReadFrameHeader,
                ReadFrameLength, ReadMask, ReadFramePayload, ReadFrameNoArray,
                FrameNotAllocated
  <2>2. \/ /\ pc \in {"handshake", "header", "payload", "lines"}
           /\ pc' \in {"header", "payload", "lines", "parse", "handler", "refused", "crashed"}
        \/ pc \in Framed /\ pc' \in Framed \cup {"handler", "refused", "crashed"}
    BY <1>3 DEF ReadHeader, ReadPayload, ReadLine, Handshake, ReadFrameHeader,
                ReadFrameLength, ReadMask, ReadFramePayload, ReadFrameNoArray,
                FrameNotAllocated, Framed
  <2>. QED
    BY <2>1, <2>2 DEF OutInv, Openings, Sending, Ended, Framed
<1>4. CASE ReadTail
  <2>1. pc = "tail" /\ pc' = "frame" /\ UNCHANGED <<answer, out>>
    BY <1>4 DEF ReadTail
  <2>. QED
    BY <2>1 DEF OutInv, Sending, Ended, Framed
<1>5. CASE ParseHeaders
  <2>1. /\ pc = "parse" /\ out = <<>> /\ answer' = answer /\ answer = NULL
        /\ \/ pc' \in {"refused", "crashed"}
           \/ pc' = "tail" /\ out' = Cat(<<>>, <<Http>>)
    BY <1>5 DEF ParseHeaders, Write, Http, Cat, OutInv, Sending, Ended
  <2>2. Cat(<<>>, <<Http>>) = <<Http>>
    BY DEF Cat
  <2>. QED
    BY <2>1, <2>2 DEF OutInv, Openings, Sending, Ended, Framed
<1>6. CASE Handler
  <2>1. /\ pc = "handler" /\ UNCHANGED out
        /\ \/ answer' \in Answers /\ pc' \in {"sendFrame", "sendPacket"}
           \/ answer' = answer /\ pc' \in {"done", "refused"}
    BY <1>6 DEF Handler, HandlerAnswers, HandlerReturns, HandlerExits
  <2>2. answer = NULL /\ out \in Openings
    BY <2>1 DEF OutInv, Sending, Ended
  <2>3. <<>> \in Framings(answer') /\ out = Cat(out, <<>>)
    <3>1. IsSeq(out)
      BY <2>2, ShortSeqs DEF Openings
    <3>. QED
      BY <3>1, CatJoins DEF Framings
  <2>. QED
    BY <2>1, <2>2, <2>3 DEF OutInv, Sending, Ended, Framed
<1>. QED
  BY <1>1, <1>2, <1>3, <1>4, <1>5, <1>6 DEF Next, Connection

LEMMA AnswerFramed ==
  ASSUME NEW a \in Answers
  PROVE  /\ FrameLength(a) = HeaderSize + a.len
         /\ Extended(a) <=> ~(AnswerLen7(a) < LEN16)
         /\ ~Extended(a) => AnswerLen7(a) = FrameLength(a)
         /\ LET host == InHostOrder(AnswerLen7(a), FrameLength(a)) IN
              /\ InHostOrder(AnswerLen7(a), host) = FrameLength(a)
              /\ ~Extended(a) => host = FrameLength(a)
<1>1. a.len \in Nat /\ HeaderSize + a.len < Width /\ HeaderSize + a.len \in Nat
  <2>1. a.len \in Nat /\ HeaderSize + a.len < Width
    BY Written
  <2>. QED
    BY <2>1 DEF HeaderSize
<1>2. FrameLength(a) = HeaderSize + a.len /\ FrameLength(a) \in Nat
  BY <1>1, Truncation DEF FrameLength
<1>3. LEN16 \in Nat /\ LEN64 \in Nat /\ MAX16 \in Nat /\ LEN16 < LEN64 /\ Width \in Nat
  BY LengthAssumption
<1>4. AnswerLen7(a) # LEN16 \/ FrameLength(a) <= MAX16
  BY <1>2, <1>3 DEF AnswerLen7
<1>5. FrameLength(a) \in 0 .. (Width - 1)
  BY <1>1, <1>2, <1>3
<1>6. InHostOrder(AnswerLen7(a), InHostOrder(AnswerLen7(a), FrameLength(a))) = FrameLength(a)
  BY <1>4, <1>5, HostOrder
<1>7. /\ Extended(a) <=> ~(AnswerLen7(a) < LEN16)
      /\ ~Extended(a) => AnswerLen7(a) = FrameLength(a)
  BY <1>2, <1>3 DEF Extended, AnswerLen7
<1>8. ~Extended(a) => InHostOrder(AnswerLen7(a), FrameLength(a)) = FrameLength(a)
  BY DEF Extended, InHostOrder
<1>. QED
  BY <1>2, <1>6, <1>7, <1>8

\* What lies behind its head is a frame's content, if the frame is that long.
LEMMA Unframes ==
  ASSUME NEW a \in Answers, Len(Carried(a)) = a.len, NEW length
  PROVE  LET cells == Cat(Framing(a), Message(a)) IN
           /\ Unframed(cells, length) =
                IF length = FrameLength(a) THEN Message(a) ELSE NULL
           /\ cells[2][2].len = AnswerLen7(a)
           /\ LengthIn(cells) = InHostOrder(AnswerLen7(a), FrameLength(a))
<1>. DEFINE cells == Cat(Framing(a), Message(a))
            n == IF Extended(a) THEN 3 ELSE 2
            m == 2 + a.len
            body == SubSeq(cells, IF AnswerLen7(a) < LEN16 THEN 3 ELSE 4, Len(cells))
<1>1. /\ IsSeq(Framing(a)) /\ Len(Framing(a)) = n /\ n \in {2, 3}
      /\ IsSeq(Message(a)) /\ Len(Message(a)) = m /\ m \in Nat
  <2>1. IsSeq(Framing(a)) /\ Len(Framing(a)) = n
    BY FramingShape
  <2>2. IsSeq(Message(a)) /\ Len(Message(a)) = m
    BY MessageShape
  <2>3. a.len \in Nat
    BY Written
  <2>. QED
    BY <2>1, <2>2, <2>3
<1>2. CatFacts(Framing(a), Message(a))
  BY <1>1, ConcatSeq
<1>. HIDE DEF n, m
<1>3. /\ IsSeq(cells) /\ Len(cells) = n + m
      /\ \A i \in 1 .. n : cells[i] = Framing(a)[i]
      /\ \A i \in 1 .. m : cells[n + i] = Message(a)[i]
  BY <1>1, <1>2 DEF CatFacts
<1>. HIDE DEF cells
<1>4. /\ cells[2] = <<"len7", [len |-> AnswerLen7(a), masked |-> FALSE]>>
      /\ Extended(a) => cells[3] = Extension(a)[1]
  <2>1. 2 \in 1 .. n /\ (Extended(a) => 3 \in 1 .. n)
    BY <1>1 DEF n
  <2>. QED
    BY <1>3, <2>1, FramingShape
<1>5. /\ cells[2][2].len = AnswerLen7(a)
      /\ LengthIn(cells) = InHostOrder(AnswerLen7(a), FrameLength(a))
  <2>1. Extended(a) => cells[3][2] = InHostOrder(AnswerLen7(a), FrameLength(a))
    <3>1. Extension(a)[1] = <<"ext", InHostOrder(AnswerLen7(a), FrameLength(a))>>
      BY Written
    <3>. QED
      BY <1>4, <3>1
  <2>2. cells[2][2].len = AnswerLen7(a)
    BY <1>4
  <2>. QED
    BY <2>1, <2>2, AnswerFramed DEF LengthIn
<1>6. Unframed(cells, length) = IF Len(body) = length THEN body ELSE NULL
  BY <1>5 DEF Unframed
<1>7. body = SubSeq(cells, n + 1, n + m)
  <2>1. (IF AnswerLen7(a) < LEN16 THEN 3 ELSE 4) = n + 1
    BY <1>1, AnswerFramed DEF n
  <2>. QED
    BY <1>3, <2>1
<1>. HIDE DEF body
<1>8. /\ IsSeq(body) /\ Len(body) = m
      /\ \A i \in 1 .. m : body[i] = cells[n + i]
  <2>1. n + 1 \in Nat \ {0} /\ n + m \in Nat /\ (n + m) - (n + 1) + 1 = m
        /\ (n + 1 <= n + m <=> m # 0)
    BY <1>1
  <2>2. /\ IsSeq(SubSeq(cells, n + 1, n + m))
        /\ Len(SubSeq(cells, n + 1, n + m)) =
             IF n + 1 <= n + m THEN (n + m) - (n + 1) + 1 ELSE 0
        /\ \A i \in 1 .. (n + m) - (n + 1) + 1 :
             SubSeq(cells, n + 1, n + m)[i] = cells[(n + 1) + i - 1]
    BY <2>1, SubSeqShape
  <2>3. \A i \in 1 .. m : (n + 1) + i - 1 = n + i
    BY <1>1
  <2>. QED
    BY <1>7, <2>1, <2>2, <2>3
<1>9. body = Message(a)
  BY <1>1, <1>3, <1>8, SameSeq
<1>10. FrameLength(a) = m
  BY AnswerFramed DEF HeaderSize, m
<1>. QED
  BY <1>5, <1>6, <1>8, <1>9, <1>10 DEF cells

\* A client finds the beginning of a packet or a frame behind the HTTP answer.
LEMMA Opened ==
  ASSUME NEW o \in Openings, NEW cells, IsSeq(cells), cells # <<>>,
         cells[1][1] \in {"op", "cmd"}
  PROVE  (IF Cat(o, cells)[1] = Http THEN Tail(Cat(o, cells)) ELSE Cat(o, cells)) = cells
<1>1. CASE o = <<>>
  <2>1. Cat(o, cells) = cells
    BY <1>1, CatJoins
  <2>2. cells[1] # Http
    BY DEF Http
  <2>. QED
    BY <2>1, <2>2
<1>2. CASE o = <<Http>>
  <2>. DEFINE all == Cat(o, cells)
  <2>1. IsSeq(o) /\ Len(o) = 1 /\ o[1] = Http /\ Len(cells) \in Nat
    BY <1>2, ShortSeqs, SeqShape
  <2>2. CatFacts(o, cells)
    BY <2>1, ConcatSeq
  <2>3. /\ IsSeq(all) /\ Len(all) = 1 + Len(cells) /\ all[1] = Http
        /\ \A i \in 1 .. Len(cells) : all[1 + i] = cells[i]
    BY <2>1, <2>2 DEF CatFacts
  <2>. HIDE DEF all
  <2>4. all # <<>>
    BY <2>1, <2>3, SeqShape
  <2>5. /\ IsSeq(Tail(all)) /\ Len(Tail(all)) = Len(cells)
        /\ \A i \in 1 .. Len(cells) : Tail(all)[i] = all[i + 1]
    <3>1. /\ IsSeq(Tail(all)) /\ Len(Tail(all)) = Len(all) - 1
          /\ \A i \in 1 .. Len(all) - 1 : Tail(all)[i] = all[i + 1]
      BY <2>3, <2>4, TailShape
    <3>2. Len(all) - 1 = Len(cells)
      BY <2>1, <2>3
    <3>. QED
      BY <3>1, <3>2
  <2>6. \A i \in 1 .. Len(cells) : Tail(all)[i] = cells[i]
    <3>1. \A i \in 1 .. Len(cells) : i + 1 = 1 + i
      BY <2>1
    <3>. QED
      BY <2>3, <2>5, <3>1
  <2>7. Tail(all) = cells
    BY <2>5, <2>6, SameSeq
  <2>. QED
    BY <2>3, <2>7 DEF all
<1>. QED
  BY <1>1, <1>2 DEF Openings

LEMMA Decodes ==
  ASSUME TypeInv, OutInv
  PROVE  AnswerDecodable
<1>. SUFFICES ASSUME pc = "done", answer # NULL
              PROVE  /\ Received \in {Message(answer), NULL}
                     /\ ~InFrame \/ Readable(answer) => Received = Message(answer)
                     /\ InFrame => Unframed(Reply, InHostOrder(Reply[2][2].len, LengthIn(Reply)))
                                    = Message(answer)
  BY DEF AnswerDecodable
<1>. DEFINE a == answer
<1>1. a \in Answers /\ (a.len > 0 => a.data # NULL)
  BY DEF TypeInv, Types, OutInv
<1>2. PICK o \in Openings, f \in Framings(a) : out = Cat(o, Cat(f, Message(a)))
  BY DEF OutInv
<1>3. /\ IsSeq(Message(a)) /\ Len(Message(a)) # 0 /\ Message(a)[1] = <<"cmd", a.cmd>>
      /\ Len(Carried(a)) = a.len
  <2>1. Len(Carried(a)) = a.len
    <3>1. a.len \in Nat /\ (a.data # NULL => Len(a.data) = a.len)
      BY <1>1, Written
    <3>2. a.data = NULL => a.len = 0
      BY <1>1, <3>1
    <3>3. Len(<<>>) = 0
      OBVIOUS
    <3>. QED
      BY <3>1, <3>2, <3>3 DEF Carried
  <2>2. Len(Message(a)) # 0
    BY <1>1, MessageShape
  <2>. QED
    BY <1>1, <2>1, <2>2, MessageShape
<1>4. Message(a) # <<>>
  BY <1>3, SeqShape
<1>. DEFINE sent == Cat(f, Message(a))
<1>5. /\ IsSeq(sent) /\ sent # <<>>
      /\ \/ f = <<>> /\ sent = Message(a) /\ sent[1][1] = "cmd"
         \/ f = Framing(a) /\ sent[1][1] = "op"
  <2>1. CASE f = <<>>
    <3>1. sent = Message(a)
      BY <1>3, <2>1, CatJoins
    <3>. QED
      BY <1>3, <1>4, <2>1, <3>1
  <2>2. CASE f = Framing(a)
    <3>1. IsSeq(f) /\ Len(f) \in {2, 3} /\ f[1] = <<"op", TRUE>>
      BY <1>1, <2>2, FramingShape
    <3>2. CatFacts(f, Message(a)) /\ Len(Message(a)) \in Nat
      BY <1>3, <3>1, ConcatSeq, SeqShape
    <3>3. 1 \in 1 .. Len(f)
      BY <3>1
    <3>4. IsSeq(sent) /\ Len(sent) # 0 /\ sent[1] = <<"op", TRUE>>
      <4>1. Len(sent) = Len(f) + Len(Message(a))
        BY <3>2 DEF CatFacts
      <4>2. Len(sent) # 0
        BY <3>1, <3>2, <4>1
      <4>. QED
        BY <3>1, <3>2, <3>3, <4>2 DEF CatFacts
    <3>. HIDE DEF sent
    <3>5. sent # <<>>
      BY <3>4, SeqShape
    <3>. QED
      BY <2>2, <3>4, <3>5
  <2>. QED
    BY <2>1, <2>2 DEF Framings
<1>. HIDE DEF sent
<1>6. Reply = sent
  <2>1. out = Cat(o, sent)
    BY <1>2 DEF sent
  <2>2. (IF out[1] = Http THEN Tail(out) ELSE out) = sent
    BY <1>5, <2>1, Opened
  <2>. QED
    BY <2>2 DEF Reply, Sent101, Http
<1>7. CASE f = <<>> /\ sent = Message(a) /\ sent[1][1] = "cmd"
  <2>1. ~InFrame /\ Received = Message(a)
    BY <1>6, <1>7 DEF InFrame, Received
  <2>. QED
    BY <2>1
<1>8. CASE f = Framing(a) /\ sent[1][1] = "op"
  <2>. DEFINE host == InHostOrder(AnswerLen7(a), FrameLength(a))
  <2>1. /\ \A length : Unframed(sent, length) =
                         IF length = FrameLength(a) THEN Message(a) ELSE NULL
        /\ sent[2][2].len = AnswerLen7(a) /\ LengthIn(sent) = host
    BY <1>1, <1>3, <1>8, Unframes DEF sent
  <2>2. Received = Unframed(sent, host)
    BY <1>6, <1>8, <2>1 DEF InFrame, Received
  <2>3. InHostOrder(AnswerLen7(a), host) = FrameLength(a)
    BY <1>1, AnswerFramed
  <2>4. Readable(a) => host = FrameLength(a)
    BY DEF Readable
  <2>5. ~~InFrame
    BY <1>6, <1>8 DEF InFrame
  <2>. HIDE DEF host
  <2>6. Received \in {Message(a), NULL} /\ (Readable(a) => Received = Message(a))
    BY <2>1, <2>2, <2>4
  <2>7. Unframed(Reply, InHostOrder(Reply[2][2].len, LengthIn(Reply))) = Message(a)
    BY <1>6, <2>1, <2>3
  <2>. QED
    BY <2>5, <2>6, <2>7
<1>. QED
  BY <1>5, <1>7, <1>8

\* Of an answer that was sent to the end a client gets the answer or nothing, and
\* the answer itself when it reads the length of the frame in the server's order;
\* in network order it gets those whose length is the same in both
\* (secnet.cpp:67-115).
THEOREM AnswerDecodableCorrect == Spec => []AnswerDecodable
BY TypeInit, TypeStep, OutInit, OutStep, Decodes, PTL DEF Spec

-----------------------------------------------------------------------------
(***************************************************************************)
(* FaithfulDelivery and AnswerNotReset.  Once Fits is broken, it stays     *)
(* broken; while it holds, every read gets all that it asks for.           *)
(***************************************************************************)

FrameOf(len, keyRead) ==
  [binary |-> request.binary, len |-> len, masked |-> request.masked, keyRead |-> keyRead]

Served == Sending \cup {"handler", "done"}

\* The request does not fill the array of lines: the empty line behind them is
\* read with them, and not with the tail.
Room(r) == Len(r.lines) < MaxHeaders - 1

FitPlace ==
  LET n == PacketSize(request)
      f == HeadSize(request)
  IN  /\ pc = "payload" =>
           /\ ~IsHttp(request) /\ Here = 2
           /\ packet = [cmd |-> request.cmd, len |-> request.len]
      /\ pc = "frame" =>
           /\ IsHttp(request)
           /\ Here = HttpEnd \/ (Here = HttpEnd - 1 /\ ~Room(request))
      /\ pc = "length" =>
           /\ IsHttp(request) /\ n >= LEN16 /\ Here = HttpEnd + 2
           /\ frame = FrameOf(Len7(n), FALSE)
      /\ pc = "mask" =>
           /\ IsHttp(request) /\ request.masked /\ Here = HttpEnd + f - 1
           /\ frame = FrameOf(HostLength(n), FALSE)
      /\ pc = "framePayload" =>
           /\ IsHttp(request)
           /\ \/ frame.len = 0 /\ ~Room(request)
              \/ Here = HttpEnd + f /\ frame = FrameOf(HostLength(n), request.masked)
      /\ pc = "handler" /\ Honest(request) =>
           /\ packet = [cmd |-> request.cmd, len |-> request.len]
           /\ packet.len <= Len(payload)
           /\ SubSeq(payload, 1, packet.len) = request.data
      /\ pc \in Served /\ Honest(request) => Here = Total(request)

FitInv == Fits => FitPlace

\* A client's records and its hanging up never restore what they have broken.
LEMMA FitsBefore ==
  ASSUME TypeInv, [Next]_vars, Fits'
  PROVE  Fits
<1>1. CASE \E n \in 1 .. MaxRecord : ClientSends(n)
  <2>1. PICK n \in 1 .. MaxRecord : ClientSends(n)
    BY <1>1
  <2>2. n \in Nat
    BY LengthAssumption
  <2>3. /\ Sent < Sent' /\ cuts \subseteq cuts' /\ cuts' \subseteq cuts \cup {Sent'}
        /\ request' = request /\ peerOpen
    BY <2>1, <2>2, StreamSends DEF TypeInv, ClientSends
  <2>4. Sent \in Nat /\ Sent' \in Nat
    <3>1. StreamInv /\ StreamInv'
      BY TypeStep DEF TypeInv
    <3>2. Sent \in Nat
      BY <3>1, HereFacts
    <3>3. Len(wire') \in Nat /\ Total(request') \in Nat /\ Len(wire') <= Total(request')
      BY <3>1, SeqShape DEF StreamInv, Stream, Total
    <3>4. Sent' \in Nat
      BY <3>3 DEF Sent
    <3>. QED
      BY <3>2, <3>4
  <2>5. HttpEnd' = HttpEnd /\ BodyStart' = BodyStart
    BY <2>3 DEF HttpEnd, BodyStart
  <2>6. \A a, b : Whole(a, b)' => Whole(a, b)
    BY <2>3 DEF Whole
  <2>7. HttpEnd < Sent /\ (HttpEnd < Sent' => HttpEnd \in cuts') /\ IsHttp(request)
          => HttpEnd \in cuts
    <3>1. IsHttp(request) => HttpEnd \in Nat
      BY RequestFacts, HttpShape DEF HttpEnd, TypeInv, StreamInv
    <3>. QED
      BY <2>3, <2>4, <3>1
  <2>8. CASE IsHttp(request)
    <3>1. /\ HttpEnd < Sent' => HttpEnd \in cuts'
          /\ Whole(HttpEnd + 1, HttpEnd + 2)' /\ Whole(BodyStart, Total(request))'
      BY <2>3, <2>5, <2>8 DEF Fits
    <3>2. Whole(HttpEnd + 1, HttpEnd + 2) /\ Whole(BodyStart, Total(request))
      BY <2>3, <2>5, <3>1 DEF Whole
    <3>. QED
      BY <2>3, <2>7, <2>8, <3>1, <3>2 DEF Fits
  <2>9. CASE ~IsHttp(request)
    <3>1. Whole(1, 2)' /\ Whole(3, Total(request))'
      BY <2>3, <2>9 DEF Fits
    <3>2. Whole(1, 2) /\ Whole(3, Total(request))
      BY <2>3, <3>1 DEF Whole
    <3>. QED
      BY <2>3, <2>9, <3>2 DEF Fits
  <2>. QED
    BY <2>8, <2>9
<1>2. CASE ~(\E n \in 1 .. MaxRecord : ClientSends(n))
  <2>1. UNCHANGED <<request, wire, cuts>> /\ (peerOpen' => peerOpen)
    <3>1. UNCHANGED vars \/ Connection \/ Handler => UNCHANGED clientVars
      BY DEF vars, Connection, Handler,
        HandlerAnswers, HandlerReturns, HandlerExits, Handshake, ReadHeader, ReadPayload,
        ReadLine, ParseHeaders, ReadTail, ReadFrameHeader, ReadFrameLength, ReadMask,
        ReadFramePayload, ReadFrameNoArray, FrameNotAllocated, SendFrame, SendLength,
        SendPacket, SendPayload
    <3>2. ClientCloses => UNCHANGED <<request, wire, cuts>> /\ peerOpen
      BY DEF ClientCloses
    <3>. QED
      BY <1>2, <3>1, <3>2 DEF Next, Client, clientVars
  <2>2. Sent' = Sent /\ HttpEnd' = HttpEnd /\ BodyStart' = BodyStart
    BY <2>1 DEF Sent, HttpEnd, BodyStart
  <2>. QED
    BY <2>1, <2>2 DEF Fits, Whole
<1>. QED
  BY <1>1, <1>2

\* A read within a request that is under way returns something; within cells of
\* one record, all it asks for.
LEMMA ReadSome ==
  ASSUME StreamInv, Fits, NEW n \in Nat, n >= 1, ReadStep(n), Here < Total(request)
  PROVE  /\ Len(Got(n)) >= 1 /\ Len(Got(n)) \in Nat /\ Got(n) # <<>>
         /\ Got(n)[1] = Cells(request)[Here + 1]
         /\ \E q \in cuts :
              /\ q \in Nat /\ Here < q /\ q <= Sent /\ Len(Got(n)) = AtMost(n, q - Here)
              /\ \A c \in cuts : c <= Here \/ c >= q
<1>1. inbox # <<>>
  <2>. SUFFICES ASSUME inbox = <<>> PROVE FALSE
    OBVIOUS
  <2>1. Here = Sent /\ ~peerOpen
    BY DEF ReadStep
  <2>2. wire = <<>>
    BY <2>1 DEF Fits
  <2>3. Sent = Total(request) /\ Sent \in Nat
    BY <2>2, HereFacts
  <2>. QED
    BY <2>1, <2>3
<1>2. PICK q \in cuts :
        /\ q \in Nat /\ Here < q /\ q <= Sent /\ Len(Got(n)) = AtMost(n, q - Here)
        /\ \A c \in cuts : c <= Here \/ c >= q
  BY <1>1 DEF ReadStep
<1>3. Here \in Nat /\ (Got(n) = <<>> <=> Len(Got(n)) = 0)
  BY GotFacts
<1>4. Len(Got(n)) >= 1 /\ Len(Got(n)) \in Nat
  BY <1>2, <1>3 DEF AtMost
<1>5. Got(n)[1] = Cells(request)[Here + 1]
  BY <1>4 DEF ReadStep
<1>. QED
  BY <1>2, <1>3, <1>4, <1>5

LEMMA ReadWhole ==
  ASSUME StreamInv, Fits, NEW n \in Nat, ReadStep(n),
         Here + n <= Total(request), n >= 1 => Whole(Here + 1, Here + n)
  PROVE  /\ Len(Got(n)) = n /\ Here' = Here + n
         /\ \A i \in 1 .. n : Got(n)[i] = Cells(request)[Here + i]
<1>1. /\ Len(Got(n)) \in Nat /\ Len(Got(n)) <= n /\ Here' = Here + Len(Got(n))
      /\ \A i \in 1 .. Len(Got(n)) : Got(n)[i] = Cells(request)[Here + i]
  BY DEF ReadStep
<1>2. Here \in Nat /\ Total(request) \in Nat
  BY HereFacts
<1>3. Len(Got(n)) = n
  <2>1. CASE n = 0
    BY <1>1, <2>1
  <2>2. CASE n >= 1
    <3>1. Here < Total(request)
      BY <1>2, <2>2
    <3>2. PICK q \in cuts : q \in Nat /\ Here < q /\ Len(Got(n)) = AtMost(n, q - Here)
      BY <2>2, <3>1, ReadSome
    <3>3. q < Here + 1 \/ q >= Here + n
      BY <2>2, <3>2 DEF Whole
    <3>. QED
      BY <1>2, <3>2, <3>3 DEF AtMost
  <2>. QED
    BY <2>1, <2>2
<1>. QED
  BY <1>1, <1>3

\* A read of the last record gets it to its end, unless it asks for less.
LEMMA ReadRecord ==
  ASSUME StreamInv, Fits, NEW n \in Nat, n >= 1, ReadStep(n), Here < Total(request),
         Whole(Here + 1, Total(request))
  PROVE  /\ Len(Got(n)) = AtMost(n, Total(request) - Here)
         /\ Here' = Here + Len(Got(n))
         /\ \A i \in 1 .. Len(Got(n)) : Got(n)[i] = Cells(request)[Here + i]
<1>1. /\ Here' = Here + Len(Got(n))
      /\ \A i \in 1 .. Len(Got(n)) : Got(n)[i] = Cells(request)[Here + i]
  BY DEF ReadStep
<1>2. Here \in Nat /\ Total(request) \in Nat /\ Sent \in Nat /\ Sent <= Total(request)
  BY HereFacts, SeqShape DEF Sent, Total, StreamInv, Stream
<1>3. PICK q \in cuts : /\ q \in Nat /\ Here < q /\ q <= Sent
                        /\ Len(Got(n)) = AtMost(n, q - Here)
  BY ReadSome
<1>4. q < Here + 1 \/ q >= Total(request)
  BY <1>3 DEF Whole
<1>5. q = Total(request)
  BY <1>2, <1>3, <1>4
<1>. QED
  BY <1>1, <1>3, <1>5

\* No read of the HTTP request reaches into the frame.
LEMMA ReadHttp ==
  ASSUME StreamInv, Fits, IsHttp(request), NEW n \in Nat, n >= 1, ReadStep(n),
         HttpEnd \in Nat, Here < HttpEnd, HttpEnd < Total(request)
  PROVE  Len(Got(n)) \in 1 .. HttpEnd - Here /\ Here' \in Here + 1 .. HttpEnd
<1>1. Here \in Nat /\ Total(request) \in Nat /\ Sent \in Nat
  BY HereFacts
<1>2. Here < Total(request)
  BY <1>1
<1>3. PICK q \in cuts : /\ q \in Nat /\ Here < q /\ q <= Sent
                        /\ Len(Got(n)) = AtMost(n, q - Here)
                        /\ \A c \in cuts : c <= Here \/ c >= q
  BY <1>2, ReadSome
<1>4. q <= HttpEnd
  <2>. SUFFICES ASSUME q > HttpEnd PROVE FALSE
    BY <1>3
  <2>1. HttpEnd < Sent
    BY <1>1, <1>3
  <2>2. HttpEnd \in cuts
    BY <2>1 DEF Fits
  <2>. QED
    BY <1>1, <1>3, <2>2
<1>5. Len(Got(n)) \in 1 .. HttpEnd - Here
  BY <1>1, <1>3, <1>4 DEF AtMost
<1>6. Here' = Here + Len(Got(n))
  BY DEF ReadStep
<1>. QED
  BY <1>1, <1>5, <1>6

\* Where the parts of a request with a frame lie in what the client sends.
LEMMA HttpFacts ==
  ASSUME StreamInv, IsHttp(request), NEW f, f = HeadSize(request),
         NEW n, n = PacketSize(request)
  PROVE  /\ HttpEnd = LineCount(request) + 5 /\ LineCount(request) \in Nat
         /\ HttpEnd \in Nat /\ BodyStart = HttpEnd + f + 1
         /\ Total(request) = HttpEnd + f + n /\ f \in Nat /\ f >= 2
         /\ n \in Nat /\ n >= 2 /\ n + 1 < Width /\ request.masked \in BOOLEAN
         /\ f = HeadCount(n, request.masked)
         /\ Cells(request)[HttpEnd + 1] = <<"op", request.binary>>
         /\ Cells(request)[HttpEnd + 2] =
              <<"len7", [len |-> Len7(n), masked |-> request.masked]>>
         /\ n >= LEN16 => Cells(request)[HttpEnd + 3] = <<"ext", n>>
         /\ request.masked => Cells(request)[HttpEnd + f] = <<"mask", 0>>
         /\ \A i \in 1 .. n : Cells(request)[HttpEnd + f + i] = FrameBody(request)[i]
<1>. DEFINE k == LineCount(request)
<1>1. request \in Requests
  BY DEF StreamInv
<1>2. /\ k \in Nat /\ f \in Nat /\ n \in Nat /\ Total(request) = k + 5 + f + n
      /\ \A i \in 1 .. f : Cells(request)[k + 5 + i] = FrameHead(request)[i]
      /\ \A i \in 1 .. n : Cells(request)[k + 5 + f + i] = FrameBody(request)[i]
  BY <1>1, CellsShape
<1>3. /\ n >= 2 /\ n + 1 < Width /\ request.masked \in BOOLEAN
      /\ f = HeadCount(n, request.masked)
      /\ FrameHead(request)[1] = <<"op", request.binary>>
      /\ FrameHead(request)[2] = <<"len7", [len |-> Len7(n), masked |-> request.masked]>>
      /\ n >= LEN16 => FrameHead(request)[3] = <<"ext", n>>
      /\ request.masked => FrameHead(request)[f] = <<"mask", 0>>
  BY <1>1, HeadCells
<1>4. HttpEnd = k + 5
  BY <1>1, RequestFacts, HttpShape DEF HttpEnd, LineCount
<1>5. BodyStart = HttpEnd + f + 1
  BY DEF BodyStart, HeadSize
<1>. HIDE DEF k
<1>6. f >= 2 /\ (n >= LEN16 => f >= 3)
  BY <1>2, <1>3, LengthAssumption DEF HeadCount
<1>7. 1 \in 1 .. f /\ 2 \in 1 .. f /\ f \in 1 .. f /\ (n >= LEN16 => 3 \in 1 .. f)
  BY <1>2, <1>6
<1>8. /\ Cells(request)[k + 5 + 1] = <<"op", request.binary>>
      /\ Cells(request)[k + 5 + 2] = <<"len7", [len |-> Len7(n), masked |-> request.masked]>>
      /\ n >= LEN16 => Cells(request)[k + 5 + 3] = <<"ext", n>>
      /\ request.masked => Cells(request)[k + 5 + f] = <<"mask", 0>>
  BY <1>2, <1>3, <1>7
<1>9. k = LineCount(request) /\ HttpEnd \in Nat
  BY <1>2, <1>4 DEF k
<1>. QED
  BY <1>2, <1>3, <1>4, <1>5, <1>6, <1>8, <1>9

LEMMA Unmoved ==
  ASSUME request' = request
  PROVE  HttpEnd' = HttpEnd /\ BodyStart' = BodyStart /\ (\A a, b : FrameOf(a, b)' = FrameOf(a, b))
BY DEF HttpEnd, BodyStart, FrameOf

LEMMA FitReadHeader ==
  ASSUME TypeInv, Fits, ReadHeader
  PROVE  FitPlace' /\ (pc' = "refused" => request.len > MAX_PACKET_PAYLOAD_SIZE)
<1>. DEFINE got == Got(HeaderSize)
<1>1. /\ StreamInv /\ request \in Requests /\ Here = 0 /\ pc' \in {"lines", "refused", "payload"}
      /\ Read(HeaderSize) /\ UNCHANGED clientVars /\ request' = request
  BY DEF ReadHeader, TypeInv, StreamInv, PlaceInv, clientVars
<1>2. HeaderSize = 2 /\ HeaderSize \in Nat
  BY DEF HeaderSize
<1>3. ReadStep(HeaderSize)
  BY <1>1, <1>2, Reads
<1>4. CASE IsHttp(request)
  <2>1. Cells(request)[1] = <<"get", 0>> /\ Total(request) > 0
    BY <1>1, <1>4, HttpCell
  <2>2. got # <<>> /\ got[1] = Cells(request)[Here + 1]
    BY <1>1, <1>2, <1>3, <2>1, ReadSome
  <2>3. got # <<>> /\ got[1][1] = "get"
    BY <1>1, <2>1, <2>2
  <2>4. pc' = "lines"
    BY <2>3 DEF ReadHeader
  <2>. QED
    BY <2>4 DEF FitPlace, Served, Sending
<1>5. CASE ~IsHttp(request)
  <2>1. /\ Total(request) = 2 + Len(request.data) /\ Len(request.data) \in Nat
        /\ Cells(request)[1] = <<"cmd", request.cmd>>
        /\ Cells(request)[2] = <<"len", request.len>>
    BY <1>1, <1>5, PlainCell
  <2>2. Whole(1, 2)
    BY <1>5 DEF Fits
  <2>3. Here + HeaderSize <= Total(request) /\ Here + 1 = 1 /\ Here + HeaderSize = 2
    BY <1>1, <1>2, <2>1
  <2>4. Whole(Here + 1, Here + HeaderSize)
    BY <2>2, <2>3
  <2>5. /\ Len(got) = HeaderSize /\ Here' = Here + HeaderSize
        /\ \A i \in 1 .. HeaderSize : got[i] = Cells(request)[Here + i]
    BY <1>1, <1>2, <1>3, <2>3, <2>4, ReadWhole
  <2>6. Here' = 2 /\ Len(got) = 2 /\ got[1] = <<"cmd", request.cmd>>
        /\ got[2] = <<"len", request.len>>
    BY <1>1, <1>2, <2>1, <2>5
  <2>7. got # <<>>
    BY <2>6
  <2>. HIDE DEF got
  <2>8. packet' = [cmd |-> request.cmd, len |-> request.len]
    <3>1. packet' = [cmd |-> IF got = <<>> THEN ZeroCommand ELSE got[1][2],
                     len |-> IF Len(got) < 2 THEN 0 ELSE got[2][2]]
      BY <2>6 DEF ReadHeader, got
    <3>. QED
      BY <2>6, <2>7, <3>1
  <2>9. FitPlace'
    BY <1>1, <1>5, <2>6, <2>8 DEF FitPlace, Served, Sending
  <2>10. pc' = "refused" => packet'.len > MAX_PACKET_PAYLOAD_SIZE
    <3>1. ~(got # <<>> /\ got[1][1] = "get")
      BY <2>6
    <3>2. pc' = IF packet'.len > MAX_PACKET_PAYLOAD_SIZE THEN "refused" ELSE "payload"
      BY <3>1 DEF ReadHeader, got
    <3>. QED
      BY <3>2
  <2>. QED
    BY <2>8, <2>9, <2>10
<1>. QED
  BY <1>4, <1>5

LEMMA FitReadPayload ==
  ASSUME TypeInv, Fits, FitPlace, ReadPayload
  PROVE  FitPlace'
<1>1. /\ StreamInv /\ request \in Requests /\ ~IsHttp(request) /\ Here = 2
      /\ packet = [cmd |-> request.cmd, len |-> request.len]
      /\ Read(packet.len) /\ UNCHANGED clientVars /\ request' = request
      /\ packet' = packet /\ payload' = Buffer(packet.len) /\ pc' = "handler"
  BY DEF ReadPayload, TypeInv, StreamInv, FitPlace, clientVars
<1>2. /\ Total(request) = 2 + Len(request.data) /\ Len(request.data) \in Nat
      /\ IsSeq(request.data)
      /\ \A i \in 1 .. Len(request.data) : Cells(request)[2 + i] = request.data[i]
  BY <1>1, PlainCell
<1>3. ASSUME Honest(request)
      PROVE  /\ packet'.len <= Len(payload') /\ Here' = Total(request)
             /\ SubSeq(payload', 1, packet'.len) = request.data
  <2>. DEFINE n == Len(request.data)
  <2>1. packet.len = n /\ n \in Nat
    BY <1>1, <1>2, <1>3 DEF Honest
  <2>2. Whole(3, Total(request))
    BY <1>1 DEF Fits
  <2>. HIDE DEF n
  <2>3. Here + n = Total(request) /\ Here + 1 = 3
    BY <1>1, <1>2 DEF n
  <2>4. ReadStep(n)
    BY <1>1, <2>1, Reads
  <2>5. /\ Len(Got(n)) = n /\ Here' = Here + n
        /\ \A i \in 1 .. n : Got(n)[i] = Cells(request)[Here + i]
    <3>1. Whole(Here + 1, Here + n) /\ Here + n <= Total(request)
      BY <2>2, <2>3, <1>1, <1>2
    <3>. QED
      BY <1>1, <2>1, <2>4, <3>1, ReadWhole
  <2>6. IsSeq(Buffer(n)) /\ Len(Buffer(n)) = n
    BY <2>1, BufferShape
  <2>7. ASSUME NEW i \in 1 .. n PROVE Buffer(n)[i] = request.data[i]
    <3>1. Buffer(n)[i] = Got(n)[i]
      BY <2>1, <2>5 DEF Buffer
    <3>. QED
      BY <1>1, <1>2, <2>5, <3>1 DEF n
  <2>8. Buffer(n) = request.data
    BY <1>2, <2>1, <2>6, <2>7, SameSeq DEF n
  <2>9. SubSeq(request.data, 1, n) = request.data
    <3>1. /\ IsSeq(SubSeq(request.data, 1, n)) /\ Len(SubSeq(request.data, 1, n)) = n
          /\ \A i \in 1 .. n : SubSeq(request.data, 1, n)[i] = request.data[i]
      BY <2>1, FrontShape DEF Front
    <3>. QED
      BY <1>2, <3>1, SameSeq DEF n
  <2>10. packet' = packet /\ payload' = request.data /\ packet'.len = n
    BY <1>1, <2>1, <2>8
  <2>11. packet'.len <= Len(payload')
    BY <1>2, <2>10 DEF n
  <2>. QED
    BY <2>3, <2>5, <2>9, <2>10, <2>11
<1>. QED
  BY <1>1, <1>3 DEF FitPlace, Served, Sending

LEMMA FitReadTail ==
  ASSUME TypeInv, Fits, ReadTail
  PROVE  FitPlace'
<1>. DEFINE k == LineCount(request)
<1>1. /\ StreamInv /\ IsHttp(request) /\ request' = request /\ pc' = "frame"
      /\ Read(TailSize) /\ UNCHANGED clientVars
      /\ Here = IF k + 1 = MaxHeaders THEN k + 3 ELSE k + 4
  BY DEF ReadTail, TypeInv, StreamInv, PlaceInv, clientVars
<1>2. TailSize \in Nat /\ TailSize >= 1
  BY DEF TailSize
<1>3. ReadStep(TailSize)
  BY <1>1, <1>2, Reads
<1>4. HttpEnd = k + 5 /\ k \in Nat /\ HttpEnd \in Nat /\ HttpEnd < Total(request)
  <2>. DEFINE f == HeadSize(request)
              n == PacketSize(request)
  <2>1. /\ HttpEnd = k + 5 /\ k \in Nat /\ HttpEnd \in Nat
        /\ Total(request) = HttpEnd + f + n /\ f \in Nat /\ f >= 2 /\ n \in Nat
    BY <1>1, HttpFacts
  <2>. HIDE DEF f, n
  <2>. QED
    BY <2>1
<1>5. MaxHeaders \in Nat /\ (Room(request) => k + 1 # MaxHeaders)
  BY <1>4, LengthAssumption DEF Room, LineCount
<1>. HIDE DEF k
<1>6. Here < HttpEnd
  BY <1>1, <1>4
<1>7. Here' \in Here + 1 .. HttpEnd
  BY <1>1, <1>2, <1>3, <1>4, <1>6, ReadHttp
<1>8. Here' = HttpEnd \/ (Here' = HttpEnd - 1 /\ ~Room(request))
  BY <1>1, <1>4, <1>5, <1>7
<1>. QED
  BY <1>1, <1>8, Unmoved DEF FitPlace, Served, Sending

LEMMA FitReadFrameHeader ==
  ASSUME TypeInv, Fits, FitPlace, ReadFrameHeader
  PROVE  FitPlace'
<1>. DEFINE f == HeadSize(request)
            n == PacketSize(request)
            got == Got(2)
<1>1. /\ StreamInv /\ IsHttp(request) /\ request' = request
      /\ Read(2) /\ UNCHANGED clientVars
      /\ Here = HttpEnd \/ (Here = HttpEnd - 1 /\ ~Room(request))
  BY DEF ReadFrameHeader, TypeInv, StreamInv, FitPlace, clientVars
<1>2. /\ HttpEnd \in Nat /\ Total(request) = HttpEnd + f + n /\ f \in Nat /\ f >= 2
      /\ n \in Nat /\ n >= 2 /\ request.masked \in BOOLEAN /\ f = HeadCount(n, request.masked)
      /\ Cells(request)[HttpEnd + 1] = <<"op", request.binary>>
      /\ Cells(request)[HttpEnd + 2] =
           <<"len7", [len |-> Len7(n), masked |-> request.masked]>>
  BY <1>1, HttpFacts
<1>3. ReadStep(2)
  BY <1>1, Reads
<1>4. PICK binary, second :
        /\ binary \in IF got = <<>> THEN {FALSE} ELSE ReadAs("op", got[1], BOOLEAN)
        /\ second \in IF Len(got) < 2 THEN {[len |-> 0, masked |-> FALSE]}
                      ELSE ReadAs("len7", got[2], [len : 0 .. LEN64, masked : BOOLEAN])
        /\ frame' = [binary |-> binary, len |-> second.len, masked |-> second.masked,
                     keyRead |-> FALSE]
        /\ pc' = CASE second.len \in {LEN16, LEN64} -> "length"
                    [] OTHER -> IF second.masked THEN "mask" ELSE "framePayload"
  BY DEF ReadFrameHeader
<1>. HIDE DEF f, n, got
<1>5. CASE Here = HttpEnd - 1 /\ ~Room(request)
  <2>1. Here < HttpEnd /\ HttpEnd < Total(request) /\ HttpEnd - Here = 1
    BY <1>2, <1>5
  <2>2. Len(got) \in 1 .. HttpEnd - Here
    <3>1. StreamInv /\ IsHttp(request) /\ HttpEnd \in Nat
      BY <1>1, <1>2
    <3>. QED
      BY <1>3, <2>1, <3>1, ReadHttp DEF got
  <2>3. Len(got) < 2
    BY <2>1, <2>2
  <2>4. second = [len |-> 0, masked |-> FALSE]
    BY <1>4, <2>3
  <2>5. frame'.len = 0 /\ pc' = "framePayload"
    BY <1>4, <2>4, LengthAssumption
  <2>. QED
    BY <1>1, <1>5, <2>5 DEF FitPlace, Served, Sending
<1>6. CASE Here = HttpEnd
  <2>1. Whole(HttpEnd + 1, HttpEnd + 2)
    BY <1>1 DEF Fits
  <2>2. Here + 2 <= Total(request)
    BY <1>2, <1>6
  <2>3. /\ Len(got) = 2 /\ Here' = Here + 2
        /\ \A i \in 1 .. 2 : got[i] = Cells(request)[Here + i]
    BY <1>1, <1>3, <1>6, <2>1, <2>2, ReadWhole DEF got
  <2>4. /\ got[1] = <<"op", request.binary>>
        /\ got[2] = <<"len7", [len |-> Len7(n), masked |-> request.masked]>>
    BY <1>2, <1>6, <2>3
  <2>5. got # <<>> /\ ~(Len(got) < 2)
    BY <2>3
  <2>6. binary = request.binary /\ second = [len |-> Len7(n), masked |-> request.masked]
    BY <1>4, <2>4, <2>5 DEF ReadAs
  <2>7. /\ frame' = FrameOf(Len7(n), FALSE)
        /\ pc' = IF Len7(n) \in {LEN16, LEN64} THEN "length"
                 ELSE IF request.masked THEN "mask" ELSE "framePayload"
    BY <1>4, <2>6 DEF FrameOf
  <2>8. Here' = HttpEnd + 2
    BY <1>6, <2>3
  <2>9. CASE n < LEN16
    <3>1. Len7(n) = n /\ Len7(n) \notin {LEN16, LEN64} /\ HostLength(n) = n
      BY <1>2, <2>9, HostLengths, LengthAssumption
    <3>2. f = IF request.masked THEN 3 ELSE 2
      BY <1>2, <2>9 DEF HeadCount
    <3>3. CASE request.masked
      <4>1. pc' = "mask" /\ Here' = HttpEnd + f - 1 /\ frame' = FrameOf(HostLength(n), FALSE)
        BY <1>2, <2>7, <2>8, <3>1, <3>2, <3>3
      <4>. QED
        BY <1>1, <3>3, <4>1, Unmoved DEF FitPlace, Served, Sending, f, n
    <3>4. CASE ~request.masked
      <4>1. /\ pc' = "framePayload" /\ Here' = HttpEnd + f
            /\ frame' = FrameOf(HostLength(n), request.masked)
        BY <1>2, <2>7, <2>8, <3>1, <3>2, <3>4
      <4>. QED
        BY <1>1, <4>1, Unmoved DEF FitPlace, Served, Sending, f, n
    <3>. QED
      BY <3>3, <3>4
  <2>10. CASE n >= LEN16
    <3>1. Len7(n) \in {LEN16, LEN64}
      BY <1>2, <2>10, LengthAssumption DEF Len7
    <3>2. pc' = "length"
      BY <2>7, <3>1
    <3>. QED
      BY <1>1, <2>7, <2>8, <2>10, <3>2, Unmoved DEF FitPlace, Served, Sending, n
  <2>. QED
    BY <1>2, <2>9, <2>10, LengthAssumption
<1>. QED
  BY <1>1, <1>5, <1>6

LEMMA FitReadFrameLength ==
  ASSUME TypeInv, Fits, FitPlace, ReadFrameLength
  PROVE  FitPlace'
<1>. DEFINE f == HeadSize(request)
            n == PacketSize(request)
            cell == IF Got(1) = <<>> THEN Garbage ELSE Got(1)[1]
<1>1. /\ StreamInv /\ IsHttp(request) /\ request' = request /\ Read(1)
      /\ UNCHANGED clientVars /\ n >= LEN16 /\ Here = HttpEnd + 2
      /\ frame = FrameOf(Len7(n), FALSE)
  BY DEF ReadFrameLength, TypeInv, StreamInv, FitPlace, clientVars
<1>2. /\ HttpEnd \in Nat /\ Total(request) = HttpEnd + f + n /\ f \in Nat /\ f >= 2
      /\ n \in Nat /\ n >= 2 /\ n + 1 < Width /\ request.masked \in BOOLEAN
      /\ f = HeadCount(n, request.masked)
      /\ n >= LEN16 => Cells(request)[HttpEnd + 3] = <<"ext", n>>
  BY <1>1, HttpFacts
<1>3. ReadStep(1)
  BY <1>1, Reads
<1>4. PICK m \in IF cell[1] = "ext" THEN {InHostOrder(frame.len, cell[2])} ELSE Lengths :
        frame' = [frame EXCEPT !.len = IF frame.len = LEN16 THEN uint16(m) ELSE m]
  BY DEF ReadFrameLength
<1>5. pc' = IF frame.masked THEN "mask" ELSE "framePayload"
  BY DEF ReadFrameLength
<1>6. (Got(1) # <<>> => cell = Got(1)[1]) /\ IsHttp(request) /\ request' = request
  BY <1>1
<1>. HIDE DEF f, n, cell
<1>7. Here < Total(request) /\ Here + 1 = HttpEnd + 3
  BY <1>1, <1>2
<1>8. Len(Got(1)) >= 1 /\ Got(1) # <<>> /\ Got(1)[1] = Cells(request)[Here + 1]
  BY <1>1, <1>3, <1>7, ReadSome
<1>9. Here' = HttpEnd + 3
  <2>1. Len(Got(1)) \in Nat /\ Len(Got(1)) <= 1 /\ Here' = Here + Len(Got(1))
    BY <1>3 DEF ReadStep
  <2>. QED
    BY <1>1, <1>2, <1>8, <2>1
<1>10. frame.len = Len7(n) /\ frame.masked = request.masked
  BY <1>1 DEF FrameOf
<1>11. m = HostLength(n)
  <2>1. cell = <<"ext", n>>
    BY <1>1, <1>2, <1>6, <1>7, <1>8
  <2>. QED
    BY <1>4, <1>10, <2>1 DEF HostLength
<1>12. frame' = FrameOf(HostLength(n), FALSE)
  <2>1. Len7(n) = LEN16 => HostLength(n) \in Nat /\ HostLength(n) <= MAX16
    BY <1>2, HostLengths
  <2>2. Len7(n) = LEN16 => uint16(HostLength(n)) = HostLength(n)
    BY <2>1, Truncation
  <2>3. frame' = [FrameOf(Len7(n), FALSE) EXCEPT !.len = HostLength(n)]
    BY <1>1, <1>4, <1>10, <1>11, <2>2
  <2>. QED
    BY <2>3 DEF FrameOf
<1>13. f = IF request.masked THEN 4 ELSE 3
  BY <1>1, <1>2, LengthAssumption DEF HeadCount
<1>14. CASE request.masked
  <2>1. pc' = "mask" /\ Here' = HttpEnd + f - 1
    BY <1>2, <1>5, <1>9, <1>10, <1>13, <1>14
  <2>. QED
    BY <1>6, <1>12, <1>14, <2>1, Unmoved DEF FitPlace, Served, Sending, f, n
<1>15. CASE ~request.masked
  <2>1. /\ pc' = "framePayload" /\ Here' = HttpEnd + f
        /\ frame' = FrameOf(HostLength(n), request.masked)
    BY <1>2, <1>5, <1>9, <1>10, <1>12, <1>13, <1>15
  <2>. QED
    BY <1>6, <2>1, Unmoved DEF FitPlace, Served, Sending, f, n
<1>. QED
  BY <1>14, <1>15

LEMMA FitReadMask ==
  ASSUME TypeInv, Fits, FitPlace, ReadMask
  PROVE  FitPlace'
<1>. DEFINE f == HeadSize(request)
            n == PacketSize(request)
<1>1. /\ StreamInv /\ IsHttp(request) /\ request' = request /\ Read(1)
      /\ UNCHANGED clientVars /\ request.masked /\ Here = HttpEnd + f - 1
      /\ frame = FrameOf(HostLength(n), FALSE) /\ pc' = "framePayload"
      /\ frame' = [frame EXCEPT !.keyRead = Got(1) # <<>> /\ Got(1)[1][1] = "mask"]
  BY DEF ReadMask, TypeInv, StreamInv, FitPlace, clientVars
<1>2. /\ HttpEnd \in Nat /\ Total(request) = HttpEnd + f + n /\ f \in Nat /\ f >= 2
      /\ n \in Nat /\ n >= 2 /\ request.masked \in BOOLEAN
      /\ request.masked => Cells(request)[HttpEnd + f] = <<"mask", 0>>
  BY <1>1, HttpFacts
<1>3. ReadStep(1)
  BY <1>1, Reads
<1>. HIDE DEF f, n
<1>4. Here < Total(request) /\ Here + 1 = HttpEnd + f
  BY <1>1, <1>2
<1>5. Len(Got(1)) >= 1 /\ Got(1) # <<>> /\ Got(1)[1] = Cells(request)[Here + 1]
  BY <1>1, <1>3, <1>4, ReadSome
<1>6. Here' = HttpEnd + f
  <2>1. Len(Got(1)) \in Nat /\ Len(Got(1)) <= 1 /\ Here' = Here + Len(Got(1))
    BY <1>3 DEF ReadStep
  <2>. QED
    BY <1>1, <1>2, <1>5, <2>1
<1>7. frame' = FrameOf(HostLength(n), request.masked)
  <2>1. (Got(1) # <<>> /\ Got(1)[1][1] = "mask") = TRUE
    BY <1>1, <1>2, <1>4, <1>5
  <2>2. frame' = FrameOf(HostLength(n), TRUE)
    BY <1>1, <2>1 DEF FrameOf
  <2>3. request.masked = TRUE
    BY <1>1, <1>2
  <2>. QED
    BY <2>2, <2>3
<1>8. IsHttp(request) /\ request' = request /\ pc' = "framePayload"
  BY <1>1
<1>. QED
  BY <1>6, <1>7, <1>8, Unmoved DEF FitPlace, Served, Sending, f, n

\* A frame that arrives as it was sent is unmasked to the packet in it.
LEMMA Unmasked ==
  ASSUME NEW r \in Requests, NEW n, n = PacketSize(r), NEW i \in 1 .. n,
         frame.masked = r.masked, frame.keyRead = r.masked
  PROVE  Unmask(FrameBody(r)[i]) = PacketCells(r)[i]
<1>1. r.masked \in BOOLEAN /\ frame.masked = r.masked /\ frame.keyRead = r.masked
  BY RequestFacts
<1>2. FrameBody(r)[i] = IF r.masked THEN <<"masked", PacketCells(r)[i]>> ELSE PacketCells(r)[i]
  BY RequestFacts, PacketShape, FrameBodyShape DEF PacketSize
<1>3. CASE r.masked
  BY <1>1, <1>2, <1>3 DEF Unmask
<1>4. CASE ~r.masked
  BY <1>1, <1>2, <1>4 DEF Unmask
<1>. QED
  BY <1>3, <1>4

LEMMA FitReadFramePayload ==
  ASSUME TypeInv, Fits, FitPlace, ReadFramePayload
  PROVE  /\ FitPlace'
         /\ pc' = "refused" =>
              \/ ~Honest(request) \/ ~Room(request)
              \/ HostLength(PacketSize(request)) # PacketSize(request)
<1>. DEFINE f == HeadSize(request)
            n == PacketSize(request)
            h == HostLength(n)
            g == AtMost(h, n)
            m == Len(request.data)
            cells == [i \in 1 .. frame.len |-> Unmask(Buffer(frame.len)[i])]
<1>1. /\ StreamInv /\ IsHttp(request) /\ request' = request /\ Read(frame.len)
      /\ UNCHANGED clientVars /\ pc' \in {"refused", "handler"} /\ request \in Requests
      /\ \/ frame.len = 0 /\ ~Room(request)
         \/ Here = HttpEnd + f /\ frame = FrameOf(h, request.masked)
  BY DEF ReadFramePayload, TypeInv, StreamInv, FitPlace, clientVars
<1>2. /\ n = 2 + m /\ m \in Nat /\ IsSeq(request.data)
      /\ PacketCells(request)[1] = <<"cmd", request.cmd>>
      /\ PacketCells(request)[2] = <<"len", request.len>>
      /\ \A j \in 1 .. m : PacketCells(request)[2 + j] = request.data[j]
  BY <1>1, RequestFacts, PacketShape DEF HeaderSize, PacketSize
<1>3. /\ HttpEnd \in Nat /\ Total(request) = HttpEnd + f + n /\ f \in Nat
      /\ n \in Nat /\ n >= 2 /\ n + 1 < Width /\ BodyStart = HttpEnd + f + 1
      /\ \A i \in 1 .. n : Cells(request)[HttpEnd + f + i] = FrameBody(request)[i]
  <2>1. StreamInv /\ IsHttp(request) /\ f = HeadSize(request) /\ n = PacketSize(request)
    BY <1>1
  <2>. HIDE DEF f, n, h, g, cells
  <2>. QED
    BY <2>1, HttpFacts
<1>4. h \in Nat /\ Width \in Nat
  BY <1>3, HostLengths, LengthAssumption
<1>5. ASSUME frame.len >= HeaderSize
      PROVE  /\ frame.len = h /\ frame.binary = request.binary
             /\ h >= 2 /\ Here' = HttpEnd + f + g
             /\ \A i \in 1 .. g : cells[i] = PacketCells(request)[i]
  <2>1. Here = HttpEnd + f /\ frame = FrameOf(h, request.masked)
    BY <1>1, <1>5 DEF HeaderSize
  <2>2. /\ frame.len = h /\ frame.binary = request.binary
        /\ frame.masked = request.masked /\ frame.keyRead = request.masked
    BY <2>1 DEF FrameOf
  <2>3. h >= 2 /\ h >= 1
    BY <1>4, <1>5, <2>2 DEF HeaderSize
  <2>4. ReadStep(h)
    BY <1>1, <1>4, <2>2, Reads
  <2>5. \A i \in 1 .. n : Unmask(FrameBody(request)[i]) = PacketCells(request)[i]
    BY <1>1, <2>2, Unmasked
  <2>6. cells = [i \in 1 .. h |-> Unmask(Buffer(h)[i])]
    BY <2>2
  <2>7. Here < Total(request) /\ Total(request) - Here = n
    <3>. HIDE DEF f, n
    <3>. QED
      BY <1>3, <2>1
  <2>. HIDE DEF f, n, h, m, cells
  <2>8. Whole(Here + 1, Total(request))
    BY <1>1, <1>3, <2>1 DEF Fits
  <2>9. /\ Len(Got(h)) = g /\ Here' = Here + g
        /\ \A i \in 1 .. g : Got(h)[i] = Cells(request)[Here + i]
    BY <1>1, <1>4, <2>3, <2>4, <2>7, <2>8, ReadRecord
  <2>10. g \in Nat /\ g <= n /\ g <= h
    BY <1>3, <1>4 DEF AtMost
  <2>. HIDE DEF g
  <2>11. ASSUME NEW i \in 1 .. g PROVE cells[i] = PacketCells(request)[i]
    <3>1. i \in 1 .. n /\ i \in 1 .. h
      BY <1>3, <1>4, <2>10
    <3>2. Buffer(h)[i] = FrameBody(request)[i]
      BY <1>3, <2>1, <2>9, <3>1 DEF Buffer
    <3>. QED
      BY <2>5, <2>6, <3>1, <3>2
  <2>. QED
    BY <2>1, <2>2, <2>3, <2>9, <2>11
<1>. HIDE DEF f, n, h, g, m, cells
<1>6. frame.len >= HeaderSize =>
        cells[1] = <<"cmd", request.cmd>> /\ cells[2] = <<"len", request.len>>
  <2>. SUFFICES ASSUME frame.len >= HeaderSize
                PROVE  cells[1] = <<"cmd", request.cmd>> /\ cells[2] = <<"len", request.len>>
    OBVIOUS
  <2>1. 1 \in 1 .. g /\ 2 \in 1 .. g
    BY <1>3, <1>4, <1>5 DEF AtMost, g
  <2>. QED
    BY <1>2, <1>5, <2>1
<1>7. Honest(request) => HeaderSize + request.len = n /\ uint64(n) = n /\ request.len = m
  <2>1. n < Width
    BY <1>3, <1>4
  <2>2. uint64(n) = n
    BY <1>3, <2>1, Truncation
  <2>. QED
    BY <1>2, <2>2 DEF Honest, HeaderSize, m
<1>8. ASSUME pc' = "handler", Honest(request)
      PROVE  /\ packet' = [cmd |-> request.cmd, len |-> request.len]
             /\ packet'.len <= Len(payload') /\ Here' = Total(request)
             /\ SubSeq(payload', 1, packet'.len) = request.data
  <2>1. PICK cmd, len :
          /\ frame.len >= HeaderSize /\ ~Truncated(len)
          /\ cmd \in ReadAs("cmd", cells[1], Commands)
          /\ len \in ReadAs("len", cells[2], Lengths)
          /\ packet' = [cmd |-> cmd, len |-> len]
          /\ payload' = SubSeq(cells, HeaderSize + 1, frame.len)
    BY <1>8 DEF ReadFramePayload, cells
  <2>2. packet' = [cmd |-> request.cmd, len |-> request.len] /\ len = request.len
    BY <1>6, <2>1 DEF ReadAs
  <2>3. h >= n /\ g = n
    <3>1. frame.len = h /\ ~(frame.len < n)
      BY <1>5, <1>7, <1>8, <2>1, <2>2 DEF Truncated
    <3>. QED
      BY <1>3, <1>4, <3>1 DEF AtMost, g
  <2>4. Here' = Total(request) /\ \A i \in 1 .. n : cells[i] = PacketCells(request)[i]
    BY <1>3, <1>5, <2>1, <2>3
  <2>5. payload' = SubSeq(cells, 3, h)
    <3>1. HeaderSize + 1 = 3
      BY DEF HeaderSize
    <3>. QED
      BY <1>5, <2>1, <3>1
  <2>6. /\ IsSeq(payload') /\ Len(payload') = IF 3 <= h THEN h - 3 + 1 ELSE 0
        /\ \A i \in 1 .. h - 3 + 1 : payload'[i] = cells[3 + i - 1]
    <3>1. h \in Nat /\ 3 \in Nat \ {0}
      BY <1>4
    <3>2. /\ IsSeq(SubSeq(cells, 3, h))
          /\ Len(SubSeq(cells, 3, h)) = IF 3 <= h THEN h - 3 + 1 ELSE 0
          /\ \A i \in 1 .. h - 3 + 1 : SubSeq(cells, 3, h)[i] = cells[3 + i - 1]
      BY <3>1, SubSeqShape
    <3>. QED
      BY <2>5, <3>2
  <2>7. Len(payload') \in Nat /\ m <= Len(payload') /\ Len(payload') = h - 2
    BY <1>2, <1>4, <2>3, <2>6
  <2>8. /\ IsSeq(SubSeq(payload', 1, m)) /\ Len(SubSeq(payload', 1, m)) = m
        /\ \A i \in 1 .. m : SubSeq(payload', 1, m)[i] = payload'[i]
    BY <1>2, FrontShape DEF Front
  <2>9. ASSUME NEW i \in 1 .. m PROVE payload'[i] = request.data[i]
    <3>1. 3 + i - 1 = 2 + i /\ 2 + i \in 1 .. n /\ i \in 1 .. h - 3 + 1
      BY <1>2, <1>4, <2>3
    <3>2. payload'[i] = cells[2 + i]
      BY <2>6, <3>1
    <3>. QED
      BY <1>2, <2>4, <3>1, <3>2
  <2>10. SubSeq(payload', 1, m) = request.data
    <3>. DEFINE front == SubSeq(payload', 1, m)
    <3>1. /\ IsSeq(front) /\ IsSeq(request.data) /\ Len(front) = m /\ m \in Nat
          /\ Len(request.data) = m
      BY <1>2, <2>8 DEF m
    <3>2. \A i \in 1 .. m : front[i] = request.data[i]
      BY <2>8, <2>9
    <3>. HIDE DEF front, m
    <3>3. front = request.data
      BY <3>1, <3>2, SameSeq
    <3>. QED
      BY <3>3 DEF front
  <2>11. packet'.len = m
    BY <1>7, <1>8, <2>2
  <2>. QED
    BY <2>2, <2>4, <2>7, <2>10, <2>11
<1>9. ASSUME pc' = "refused", Honest(request), Room(request), h = n PROVE FALSE
  <2>1. frame.len = n /\ frame.binary /\ frame.len >= HeaderSize
    <3>1. frame = FrameOf(h, request.masked)
      BY <1>1, <1>9
    <3>2. frame.len = n /\ frame.binary = request.binary
      BY <1>9, <3>1 DEF FrameOf
    <3>. QED
      BY <1>3, <1>9, <3>2 DEF HeaderSize, Honest
  <2>2. ReadAs("len", cells[2], Lengths) = {request.len}
    BY <1>6, <2>1 DEF ReadAs
  <2>3. \E len \in ReadAs("len", cells[2], Lengths) : Truncated(len)
    <3>1. \/ ~frame.binary \/ frame.len < HeaderSize
          \/ \E len \in ReadAs("len", cells[2], Lengths) : Truncated(len)
      BY <1>9 DEF ReadFramePayload, cells
    <3>2. frame.len \in Nat /\ HeaderSize \in Nat
      BY <1>3, <2>1 DEF HeaderSize
    <3>. QED
      BY <2>1, <3>1, <3>2
  <2>4. Truncated(request.len)
    BY <2>2, <2>3
  <2>. QED
    BY <1>3, <1>7, <1>9, <2>1, <2>4 DEF Truncated
<1>10. FitPlace'
  BY <1>1, <1>8 DEF FitPlace, Served, Sending
<1>. QED
  BY <1>9, <1>10 DEF n, h

\* No request makes the array for its frame wrap around to nothing.
LEMMA FitArray ==
  ASSUME TypeInv, FitPlace
  PROVE  ~ReadFrameNoArray
<1>. SUFFICES ASSUME ReadFrameNoArray PROVE FALSE
  OBVIOUS
<1>. DEFINE n == PacketSize(request)
<1>1. /\ frame.len + 1 = Width /\ IsHttp(request) /\ StreamInv
      /\ frame.len = 0 \/ frame = FrameOf(HostLength(n), request.masked)
  BY DEF ReadFrameNoArray, NoArray, FitPlace, TypeInv
<1>2. n \in Nat /\ n + 1 < Width
  BY <1>1, HttpFacts
<1>3. HostLength(n) + 1 # Width
  BY <1>2, HostLengths
<1>4. Width > 1
  BY LengthAssumption
<1>. QED
  BY <1>1, <1>3, <1>4 DEF FrameOf

LEMMA FitOthers ==
  ASSUME TypeInv, FitPlace, Client \/ Quiet \/ ReadLine \/ UNCHANGED vars
  PROVE  FitPlace'
<1>1. CASE Client \/ UNCHANGED vars
  <2>1. Here' = Here
    <3>1. ASSUME NEW n \in 1 .. MaxRecord, ClientSends(n) PROVE Here' = Here
      BY <3>1, StreamSends, LengthAssumption DEF TypeInv
    <3>2. CASE ClientCloses \/ UNCHANGED vars
      <4>1. UNCHANGED <<request, wire, cuts, inbox>> /\ peerOpen' \in BOOLEAN
        BY <3>2 DEF ClientCloses, vars, clientVars, TypeInv, StreamInv
      <4>. QED
        BY <4>1, NoRead
    <3>. QED
      BY <1>1, <3>1, <3>2 DEF Client
  <2>2. UNCHANGED <<request, pc, frame, packet, payload>>
    BY <1>1 DEF Client, ClientSends, ClientCloses, vars, clientVars, packetVars
  <2>. QED
    BY <2>1, <2>2, Unmoved DEF FitPlace
<1>2. CASE Quiet
  <2>1. /\ UNCHANGED <<request, wire, cuts, inbox, peerOpen>>
        /\ UNCHANGED <<frame, packet, payload>>
    BY <1>2 DEF Quiet, Handshake, ParseHeaders, FrameNotAllocated, SendFrame, SendLength,
           SendPacket, SendPayload, Handler, HandlerAnswers, HandlerReturns, HandlerExits,
           clientVars, packetVars
  <2>2. Here' = Here
    BY <2>1, NoRead DEF TypeInv, StreamInv
  <2>3. \/ pc \in Served /\ pc' \in Sending \cup {"done", "refused", "crashed"}
        \/ pc' \in {"header", "tail", "refused", "crashed"}
    BY <1>2 DEF Quiet, Handshake, ParseHeaders, FrameNotAllocated, SendFrame, SendLength,
           SendPacket, SendPayload, Handler, HandlerAnswers, HandlerReturns, HandlerExits,
           Write, Served, Sending
  <2>4. pc' \in Served => pc \in Served /\ pc' # "handler"
    BY <2>3 DEF Served, Sending
  <2>5. pc' \notin {"payload", "frame", "length", "mask", "framePayload", "handler"}
    BY <2>3 DEF Sending
  <2>6. Honest(request) /\ pc' \in Served => Here' = Total(request')
    BY <2>1, <2>2, <2>4 DEF FitPlace
  <2>7. request' = request
    BY <2>1
  <2>. QED
    BY <2>5, <2>6, <2>7 DEF FitPlace
<1>3. CASE ReadLine
  <2>1. pc' \in {"lines", "parse", "crashed"}
    BY <1>3 DEF ReadLine
  <2>. QED
    BY <2>1 DEF FitPlace, Served, Sending
<1>. QED
  BY <1>1, <1>2, <1>3

LEMMA FitInit == Init => FitInv
BY DEF Init, FitInv, FitPlace, Served, Sending

LEMMA FitStep == TypeInv /\ FitInv /\ [Next]_vars => FitInv'
<1>. SUFFICES ASSUME TypeInv, FitInv, [Next]_vars, Fits' PROVE FitPlace'
  BY DEF FitInv
<1>1. Fits /\ FitPlace
  BY FitsBefore DEF FitInv
<1>2. \/ Client \/ Quiet \/ ReadLine \/ UNCHANGED vars
      \/ ReadHeader \/ ReadPayload \/ ReadTail \/ ReadFrameHeader \/ ReadFrameLength
      \/ ReadMask \/ ReadFramePayload \/ ReadFrameNoArray
  BY DEF Next, Connection, Quiet
<1>3. CASE Client \/ Quiet \/ ReadLine \/ UNCHANGED vars
  BY <1>1, <1>3, FitOthers
<1>4. CASE ReadHeader \/ ReadPayload \/ ReadTail
  BY <1>1, <1>4, FitReadHeader, FitReadPayload, FitReadTail
<1>5. CASE ReadFrameHeader \/ ReadFrameLength \/ ReadMask \/ ReadFramePayload
  BY <1>1, <1>5, FitReadFrameHeader, FitReadFrameLength, FitReadMask, FitReadFramePayload
<1>6. ~ReadFrameNoArray
  BY <1>1, FitArray
<1>. QED
  BY <1>2, <1>3, <1>4, <1>5, <1>6

\* Only the handshake and the receiver turn away a client whose request can be
\* served, as long as it fits.
LEMMA NotRefused ==
  ASSUME TypeInv, Fits, FitPlace, Servable(request), Legible(request), [Next]_vars,
         pc # "refused", pc' = "refused"
  PROVE  Handshake \/ Handler
<1>1. \/ Handshake \/ Handler \/ ReadHeader \/ ParseHeaders \/ ReadFramePayload
      \/ ReadFrameNoArray
  BY DEF Next, vars, Client, ClientSends, ClientCloses, Connection, ReadPayload, ReadLine,
         ReadTail, ReadFrameHeader, ReadFrameLength, ReadMask, FrameNotAllocated, SendFrame,
         SendLength, SendPacket, SendPayload, Write
<1>2. Honest(request) /\ request.len <= MAX_PACKET_PAYLOAD_SIZE
      /\ (IsHttp(request) => Unmistakable(request.lines) /\ Room(request))
  BY DEF Servable, Room
<1>3. CASE ReadHeader
  <2>1. request.len > MAX_PACKET_PAYLOAD_SIZE
    BY <1>3, FitReadHeader
  <2>2. request.len \in Nat /\ MAX_PACKET_PAYLOAD_SIZE \in Nat
    BY RequestFacts, LengthAssumption DEF TypeInv, StreamInv
  <2>. QED
    BY <1>2, <2>1, <2>2
<1>4. CASE ParseHeaders
  <2>1. pc = "parse" /\ ~HeadersAccepted
    BY <1>4 DEF ParseHeaders, Write
  <2>2. IsHttp(request)
    BY <2>1 DEF TypeInv, PlaceInv
  <2>. QED
    BY <1>2, <2>1, <2>2, LinesJudged
<1>5. CASE ReadFramePayload
  <2>1. IsHttp(request)
    BY <1>5 DEF ReadFramePayload, FitPlace
  <2>2. HostLength(PacketSize(request)) = PacketSize(request)
    BY <2>1 DEF Legible, PacketSize
  <2>. QED
    BY <1>2, <1>5, <2>1, <2>2, FitReadFramePayload
<1>. QED
  BY <1>1, <1>3, <1>4, <1>5, FitArray

\* When everything has been sent, Fits is ReadsMatchRecords.
LEMMA MatchFits ==
  ASSUME wire = <<>>, ReadsMatchRecords
  PROVE  Fits
BY DEF ReadsMatchRecords, Fits, Total

\* The receiver gets the command and the length that the client sent, and at the
\* front of its payload the client's: from a bare packet, or from a frame of any
\* length, masked or not, in whatever order the host reads that length, when no
\* record ends within what the child reads at once (secnet.cpp:46,62,239,250-302).
THEOREM DeliveryCorrect == Spec => []FaithfulDelivery
<1>1. TypeInv /\ FitInv => FaithfulDelivery
  <2>. SUFFICES ASSUME FitInv, pc = "handler", Honest(request), wire = <<>>, ReadsMatchRecords
                PROVE  /\ packet = [cmd |-> request.cmd, len |-> request.len]
                       /\ packet.len <= Len(payload)
                       /\ SubSeq(payload, 1, packet.len) = request.data
    BY DEF FaithfulDelivery
  <2>1. FitPlace
    BY MatchFits DEF FitInv
  <2>. QED
    BY <2>1 DEF FitPlace
<1>. QED
  BY TypeInit, TypeStep, FitInit, FitStep, <1>1, PTL DEF Spec

\* A child that has answered such a client leaves nothing of what it sent unread,
\* so the exit that follows does not reset the connection (secnet.cpp:442-443,67-74).
THEOREM AnswerNotResetCorrect == Spec => []AnswerNotReset
<1>1. TypeInv /\ FitInv => AnswerNotReset
  <2>. SUFFICES ASSUME TypeInv, FitInv, pc = "done", Servable(request), wire = <<>>,
                       ReadsMatchRecords
                PROVE  inbox = <<>>
    BY DEF AnswerNotReset
  <2>1. FitPlace /\ Honest(request)
    BY MatchFits DEF FitInv, Servable
  <2>2. Here = Total(request)
    BY <2>1 DEF FitPlace, Served
  <2>. QED
    BY <2>2, HereFacts DEF TypeInv
<1>. QED
  BY TypeInit, TypeStep, FitInit, FitStep, <1>1, PTL DEF Spec

=============================================================================
