----------------------- MODULE FileBackingStore_proofs -----------------------
(***************************************************************************)
(* Proofs about the backing store: it keeps the promise of IBackingStore,  *)
(* and forgets only the newest records once that has ended, for any keys,  *)
(* values, sizes and limits, and any number of calls, failing operations   *)
(* and restarts.                                                           *)
(***************************************************************************)
EXTENDS FileBackingStore, TLAPS, WellFoundedInduction

-----------------------------------------------------------------------------
(* Numbers: least and greatest elements.                                   *)

\* A set of numbers that is not empty has a least one.
LEMMA LeastNumber ==
    ASSUME NEW S, S \subseteq Nat, S # {}
    PROVE  \E x \in S : \A y \in S : x <= y
<1>1. PICK x \in S : \A y \in S : ~(<<y, x>> \in OpToRel(<, Nat))
  BY NatLessThanWellFounded, WFMin
<1>2. ASSUME NEW y \in S PROVE x <= y
  <2>1. x \in Nat /\ y \in Nat
    OBVIOUS
  <2>2. y < x => <<y, x>> \in OpToRel(<, Nat)
    BY <2>1 DEF OpToRel
  <2>3. ~(y < x)
    BY <1>1, <2>2
  <2> QED BY <2>1, <2>3
<1> QED
  BY <1>2

\* A set of numbers below a bound has a greatest one, which is its Max.
LEMMA MaxFacts ==
    ASSUME NEW S, S \subseteq Nat, S # {}, NEW n \in Nat, \A y \in S : y <= n
    PROVE  Max(S) \in S /\ \A y \in S : y <= Max(S)
<1> DEFINE B == {u \in Nat : \A y \in S : y <= u}
<1>1. PICK u \in B : \A v \in B : u <= v
  <2>1. n \in B
    OBVIOUS
  <2> QED BY <2>1, LeastNumber
<1>2. u \in Nat /\ \A y \in S : y <= u
  OBVIOUS
<1>3. u \in S
  <2> SUFFICES ASSUME u \notin S PROVE FALSE
    OBVIOUS
  <2>1. \A y \in S : y <= u - 1
    BY <1>2
  <2>2. u - 1 \in Nat
    <3>1. PICK y \in S : TRUE
      OBVIOUS
    <3>2. y \in Nat /\ y <= u - 1
      BY <2>1
    <3> QED BY <1>2, <3>2
  <2>3. u - 1 \in B
    BY <2>1, <2>2
  <2>4. u <= u - 1
    BY <1>1, <2>3
  <2> QED BY <1>2, <2>4
<1>4. \E x \in S : \A y \in S : x >= y
  BY <1>2, <1>3
<1>5. Max(S) \in S /\ \A y \in S : Max(S) >= y
  BY <1>4 DEF Max
<1> QED
  BY <1>5

\* The first numbers of a sequence of them have a bound.
LEMMA SequenceBound ==
    ASSUME NEW n \in Nat, NEW F, \A i \in 1..n : F[i] \in Nat
    PROVE  \E u \in Nat : \A i \in 1..n : F[i] <= u
<1> DEFINE Bad == {m \in 0..n : ~\E u \in Nat : \A i \in 1..m : F[i] <= u}
<1> SUFFICES ASSUME Bad # {} PROVE FALSE
  <2>1. n \in 0..n
    OBVIOUS
  <2> QED BY <2>1
<1>1. PICK m \in Bad : \A y \in Bad : m <= y
  <2>1. Bad \subseteq Nat
    OBVIOUS
  <2> QED BY <2>1, LeastNumber
<1>2. m \in 0..n /\ ~\E u \in Nat : \A i \in 1..m : F[i] <= u
  OBVIOUS
<1>3. m # 0
  <2>1. \A i \in 1..0 : F[i] <= 0
    OBVIOUS
  <2> QED BY <1>2, <2>1
<1>4. m - 1 \in 0..n /\ m - 1 \notin Bad
  <2>1. m - 1 \in 0..n
    BY <1>2, <1>3
  <2>2. ~(m <= m - 1)
    BY <1>2
  <2> QED BY <1>1, <2>1, <2>2
<1>5. PICK u \in Nat : \A i \in 1..(m - 1) : F[i] <= u
  BY <1>4
<1>6. F[m] \in Nat
  BY <1>2, <1>3
<1>7. PICK w \in Nat : u <= w /\ F[m] <= w
  <2>1. u + F[m] \in Nat /\ u <= u + F[m] /\ F[m] <= u + F[m]
    BY <1>6
  <2> QED BY <2>1
<1>8. \A i \in 1..m : F[i] <= w
  <2> SUFFICES ASSUME NEW i \in 1..m PROVE F[i] <= w
    OBVIOUS
  <2>1. CASE i = m
    BY <1>7, <2>1
  <2>2. CASE i # m
    <3>1. i \in 1..(m - 1) /\ i \in 1..n
      BY <1>2, <2>2
    <3>2. F[i] <= u /\ F[i] \in Nat
      BY <1>5, <3>1
    <3> QED BY <1>7, <3>2
  <2> QED BY <2>1, <2>2
<1> QED
  BY <1>2, <1>8


-----------------------------------------------------------------------------
(* Frames in a file, and chains of them.                                   *)

Frame == [seq : Nat, key : Keys \cup {Absent}, val : Values \cup {Absent}]
Cell == [frame : Frame, at : Nat]
File == Seq(Cell)
Entry == [offset : Nat, frame : Frame]

EndOfEntry(e) == e.offset + FrameLength(e.frame)
Small(e) == ValueLength(e.frame.val) <= MaxReasonableLength

\* Cell j of the frame of entry e is where it belongs in the file g.
Holds(g, e, j) == e.offset + j <= Len(g) /\ g[e.offset + j] = [frame |-> e.frame, at |-> j]

\* All cells of e are in place in f, or each of them in one of the files in F.
Placed(f, e) == \A j \in 1..FrameLength(e.frame) : Holds(f, e, j)
InPlace(F, e) == \A j \in 1..FrameLength(e.frame) : \E g \in F : Holds(g, e, j)

\* Frames one after the other from the beginning of the file, and where the first n end.
EndAt(c, n) == IF n = 0 THEN 0 ELSE EndOfEntry(c[n])
Chained(c) == c \in Seq(Entry) /\ \A i \in 1..Len(c) : c[i].offset = EndAt(c, i - 1)

ChainIn(f, c) == Chained(c) /\ \A i \in 1..Len(c) : Placed(f, c[i])
ChainOf(F, c) == Chained(c) /\ \A i \in 1..Len(c) : InPlace(F, c[i])
AllSmall(c) == \A i \in 1..Len(c) : Small(c[i])

\* What is stored by a chain: for each key the value of its last frame.
Places(k, c) == {i \in DOMAIN c : c[i].frame.key = k}
Contents(c) ==
    [k \in Keys |-> IF Places(k, c) = {} THEN Absent ELSE c[Max(Places(k, c))].frame.val]

\* A frame has at least its header.
LEMMA FrameFacts ==
    ASSUME NEW frame \in Frame
    PROVE  /\ ValueLength(frame.val) \in Nat /\ FrameLength(frame) \in Nat
           /\ FrameLength(frame) = 1 + ValueLength(frame.val) /\ FrameLength(frame) >= 1
           /\ 1 \in 1..FrameLength(frame)
<1>1. frame.val \in Values \cup {Absent}
  BY DEF Frame
<1>2. ValueLength(frame.val) \in Nat
  BY <1>1, StoreAssumption DEF ValueLength
<1>3. FrameLength(frame) = 1 + ValueLength(frame.val)
  BY DEF FrameLength
<1> QED
  BY <1>2, <1>3

\* The parts of an entry.
LEMMA EntryFacts ==
    ASSUME NEW e \in Entry
    PROVE  /\ e.offset \in Nat /\ e.frame \in Frame /\ e = [offset |-> e.offset, frame |-> e.frame]
           /\ FrameLength(e.frame) \in Nat /\ FrameLength(e.frame) >= 1
           /\ EndOfEntry(e) \in Nat /\ EndOfEntry(e) > e.offset
<1>1. e.offset \in Nat /\ e.frame \in Frame /\ e = [offset |-> e.offset, frame |-> e.frame]
  BY DEF Entry
<1>2. FrameLength(e.frame) \in Nat /\ FrameLength(e.frame) >= 1
  BY <1>1, FrameFacts
<1> QED
  BY <1>1, <1>2 DEF EndOfEntry

\* The parts of a cell.
LEMMA CellFacts ==
    ASSUME NEW f \in File
    PROVE  /\ Len(f) \in Nat /\ DOMAIN f = 1..Len(f)
           /\ \A i \in 1..Len(f) : f[i] \in Cell /\ f[i].frame \in Frame /\ f[i].at \in Nat
<1>1. Len(f) \in Nat /\ DOMAIN f = 1..Len(f) /\ \A i \in 1..Len(f) : f[i] \in Cell
  BY DEF File
<1> QED
  BY <1>1 DEF Cell

\* The cells of a frame, one by one.
LEMMA CellsFacts ==
    ASSUME NEW frame \in Frame
    PROVE  /\ Cells(frame) \in File /\ Len(Cells(frame)) = FrameLength(frame)
           /\ \A j \in 1..FrameLength(frame) : Cells(frame)[j] = [frame |-> frame, at |-> j]
<1>1. FrameLength(frame) \in Nat
  BY FrameFacts
<1>2. \A j \in 1..FrameLength(frame) : [frame |-> frame, at |-> j] \in Cell
  BY <1>1 DEF Cell
<1>3. Cells(frame) = [i \in 1..FrameLength(frame) |-> [frame |-> frame, at |-> i]]
  BY DEF Cells
<1>4. PICK n \in Nat : n = FrameLength(frame)
  BY <1>1
<1> QED
  BY <1>2, <1>3, <1>4 DEF File

\* IntactAt compares the cells one by one.
LEMMA IntactIsPlaced ==
    ASSUME NEW f \in File, NEW o \in Nat, o < Len(f)
    PROVE  /\ [offset |-> o, frame |-> f[o + 1].frame] \in Entry
           /\ IntactAt(f, o) <=> Placed(f, [offset |-> o, frame |-> f[o + 1].frame])
<1>1. Len(f) \in Nat /\ o + 1 \in 1..Len(f)
  BY CellFacts
<1>2. f[o + 1].frame \in Frame
  BY <1>1, CellFacts
<1>3. PICK frame \in Frame : frame = f[o + 1].frame
  BY <1>2
<1>4. PICK n \in Nat : n = FrameLength(frame) /\ n >= 1
  BY FrameFacts
<1>5. IntactAt(f, o) <=> o + n <= Len(f) /\ SubSeq(f, o + 1, o + n) = Cells(frame)
  BY <1>3, <1>4 DEF IntactAt
<1>6. /\ Cells(frame) \in File /\ Len(Cells(frame)) = n
      /\ \A j \in 1..n : Cells(frame)[j] = [frame |-> frame, at |-> j]
  BY <1>4, CellsFacts
<1>7. ASSUME o + n <= Len(f)
      PROVE  /\ SubSeq(f, o + 1, o + n) \in File /\ Len(SubSeq(f, o + 1, o + n)) = n
             /\ \A j \in 1..n : SubSeq(f, o + 1, o + n)[j] = f[o + j]
  <2>1. SubSeq(f, o + 1, o + n) = [j \in 1..n |-> f[o + j]]
    BY <1>1, <1>4, <1>7 DEF File
  <2>2. \A j \in 1..n : o + j \in 1..Len(f)
    BY <1>1, <1>4, <1>7
  <2>3. \A j \in 1..n : f[o + j] \in Cell
    BY <2>2, CellFacts
  <2> DEFINE s == [j \in 1..n |-> f[o + j]]
  <2>4. s \in File
    BY <1>4, <2>3 DEF File
  <2>5. Len(s) = n
    BY <1>4
  <2> QED BY <2>1, <2>4, <2>5
<1>8. Placed(f, [offset |-> o, frame |-> frame])
        <=> \A j \in 1..n : o + j <= Len(f) /\ f[o + j] = [frame |-> frame, at |-> j]
  BY <1>4 DEF Placed, Holds
<1>9. ASSUME o + n <= Len(f), SubSeq(f, o + 1, o + n) = Cells(frame)
      PROVE  Placed(f, [offset |-> o, frame |-> frame])
  <2>1. \A j \in 1..n : o + j <= Len(f)
    BY <1>1, <1>4, <1>9
  <2> QED BY <1>6, <1>7, <1>8, <1>9, <2>1
<1>10. ASSUME Placed(f, [offset |-> o, frame |-> frame])
       PROVE  o + n <= Len(f) /\ SubSeq(f, o + 1, o + n) = Cells(frame)
  <2>1. n \in 1..n
    BY <1>4
  <2>2. o + n <= Len(f)
    BY <1>8, <1>10, <2>1
  <2>3. PICK s \in File : s = SubSeq(f, o + 1, o + n)
    BY <1>7, <2>2
  <2>4. Len(s) = n /\ \A j \in 1..n : s[j] = Cells(frame)[j]
    BY ZenonT(30), <1>6, <1>7, <1>8, <1>10, <2>2, <2>3
  <2>5. s = Cells(frame)
    BY <1>6, <2>4 DEF File
  <2> QED BY <2>2, <2>3, <2>5
<1> QED
  BY <1>2, <1>3, <1>5, <1>9, <1>10 DEF Entry

\* Where a frame is in place, its header names it, and reading it finds it intact.
LEMMA PlacedFacts ==
    ASSUME NEW f \in File, NEW e \in Entry, Placed(f, e)
    PROVE  /\ EndOfEntry(e) <= Len(f) /\ e.offset < Len(f) /\ f[e.offset + 1].frame = e.frame
           /\ f[e.offset + 1].at = 1
           /\ IntactAt(f, e.offset)
<1>1. /\ e.offset \in Nat /\ e.frame \in Frame /\ e = [offset |-> e.offset, frame |-> e.frame]
      /\ FrameLength(e.frame) \in Nat /\ FrameLength(e.frame) >= 1
  BY EntryFacts
<1>2. 1 \in 1..FrameLength(e.frame) /\ FrameLength(e.frame) \in 1..FrameLength(e.frame)
  BY <1>1
<1>3. EndOfEntry(e) <= Len(f)
  BY <1>2 DEF Placed, Holds, EndOfEntry
<1>4. f[e.offset + 1] = [frame |-> e.frame, at |-> 1]
  BY <1>2 DEF Placed, Holds
<1>5. e.offset < Len(f)
  BY <1>1, <1>3, CellFacts DEF EndOfEntry
<1>6. IntactAt(f, e.offset)
  BY <1>1, <1>4, <1>5, IntactIsPlaced
<1> QED
  BY <1>3, <1>4, <1>5, <1>6

\* The entries of a chain, and where it ends.
LEMMA ChainFacts ==
    ASSUME NEW c, Chained(c)
    PROVE  /\ Len(c) \in Nat /\ DOMAIN c = 1..Len(c) /\ c \in Seq(Entry)
           /\ \A i \in 1..Len(c) : c[i] \in Entry /\ c[i].offset = EndAt(c, i - 1)
           /\ \A n \in 0..Len(c) : EndAt(c, n) \in Nat
           /\ EndOf(c) = EndAt(c, Len(c)) /\ EndOf(c) \in Nat
<1>1. /\ Len(c) \in Nat /\ DOMAIN c = 1..Len(c) /\ c \in Seq(Entry)
      /\ \A i \in 1..Len(c) : c[i] \in Entry /\ c[i].offset = EndAt(c, i - 1)
  BY DEF Chained
<1>2. ASSUME NEW n \in 0..Len(c) PROVE EndAt(c, n) \in Nat
  <2>1. n # 0 => n \in 1..Len(c)
    BY <1>1
  <2> QED BY <1>1, <2>1, EntryFacts DEF EndAt
<1>3. EndOf(c) = EndAt(c, Len(c))
  <2>1. c = <<>> <=> Len(c) = 0
    BY <1>1
  <2> QED BY <2>1 DEF EndOf, EndAt, EndOfEntry
<1>4. Len(c) \in 0..Len(c)
  BY <1>1
<1> QED
  BY <1>1, <1>2, <1>3, <1>4

\* Every frame moves the end of a chain on.
LEMMA EndGrows ==
    ASSUME NEW c, Chained(c), NEW m \in 0..Len(c), NEW n \in 0..Len(c), m < n
    PROVE  EndAt(c, m) < EndAt(c, n)
<1>1. Len(c) \in Nat
  BY ChainFacts
<1> DEFINE Bad == {x \in 0..Len(c) : m < x /\ ~(EndAt(c, m) < EndAt(c, x))}
<1> SUFFICES ASSUME Bad # {} PROVE FALSE
  OBVIOUS
<1>2. PICK x \in Bad : \A y \in Bad : x <= y
  <2>1. Bad \subseteq Nat
    BY <1>1
  <2> QED BY <2>1, LeastNumber
<1>3. x \in 0..Len(c) /\ m < x /\ ~(EndAt(c, m) < EndAt(c, x))
  OBVIOUS
<1>4. x \in 1..Len(c) /\ x - 1 \in 0..Len(c) /\ x # 0
  BY <1>1, <1>3
<1>5. c[x] \in Entry /\ c[x].offset = EndAt(c, x - 1)
  BY <1>4, ChainFacts
<1>6. EndAt(c, x) = EndOfEntry(c[x])
  BY <1>4 DEF EndAt
<1>7. EndAt(c, x - 1) < EndAt(c, x)
  BY <1>5, <1>6, EntryFacts
<1>8. EndAt(c, m) \in Nat /\ EndAt(c, x) \in Nat /\ EndAt(c, x - 1) \in Nat
  BY <1>3, <1>4, ChainFacts
<1>9. CASE m = x - 1
  BY <1>3, <1>7, <1>9
<1>10. CASE m # x - 1
  <2>1. m < x - 1 /\ ~(x <= x - 1)
    BY <1>1, <1>3, <1>10
  <2>2. x - 1 \notin Bad
    BY <1>2, <2>1
  <2>3. EndAt(c, m) < EndAt(c, x - 1)
    BY <1>4, <2>1, <2>2
  <2> QED BY <1>3, <1>7, <1>8, <2>3
<1> QED
  BY <1>9, <1>10

\* The frames after the first n begin where these end, or later.
LEMMA LaterBeginLater ==
    ASSUME NEW c, Chained(c), NEW n \in 0..Len(c), NEW i \in 1..Len(c), n < i
    PROVE  EndAt(c, n) <= c[i].offset /\ EndOfEntry(c[i]) <= EndOf(c)
<1>1. Len(c) \in Nat /\ i - 1 \in 0..Len(c) /\ i \in 0..Len(c) /\ i # 0 /\ Len(c) \in 0..Len(c)
  BY ChainFacts
<1>2. c[i].offset = EndAt(c, i - 1) /\ EndOf(c) = EndAt(c, Len(c)) /\ EndOfEntry(c[i]) = EndAt(c, i)
  BY <1>1, ChainFacts DEF EndAt
<1>3. /\ EndAt(c, n) \in Nat /\ EndAt(c, i) \in Nat /\ EndAt(c, i - 1) \in Nat
      /\ EndAt(c, Len(c)) \in Nat
  BY <1>1, ChainFacts
<1>4. n = i - 1 \/ n < i - 1
  BY <1>1
<1>5. i = Len(c) \/ i < Len(c)
  BY <1>1
<1>6. EndAt(c, n) <= EndAt(c, i - 1)
  <2>1. CASE n = i - 1
    BY <1>3, <2>1
  <2>2. CASE n < i - 1
    <3>1. EndAt(c, n) < EndAt(c, i - 1)
      BY <1>1, <2>2, EndGrows
    <3> QED BY <1>3, <3>1
  <2> QED BY <1>4, <2>1, <2>2
<1>7. EndAt(c, i) <= EndAt(c, Len(c))
  <2>1. CASE i = Len(c)
    BY <1>3, <2>1
  <2>2. CASE i < Len(c)
    <3>1. EndAt(c, i) < EndAt(c, Len(c))
      BY <1>1, <2>2, EndGrows
    <3> QED BY <1>3, <3>1
  <2> QED BY <1>5, <2>1, <2>2
<1> QED
  BY <1>2, <1>6, <1>7

\* The first frames of a chain are a chain.
LEMMA PrefixChain ==
    ASSUME NEW c, Chained(c), NEW n \in 0..Len(c)
    PROVE  /\ Chained(SubSeq(c, 1, n)) /\ Len(SubSeq(c, 1, n)) = n
           /\ \A i \in 1..n : SubSeq(c, 1, n)[i] = c[i]
           /\ EndOf(SubSeq(c, 1, n)) = EndAt(c, n)
<1>1. Len(c) \in Nat /\ c \in Seq(Entry)
  BY ChainFacts
<1> DEFINE p == SubSeq(c, 1, n)
<1>2. p \in Seq(Entry) /\ Len(p) = n /\ \A i \in 1..n : p[i] = c[i]
  BY <1>1
<1> HIDE DEF p
<1>3. ASSUME NEW m \in 0..n PROVE EndAt(p, m) = EndAt(c, m)
  <2>1. m # 0 => m \in 1..n
    BY <1>1
  <2> QED BY <1>2, <2>1 DEF EndAt
<1>4. Chained(p)
  <2>1. ASSUME NEW i \in 1..Len(p) PROVE p[i].offset = EndAt(p, i - 1)
    <3>1. i \in 1..n /\ i \in 1..Len(c) /\ i - 1 \in 0..n
      BY <1>1, <1>2
    <3>2. p[i] = c[i] /\ c[i].offset = EndAt(c, i - 1)
      BY <1>2, <3>1, ChainFacts
    <3> QED BY <1>3, <3>1, <3>2
  <2> QED BY <1>2, <2>1 DEF Chained
<1>5. EndOf(p) = EndAt(c, n)
  <2>1. EndOf(p) = EndAt(p, n) /\ n \in 0..n
    BY <1>1, <1>2, <1>4, ChainFacts
  <2> QED BY <1>3, <2>1
<1> QED
  BY <1>2, <1>4, <1>5 DEF p

\* A chain with a frame at its end.
LEMMA AppendChain ==
    ASSUME NEW c, Chained(c), NEW e \in Entry, e.offset = EndOf(c)
    PROVE  /\ Chained(Append(c, e)) /\ Len(Append(c, e)) = Len(c) + 1
           /\ \A i \in 1..Len(c) : Append(c, e)[i] = c[i]
           /\ Append(c, e)[Len(c) + 1] = e /\ EndOf(Append(c, e)) = EndOfEntry(e)
<1>1. Len(c) \in Nat /\ c \in Seq(Entry) /\ EndOf(c) = EndAt(c, Len(c))
  BY ChainFacts
<1> DEFINE p == Append(c, e)
<1>2. /\ p \in Seq(Entry) /\ Len(p) = Len(c) + 1 /\ \A i \in 1..Len(c) : p[i] = c[i]
      /\ p[Len(c) + 1] = e
  BY <1>1
<1> HIDE DEF p
<1>3. ASSUME NEW m \in 0..Len(c) PROVE EndAt(p, m) = EndAt(c, m)
  <2>1. m # 0 => m \in 1..Len(c)
    BY <1>1
  <2> QED BY <1>2, <2>1 DEF EndAt
<1>4. Chained(p)
  <2>1. ASSUME NEW i \in 1..Len(p) PROVE p[i].offset = EndAt(p, i - 1)
    <3>1. i - 1 \in 0..Len(c) /\ (i \in 1..Len(c) \/ i = Len(c) + 1)
      BY <1>1, <1>2
    <3>2. CASE i \in 1..Len(c)
      BY <1>2, <1>3, <3>1, <3>2, ChainFacts
    <3>3. CASE i = Len(c) + 1
      <4>1. i - 1 = Len(c)
        BY <1>1, <3>3
      <4> QED BY <1>1, <1>2, <1>3, <3>1, <3>3, <4>1
    <3> QED BY <3>1, <3>2, <3>3
  <2> QED BY <1>2, <2>1 DEF Chained
<1>5. EndOf(p) = EndAt(p, Len(c) + 1)
  BY <1>2, <1>4, ChainFacts
<1>6. EndAt(p, Len(c) + 1) = EndOfEntry(e)
  BY <1>1, <1>2 DEF EndAt
<1> QED
  BY <1>2, <1>4, <1>5, <1>6 DEF p

\* Two chains agree on the frames that both have, if those of b are in place in all the
\* files and those of d each in some.
LEMMA ChainsAgree ==
    ASSUME NEW F, F \subseteq File, NEW b, \A g \in F : ChainIn(g, b), NEW d, ChainOf(F, d),
           Chained(b), NEW n \in 1..Len(b), n <= Len(d)
    PROVE  b[n] = d[n]
<1>1. Len(b) \in Nat /\ Len(d) \in Nat /\ Chained(d)
  BY ChainFacts DEF ChainOf
<1> DEFINE Bad == {x \in 1..Len(b) : x <= Len(d) /\ b[x] # d[x]}
<1> SUFFICES ASSUME Bad # {} PROVE FALSE
  OBVIOUS
<1>2. PICK x \in Bad : \A y \in Bad : x <= y
  <2>1. Bad \subseteq Nat
    BY <1>1
  <2> QED BY <2>1, LeastNumber
<1>3. x \in 1..Len(b) /\ x \in 1..Len(d) /\ b[x] # d[x]
  BY <1>1
<1>4. b[x] \in Entry /\ d[x] \in Entry
  BY <1>1, <1>3, ChainFacts
<1>5. b[x].offset = EndAt(b, x - 1) /\ d[x].offset = EndAt(d, x - 1)
  BY <1>1, <1>3, ChainFacts
<1>6. EndAt(b, x - 1) = EndAt(d, x - 1)
  <2>1. CASE x = 1
    BY <2>1 DEF EndAt
  <2>2. CASE x # 1
    <3>1. x - 1 \in 1..Len(b) /\ x - 1 <= Len(d) /\ ~(x <= x - 1)
      BY <1>1, <1>3, <2>2
    <3>2. x - 1 \notin Bad
      BY <1>2, <3>1
    <3>3. b[x - 1] = d[x - 1]
      BY <3>1, <3>2
    <3> QED BY <3>3 DEF EndAt
  <2> QED BY <2>1, <2>2
<1>7. 1 \in 1..FrameLength(d[x].frame)
  BY <1>4, EntryFacts, FrameFacts
<1>8. PICK g \in F : Holds(g, d[x], 1)
  BY <1>3, <1>7 DEF ChainOf, InPlace
<1>9. g[b[x].offset + 1].frame = b[x].frame
  BY <1>3, <1>4, PlacedFacts DEF ChainIn
<1>10. g[d[x].offset + 1].frame = d[x].frame
  BY <1>8 DEF Holds
<1>11. b[x].offset = d[x].offset /\ b[x].frame = d[x].frame
  BY <1>5, <1>6, <1>9, <1>10
<1> QED
  BY <1>3, <1>4, <1>11, EntryFacts

\* Of two such chains the one that ends later goes on where the other ends, and they are
\* the same if they end at the same place.
LEMMA LongerChain ==
    ASSUME NEW F, F \subseteq File, NEW b, \A g \in F : ChainIn(g, b), NEW d, ChainOf(F, d),
           Chained(b)
    PROVE  /\ EndOf(b) = EndOf(d) => b = d
           /\ EndOf(b) < EndOf(d) =>
                 Len(b) + 1 \in 1..Len(d) /\ d[Len(b) + 1].offset = EndOf(b)
<1>1. /\ Len(b) \in Nat /\ Len(d) \in Nat /\ Chained(d) /\ EndOf(b) \in Nat /\ EndOf(d) \in Nat
      /\ b \in Seq(Entry) /\ d \in Seq(Entry)
      /\ EndOf(b) = EndAt(b, Len(b)) /\ EndOf(d) = EndAt(d, Len(d))
  BY ChainFacts DEF ChainOf
<1>2. ASSUME NEW n \in 0..Len(b), n <= Len(d) PROVE EndAt(b, n) = EndAt(d, n)
  <2>1. n # 0 => n \in 1..Len(b)
    BY <1>1
  <2>2. n # 0 => b[n] = d[n]
    BY <1>2, <2>1, ChainsAgree
  <2> QED BY <2>2 DEF EndAt
<1>3. CASE Len(b) = Len(d)
  <2>1. EndOf(b) = EndOf(d)
    BY <1>1, <1>2, <1>3
  <2>2. \A n \in 1..Len(b) : b[n] = d[n]
    BY <1>1, <1>3, ChainsAgree
  <2>3. b = d
    BY <1>1, <1>3, <2>2
  <2> QED BY <1>1, <2>1, <2>3
<1>4. CASE Len(b) < Len(d)
  <2>1. Len(b) \in 0..Len(b) /\ Len(b) \in 0..Len(d) /\ Len(d) \in 0..Len(d)
    BY <1>1, <1>4
  <2>2. EndAt(b, Len(b)) = EndAt(d, Len(b))
    BY <1>1, <1>2, <1>4, <2>1
  <2>3. EndAt(d, Len(b)) < EndAt(d, Len(d))
    BY <1>1, <1>4, <2>1, EndGrows
  <2>4. Len(b) + 1 \in 1..Len(d) /\ (Len(b) + 1) - 1 = Len(b)
    BY <1>1, <1>4
  <2>5. d[Len(b) + 1].offset = EndAt(d, Len(b))
    BY <1>1, <2>4, ChainFacts
  <2> QED BY <1>1, <2>2, <2>3, <2>4, <2>5
<1>5. CASE Len(b) > Len(d)
  <2>1. Len(d) \in 0..Len(b) /\ Len(b) \in 0..Len(b) /\ Len(d) <= Len(d)
    BY <1>1, <1>5
  <2>2. EndAt(b, Len(d)) = EndAt(d, Len(d))
    BY <1>2, <2>1
  <2>3. EndAt(b, Len(d)) < EndAt(b, Len(b))
    BY <1>1, <1>5, <2>1, EndGrows
  <2> QED BY <1>1, <2>2, <2>3
<1> QED
  BY <1>1, <1>3, <1>4, <1>5

-----------------------------------------------------------------------------
(* What a chain stores, and what a caller sees of it.                      *)

\* The frames of a key in a chain, and the last of them.
LEMMA PlacesFacts ==
    ASSUME NEW c, Chained(c), NEW k
    PROVE  /\ Places(k, c) = {i \in 1..Len(c) : c[i].frame.key = k}
           /\ Places(k, c) # {} => /\ Max(Places(k, c)) \in Places(k, c)
                                   /\ \A i \in Places(k, c) : i <= Max(Places(k, c))
<1>1. Len(c) \in Nat /\ DOMAIN c = 1..Len(c)
  BY ChainFacts
<1>2. Places(k, c) = {i \in 1..Len(c) : c[i].frame.key = k}
  BY <1>1 DEF Places
<1>3. Places(k, c) \subseteq Nat /\ \A y \in Places(k, c) : y <= Len(c)
  BY <1>1, <1>2
<1> QED
  BY <1>1, <1>2, <1>3, MaxFacts

\* A chain stores values.
LEMMA ContentsType ==
    ASSUME NEW c, Chained(c)
    PROVE  Contents(c) \in [Keys -> Values \cup {Absent}]
<1> SUFFICES ASSUME NEW k \in Keys, Places(k, c) # {}
             PROVE  c[Max(Places(k, c))].frame.val \in Values \cup {Absent}
  BY DEF Contents
<1>1. Max(Places(k, c)) \in 1..Len(c)
  BY PlacesFacts
<1>2. c[Max(Places(k, c))].frame \in Frame
  BY <1>1, ChainFacts, EntryFacts
<1> QED
  BY <1>2 DEF Frame

\* An empty chain stores nothing.
LEMMA EmptyChain ==
    /\ Chained(<<>>) /\ EndOf(<<>>) = 0 /\ Len(<<>>) = 0
    /\ Contents(<<>>) = Nothing /\ IndexOf(<<>>) = EmptyIndex
<1>1. <<>> \in Seq(Entry) /\ Len(<<>>) = 0 /\ 1..0 = {} /\ DOMAIN <<>> = {}
  OBVIOUS
<1>2. Chained(<<>>)
  BY <1>1 DEF Chained
<1>3. \A k : Places(k, <<>>) = {}
  BY <1>1 DEF Places
<1>4. \A k : Latest(k, <<>>) = {}
  BY <1>1 DEF Latest
<1> QED
  BY <1>1, <1>2, <1>3, <1>4 DEF Contents, Nothing, IndexOf, EmptyIndex, EndOf

\* What the index holds of a frame.
Indexed(e) == [offset |-> e.offset, tombstone |-> e.frame.val = Absent]

\* What the index holds for a key.
LEMMA IndexFacts ==
    ASSUME NEW c, Chained(c), NEW k \in Keys
    PROVE  /\ Places(k, c) = {} => IndexOf(c)[k] = NotIndexed
           /\ Places(k, c) # {} => IndexOf(c)[k] = Indexed(c[Max(Places(k, c))])
<1>1. Latest(k, c) = IF Places(k, c) = {} THEN {} ELSE {c[Max(Places(k, c))]}
  BY DEF Latest, Places
<1>2. IndexOf(c)[k] =
          IF Latest(k, c) = {} THEN NotIndexed
          ELSE CHOOSE entry \in {[offset |-> e.offset, tombstone |-> e.frame.val = Absent] :
                                    e \in Latest(k, c)} : TRUE
  BY DEF IndexOf
<1>3. CASE Places(k, c) = {}
  BY <1>1, <1>2, <1>3
<1>4. CASE Places(k, c) # {}
  <2> DEFINE x == c[Max(Places(k, c))]
             r == [offset |-> x.offset, tombstone |-> x.frame.val = Absent]
  <2>1. Latest(k, c) = {x}
    BY <1>1, <1>4
  <2> HIDE DEF x
  <2>2. {[offset |-> e.offset, tombstone |-> e.frame.val = Absent] : e \in {x}} = {r}
    OBVIOUS
  <2>3. IndexOf(c)[k] = CHOOSE entry \in {r} : TRUE
    BY <1>2, <2>1, <2>2
  <2>4. (CHOOSE entry \in {r} : TRUE) = r
    <3> HIDE DEF r
    <3> QED OBVIOUS
  <2> QED BY <1>4, <2>3, <2>4 DEF x, Indexed
<1> QED
  BY <1>3, <1>4

\* What a caller sees of a file f through an index ix.
View(f, ix) ==
    [k \in Keys |-> IF ix[k].tombstone THEN Absent
                    ELSE IF IntactAt(f, ix[k].offset) THEN f[ix[k].offset + 1].frame.val
                    ELSE Garbled]

\* While its chain is in place in the file, a caller sees what it stores.
LEMMA ViewIsContents ==
    ASSUME NEW f \in File, NEW c, ChainIn(f, c)
    PROVE  View(f, IndexOf(c)) = Contents(c)
<1> DEFINE ix == IndexOf(c)
<1>1. Chained(c)
  BY DEF ChainIn
<1> SUFFICES ASSUME NEW k \in Keys
             PROVE  View(f, ix)[k] =
                        IF Places(k, c) = {} THEN Absent ELSE c[Max(Places(k, c))].frame.val
  BY DEF View, Contents
<1>2. CASE Places(k, c) = {}
  <2>1. ix[k] = NotIndexed
    BY <1>1, <1>2, IndexFacts
  <2> QED BY <1>2, <2>1 DEF View, NotIndexed
<1>3. CASE Places(k, c) # {}
  <2>1. PICK m \in 1..Len(c) : m = Max(Places(k, c))
    BY <1>1, <1>3, PlacesFacts
  <2>2. c[m] \in Entry /\ Placed(f, c[m])
    BY <1>1, ChainFacts DEF ChainIn
  <2>3. IntactAt(f, c[m].offset) /\ f[c[m].offset + 1].frame = c[m].frame
    BY <2>2, PlacedFacts
  <2>4. ix[k] = Indexed(c[m])
    BY <1>1, <1>3, <2>1, IndexFacts
  <2> HIDE DEF ix
  <2>5. ix[k].offset = c[m].offset
    BY <2>4 DEF Indexed
  <2>6. ix[k].tombstone <=> c[m].frame.val = Absent
    <3>1. Indexed(c[m]).tombstone = (c[m].frame.val = Absent)
      BY DEF Indexed
    <3> QED BY <2>4, <3>1
  <2> QED BY <1>3, <2>1, <2>3, <2>5, <2>6 DEF View
<1> QED
  BY <1>2, <1>3

\* A frame at the end of a chain replaces what was stored for its key, and its entry in
\* the index.
LEMMA ContentsAppend ==
    ASSUME NEW c, Chained(c), NEW e \in Entry, e.offset = EndOf(c), e.frame.key \in Keys
    PROVE  /\ Contents(Append(c, e)) = [Contents(c) EXCEPT ![e.frame.key] = e.frame.val]
           /\ IndexOf(Append(c, e)) = [IndexOf(c) EXCEPT ![e.frame.key] = Indexed(e)]
<1> DEFINE p == Append(c, e)
<1>1. /\ Chained(p) /\ Len(p) = Len(c) + 1 /\ Len(c) \in Nat
      /\ \A i \in 1..Len(c) : p[i] = c[i]
      /\ p[Len(c) + 1] = e
  BY AppendChain, ChainFacts
<1> HIDE DEF p
<1>2. \A k : Places(k, p) = {i \in 1..(Len(c) + 1) : p[i].frame.key = k}
  BY <1>1, PlacesFacts
<1>3. \A k : Places(k, c) = {i \in 1..Len(c) : c[i].frame.key = k}
  BY PlacesFacts
<1>4. Places(e.frame.key, p) # {} /\ Max(Places(e.frame.key, p)) = Len(c) + 1
  <2>1. Len(c) + 1 \in Places(e.frame.key, p)
    BY <1>1, <1>2
  <2>2. PICK m : m = Max(Places(e.frame.key, p))
    OBVIOUS
  <2>3. m \in 1..(Len(c) + 1) /\ Len(c) + 1 <= m
    BY <1>1, <1>2, <2>1, <2>2, PlacesFacts
  <2> QED BY <1>1, <2>1, <2>2, <2>3
<1>5. ASSUME NEW k \in Keys, k # e.frame.key PROVE Places(k, p) = Places(k, c)
  <2>1. ASSUME NEW i \in Places(k, p) PROVE i \in Places(k, c)
    <3>1. i \in 1..(Len(c) + 1) /\ p[i].frame.key = k
      BY <1>2
    <3>2. i # Len(c) + 1
      BY <1>1, <1>5, <3>1
    <3>3. i \in 1..Len(c)
      BY <1>1, <3>1, <3>2
    <3> QED BY <1>1, <1>3, <3>1, <3>3
  <2>2. ASSUME NEW i \in Places(k, c) PROVE i \in Places(k, p)
    <3>1. i \in 1..Len(c) /\ c[i].frame.key = k /\ i \in 1..(Len(c) + 1)
      BY <1>1, <1>3
    <3> QED BY <1>1, <1>2, <3>1
  <2> QED BY <2>1, <2>2
<1>6. ASSUME NEW k \in Keys, k # e.frame.key, Places(k, c) # {}
      PROVE  p[Max(Places(k, p))] = c[Max(Places(k, c))]
  <2>1. Max(Places(k, c)) \in 1..Len(c) /\ Places(k, p) = Places(k, c)
    BY <1>3, <1>5, <1>6, PlacesFacts
  <2> QED BY <1>1, <2>1
<1>7. Contents(p) = [Contents(c) EXCEPT ![e.frame.key] = e.frame.val]
  <2>1. ASSUME NEW k \in Keys
        PROVE  Contents(p)[k] = [Contents(c) EXCEPT ![e.frame.key] = e.frame.val][k]
    <3>1. CASE k = e.frame.key
      BY <1>1, <1>4, <3>1 DEF Contents
    <3>2. CASE k # e.frame.key
      <4>1. Contents(p)[k] = Contents(c)[k]
        BY <1>5, <1>6, <3>2 DEF Contents
      <4>2. Contents(c) \in [Keys -> Values \cup {Absent}]
        BY ContentsType
      <4> QED BY <3>2, <4>1, <4>2
    <3> QED BY <3>1, <3>2
  <2>2. Contents(p) \in [Keys -> Values \cup {Absent}] /\ Contents(c) \in [Keys -> Values \cup {Absent}]
    BY <1>1, ContentsType
  <2> QED BY <2>1, <2>2
<1>8. IndexOf(p) = [IndexOf(c) EXCEPT ![e.frame.key] = Indexed(e)]
  <2>1. /\ DOMAIN IndexOf(p) = Keys /\ DOMAIN IndexOf(c) = Keys
        /\ IndexOf(p) = [k \in Keys |-> IndexOf(p)[k]] /\ IndexOf(c) = [k \in Keys |-> IndexOf(c)[k]]
    BY DEF IndexOf
  <2>2. IndexOf(p)[e.frame.key] = Indexed(e)
    BY <1>1, <1>4, IndexFacts
  <2>3. ASSUME NEW k \in Keys, k # e.frame.key PROVE IndexOf(p)[k] = IndexOf(c)[k]
    <3>1. CASE Places(k, c) = {}
      BY <1>1, <1>5, <2>3, <3>1, IndexFacts
    <3>2. CASE Places(k, c) # {}
      <4>1. Places(k, p) = Places(k, c) /\ p[Max(Places(k, p))] = c[Max(Places(k, c))]
        BY <1>5, <1>6, <2>3, <3>2
      <4> QED BY <1>1, <3>2, <4>1, IndexFacts
    <3> QED BY <3>1, <3>2
  <2> QED BY <2>1, <2>2, <2>3
<1> QED
  BY <1>7, <1>8 DEF p

\* What a longer chain stores for a key is what the shorter one stores, or the value of a
\* later frame.
LEMMA ContentsOfLonger ==
    ASSUME NEW b, Chained(b), NEW s, Chained(s), Len(b) <= Len(s),
           \A i \in 1..Len(b) : s[i] = b[i],
           NEW k \in Keys, NEW V, Contents(b)[k] \in V,
           \A i \in 1..Len(s) : i > Len(b) /\ s[i].frame.key = k => s[i].frame.val \in V
    PROVE  Contents(s)[k] \in V
<1>1. Len(b) \in Nat /\ Len(s) \in Nat
  BY ChainFacts
<1>2. Places(k, b) = {i \in 1..Len(b) : b[i].frame.key = k}
  BY PlacesFacts
<1>3. Places(k, s) = {i \in 1..Len(s) : s[i].frame.key = k}
  BY PlacesFacts
<1>4. \A i \in Places(k, b) : i \in Places(k, s)
  BY <1>1, <1>2, <1>3
<1>5. CASE Places(k, s) = {}
  <2>1. Places(k, b) = {}
    BY <1>4, <1>5
  <2> QED BY <1>5, <2>1 DEF Contents
<1>6. CASE Places(k, s) # {}
  <2>1. PICK m \in 1..Len(s) : /\ m = Max(Places(k, s)) /\ s[m].frame.key = k
                               /\ \A i \in Places(k, s) : i <= m
    BY <1>3, <1>6, PlacesFacts
  <2>2. Contents(s)[k] = s[m].frame.val
    BY <1>6, <2>1 DEF Contents
  <2>3. CASE m > Len(b)
    BY <2>1, <2>2, <2>3
  <2>4. CASE m <= Len(b)
    <3>1. m \in 1..Len(b) /\ s[m] = b[m]
      BY <1>1, <2>4
    <3>2. m \in Places(k, b)
      BY <1>2, <2>1, <3>1
    <3>3. PICK n \in 1..Len(b) : n = Max(Places(k, b)) /\ n \in Places(k, b) /\ m <= n
      BY <1>2, <3>2, PlacesFacts
    <3>4. n <= m
      BY <1>4, <2>1, <3>3
    <3>5. n = m
      BY <3>3, <3>4
    <3>6. Contents(b)[k] = b[m].frame.val
      BY <3>2, <3>3, <3>5 DEF Contents
    <3> QED BY <2>2, <3>1, <3>6
  <2> QED BY <1>1, <2>3, <2>4
<1> QED
  BY <1>5, <1>6

-----------------------------------------------------------------------------
(* The scan of Initialize.                                                 *)

\* What the scan finds from offset o on, given what it finds from a later one.
EntryAt(f, o) == [offset |-> o, frame |-> f[o + 1].frame]
ScanStep(f, scan, o) ==
    IF ValidAt(f, o) THEN <<EntryAt(f, o)>> \o scan[o + FrameLength(f[o + 1].frame)] ELSE <<>>

\* A frame that the scan accepts is in place, not too long, and ends within the file.
LEMMA ValidFacts ==
    ASSUME NEW f \in File, NEW o \in Nat
    PROVE  ValidAt(f, o) => /\ EntryAt(f, o) \in Entry /\ Placed(f, EntryAt(f, o))
                            /\ Small(EntryAt(f, o)) /\ EntryAt(f, o).offset = o
                            /\ EndOfEntry(EntryAt(f, o)) = o + FrameLength(f[o + 1].frame)
                            /\ EndOfEntry(EntryAt(f, o)) > o /\ o < Len(f)
                            /\ EndOfEntry(EntryAt(f, o)) \in 0..Len(f)
<1> SUFFICES ASSUME ValidAt(f, o)
             PROVE  /\ EntryAt(f, o) \in Entry /\ Placed(f, EntryAt(f, o))
                    /\ Small(EntryAt(f, o)) /\ EntryAt(f, o).offset = o
                    /\ EndOfEntry(EntryAt(f, o)) = o + FrameLength(f[o + 1].frame)
                    /\ EndOfEntry(EntryAt(f, o)) > o /\ o < Len(f)
                    /\ EndOfEntry(EntryAt(f, o)) \in 0..Len(f)
  OBVIOUS
<1>1. /\ o < Len(f) /\ IntactAt(f, o)
      /\ ValueLength(f[o + 1].frame.val) <= MaxReasonableLength
  BY DEF ValidAt
<1>2. EntryAt(f, o) \in Entry /\ Placed(f, EntryAt(f, o))
  BY <1>1, IntactIsPlaced DEF EntryAt
<1>3. /\ EntryAt(f, o).offset = o /\ Small(EntryAt(f, o))
      /\ EndOfEntry(EntryAt(f, o)) = o + FrameLength(f[o + 1].frame)
  BY <1>1 DEF EntryAt, Small, EndOfEntry
<1>4. PICK e \in Entry : e = EntryAt(f, o)
  BY <1>2
<1>5. EndOfEntry(e) \in Nat /\ EndOfEntry(e) > e.offset /\ EndOfEntry(e) <= Len(f)
  BY <1>2, <1>4, EntryFacts, PlacedFacts
<1>6. EndOfEntry(e) \in 0..Len(f)
  BY <1>5, CellFacts
<1> QED
  BY <1>1, <1>2, <1>3, <1>4, <1>5, <1>6

\* The scan has a result for every offset.
LEMMA ScanDefined ==
    ASSUME NEW f \in File
    PROVE  \E scan : /\ Scan(f) = scan[0]
                     /\ \A o \in 0..Len(f) : scan[o] = ScanStep(f, scan, o)
<1>1. Len(f) \in Nat
  BY CellFacts
<1> DEFINE From(scan, m) == \A o \in m..Len(f) : scan[o] = ScanStep(f, scan, o)
           S == {m \in 0..Len(f) : \E scan : From(scan, m)}
<1>2. Len(f) \in S
  <2> DEFINE scan == [o \in 0..Len(f) |-> <<>>]
  <2>1. \A o \in Len(f)..Len(f) : o = Len(f) /\ o \in 0..Len(f) /\ ~(o < Len(f))
    BY <1>1
  <2>2. From(scan, Len(f))
    BY <2>1 DEF ScanStep, ValidAt
  <2> HIDE DEF scan, From
  <2> QED BY <1>1, <2>2
<1>3. PICK m \in S : \A y \in S : m <= y
  <2>1. S \subseteq Nat
    BY <1>1
  <2> HIDE DEF S
  <2> QED BY <1>2, <2>1, LeastNumber
<1>4. PICK g : From(g, m)
  BY <1>3
<1>5. m \in 0..Len(f)
  BY <1>3
<1>6. m = 0
  <2> SUFFICES ASSUME m # 0 PROVE FALSE
    OBVIOUS
  <2>1. m - 1 \in 0..Len(f) /\ m - 1 \in Nat
    BY <1>1, <1>5
  <2> DEFINE h == [o \in 0..Len(f) |-> IF o = m - 1 THEN ScanStep(f, g, o) ELSE g[o]]
  <2>2. ASSUME NEW o \in (m - 1)..Len(f) PROVE ScanStep(f, h, o) = ScanStep(f, g, o)
    <3>1. o \in Nat
      BY <1>1, <2>1
    <3>2. CASE ValidAt(f, o)
      <4>1. PICK x \in 0..Len(f) : x = o + FrameLength(f[o + 1].frame) /\ x > o
        BY <3>1, <3>2, ValidFacts
      <4>2. x # m - 1
        BY <1>1, <2>1, <4>1
      <4>3. h[x] = g[x]
        BY <4>1, <4>2
      <4> QED BY <3>2, <4>1, <4>3 DEF ScanStep
    <3>3. CASE ~ValidAt(f, o)
      BY <3>3 DEF ScanStep
    <3> QED BY <3>2, <3>3
  <2>3. ASSUME NEW o \in (m - 1)..Len(f) PROVE h[o] = ScanStep(f, h, o)
    <3>1. o \in 0..Len(f) /\ (o = m - 1 \/ o \in m..Len(f))
      BY <1>1, <1>5, <2>1
    <3>2. CASE o = m - 1
      BY <2>2, <3>1, <3>2
    <3>3. CASE o # m - 1
      <4>1. h[o] = g[o] /\ g[o] = ScanStep(f, g, o)
        BY <1>4, <3>1, <3>3
      <4> QED BY <2>2, <4>1
    <3> QED BY <3>2, <3>3
  <2>4. From(h, m - 1)
    BY <2>3
  <2>5. m - 1 \in S
    <3> HIDE DEF From, h
    <3> QED BY <2>1, <2>4
  <2>6. m <= m - 1
    <3> HIDE DEF S
    <3> QED BY <1>3, <2>5
  <2> QED BY <1>5, <2>6
<1> DEFINE IsScan(scan) ==
        scan = [o \in 0..Len(f) |->
                   IF ValidAt(f, o)
                   THEN <<[offset |-> o, frame |-> f[o + 1].frame]>>
                            \o scan[o + FrameLength(f[o + 1].frame)]
                   ELSE <<>>]
<1>7. \E scan : IsScan(scan)
  <2> DEFINE h == [o \in 0..Len(f) |-> g[o]]
  <2>1. ASSUME NEW o \in 0..Len(f)
        PROVE  h[o] = IF ValidAt(f, o)
                      THEN <<[offset |-> o, frame |-> f[o + 1].frame]>>
                               \o h[o + FrameLength(f[o + 1].frame)]
                      ELSE <<>>
    <3>1. o \in Nat /\ g[o] = ScanStep(f, g, o)
      BY <1>1, <1>4, <1>6
    <3>2. CASE ValidAt(f, o)
      <4>1. PICK x \in 0..Len(f) : x = o + FrameLength(f[o + 1].frame)
        BY <3>1, <3>2, ValidFacts
      <4>2. h[x] = g[x] /\ h[o] = g[o]
        OBVIOUS
      <4> QED BY <3>1, <3>2, <4>1, <4>2 DEF ScanStep, EntryAt
    <3>3. CASE ~ValidAt(f, o)
      BY <3>1, <3>3 DEF ScanStep
    <3> QED BY <3>2, <3>3
  <2>2. IsScan(h)
    BY <2>1
  <2> HIDE DEF IsScan
  <2> QED BY <2>2
<1>8. PICK scan : scan = CHOOSE s : IsScan(s)
  OBVIOUS
<1>9. IsScan(scan)
  <2> HIDE DEF IsScan
  <2> QED BY <1>7, <1>8
<1>10. Scan(f) = scan[0]
  BY <1>8 DEF Scan
<1>11. \A o \in 0..Len(f) : scan[o] = ScanStep(f, scan, o)
  BY <1>9 DEF ScanStep, EntryAt
<1> QED
  BY <1>10, <1>11

\* The frames s follow one another from offset o on, as far as the scan goes.
EndFrom(o, s, n) == IF n = 0 THEN o ELSE EndOfEntry(s[n])
RunFrom(f, o, s) ==
    /\ s \in Seq(Entry)
    /\ \A i \in 1..Len(s) :
          s[i].offset = EndFrom(o, s, i - 1) /\ Placed(f, s[i]) /\ Small(s[i])
    /\ ~ValidAt(f, EndFrom(o, s, Len(s)))

\* A frame, and the run behind it.
LEMMA RunGrows ==
    ASSUME NEW f \in File, NEW o \in Nat, ValidAt(f, o), NEW t,
           RunFrom(f, EndOfEntry(EntryAt(f, o)), t)
    PROVE  RunFrom(f, o, <<EntryAt(f, o)>> \o t)
<1>1. PICK e \in Entry : e = EntryAt(f, o)
  BY ValidFacts
<1>2. e.offset = o /\ Placed(f, e) /\ Small(e) /\ RunFrom(f, EndOfEntry(e), t)
  BY <1>1, ValidFacts
<1> DEFINE s == <<e>> \o t
<1>3. Len(t) \in Nat /\ t \in Seq(Entry)
  BY <1>2 DEF RunFrom
<1>4. /\ s \in Seq(Entry) /\ Len(s) = Len(t) + 1 /\ s[1] = e
      /\ \A i \in 1..Len(t) : s[i + 1] = t[i]
  BY <1>3
<1> HIDE DEF s
<1>5. ASSUME NEW n \in 0..Len(t) PROVE EndFrom(o, s, n + 1) = EndFrom(EndOfEntry(e), t, n)
  <2>1. CASE n = 0
    BY <1>4, <2>1 DEF EndFrom
  <2>2. CASE n # 0
    <3>1. n \in 1..Len(t) /\ n + 1 # 0
      BY <1>3, <2>2
    <3> QED BY <1>4, <2>2, <3>1 DEF EndFrom
  <2> QED BY <2>1, <2>2
<1>6. ASSUME NEW i \in 1..Len(s)
      PROVE  s[i].offset = EndFrom(o, s, i - 1) /\ Placed(f, s[i]) /\ Small(s[i])
  <2>1. CASE i = 1
    BY <1>2, <1>4, <2>1 DEF EndFrom
  <2>2. CASE i # 1
    <3>1. PICK j \in 1..Len(t) : i = j + 1
      <4>1. i - 1 \in 1..Len(t) /\ i = (i - 1) + 1
        BY <1>3, <1>4, <2>2
      <4> QED BY <4>1
    <3>2. s[i] = t[j] /\ i - 1 = (j - 1) + 1 /\ j - 1 \in 0..Len(t)
      BY <1>3, <1>4, <3>1
    <3>3. t[j].offset = EndFrom(EndOfEntry(e), t, j - 1) /\ Placed(f, t[j]) /\ Small(t[j])
      BY <1>2 DEF RunFrom
    <3> QED BY <1>5, <3>2, <3>3
  <2> QED BY <2>1, <2>2
<1>7. ~ValidAt(f, EndFrom(o, s, Len(s)))
  <2>1. ~ValidAt(f, EndFrom(EndOfEntry(e), t, Len(t))) /\ Len(t) \in 0..Len(t)
    BY <1>2, <1>3 DEF RunFrom
  <2> QED BY <1>4, <1>5, <2>1
<1>8. RunFrom(f, o, s)
  BY <1>4, <1>6, <1>7 DEF RunFrom
<1> QED
  BY <1>1, <1>8 DEF s

\* The scan finds a chain of frames that are in place and not too long, and stops only
\* where none follows.
LEMMA ScanFacts ==
    ASSUME NEW f \in File
    PROVE  ChainIn(f, Scan(f)) /\ AllSmall(Scan(f)) /\ ~ValidAt(f, EndOf(Scan(f)))
<1>1. Len(f) \in Nat
  BY CellFacts
<1>2. PICK scan : Scan(f) = scan[0] /\ \A o \in 0..Len(f) : scan[o] = ScanStep(f, scan, o)
  BY ScanDefined
<1> DEFINE Bad == {j \in 0..Len(f) : ~RunFrom(f, Len(f) - j, scan[Len(f) - j])}
<1>3. Bad = {}
  <2> SUFFICES ASSUME Bad # {} PROVE FALSE
    OBVIOUS
  <2>1. PICK j \in Bad : \A y \in Bad : j <= y
    <3>1. Bad \subseteq Nat
      BY <1>1
    <3> HIDE DEF Bad
    <3> QED BY <3>1, LeastNumber
  <2>2. PICK o \in 0..Len(f) : o = Len(f) - j /\ j \in 0..Len(f) /\ ~RunFrom(f, o, scan[o])
    BY <1>1
  <2>3. CASE ~ValidAt(f, o)
    <3>1. scan[o] = <<>>
      BY <1>2, <2>3 DEF ScanStep
    <3>2. RunFrom(f, o, <<>>)
      <4>1. <<>> \in Seq(Entry) /\ Len(<<>>) = 0 /\ 1..0 = {}
        OBVIOUS
      <4> QED BY <2>3, <4>1 DEF RunFrom, EndFrom
    <3> QED BY <2>2, <3>1, <3>2
  <2>4. CASE ValidAt(f, o)
    <3>1. o \in Nat
      BY <1>1
    <3>2. PICK x \in 0..Len(f) : /\ x = EndOfEntry(EntryAt(f, o)) /\ x > o
                                 /\ x = o + FrameLength(f[o + 1].frame)
      BY <2>4, <3>1, ValidFacts
    <3>3. Len(f) - x \in 0..Len(f) /\ Len(f) - (Len(f) - x) = x /\ ~(j <= Len(f) - x)
      BY <1>1, <2>2, <3>2
    <3>4. Len(f) - x \notin Bad
      <4> HIDE DEF Bad
      <4> QED BY <2>1, <3>3
    <3>5. RunFrom(f, x, scan[x])
      BY <3>3, <3>4
    <3>6. RunFrom(f, o, <<EntryAt(f, o)>> \o scan[x])
      BY <2>4, <3>1, <3>2, <3>5, RunGrows
    <3>7. scan[o] = <<EntryAt(f, o)>> \o scan[x]
      BY <1>2, <2>4, <3>2 DEF ScanStep
    <3> QED BY <2>2, <3>6, <3>7
  <2> QED BY <2>3, <2>4
<1>4. RunFrom(f, 0, Scan(f))
  <2>1. Len(f) \in 0..Len(f) /\ Len(f) - Len(f) = 0
    BY <1>1
  <2> QED BY <1>2, <1>3, <2>1
<1>5. \A n : EndFrom(0, Scan(f), n) = EndAt(Scan(f), n)
  BY DEF EndFrom, EndAt
<1>6. ChainIn(f, Scan(f)) /\ AllSmall(Scan(f))
  BY <1>4, <1>5 DEF RunFrom, ChainIn, Chained, AllSmall
<1>7. EndOf(Scan(f)) = EndAt(Scan(f), Len(Scan(f)))
  BY <1>6, ChainFacts DEF ChainIn
<1> QED
  BY <1>4, <1>5, <1>6, <1>7 DEF RunFrom

\* A chain in place in f is one of {f}, and of all sets of files with f.
LEMMA ChainInFacts ==
    ASSUME NEW f, NEW c
    PROVE  /\ ChainIn(f, c) <=> ChainOf({f}, c)
           /\ \A F : f \in F /\ ChainIn(f, c) => ChainOf(F, c)
BY DEF ChainIn, ChainOf, Placed, InPlace

\* What the scan finds begins with every chain of frames that are in place and not too long.
LEMMA ScanExtends ==
    ASSUME NEW f \in File, NEW b, ChainIn(f, b), AllSmall(b)
    PROVE  /\ Len(b) <= Len(Scan(f)) /\ \A i \in 1..Len(b) : Scan(f)[i] = b[i]
           /\ EndOf(b) <= EndOf(Scan(f))
<1> DEFINE s == Scan(f)
<1>1. ChainIn(f, s) /\ ~ValidAt(f, EndOf(s)) /\ Chained(s) /\ Chained(b)
  BY ScanFacts DEF ChainIn
<1> HIDE DEF s
<1>2. /\ Len(s) \in Nat /\ Len(b) \in Nat /\ EndOf(s) \in Nat /\ EndOf(b) \in Nat
  BY <1>1, ChainFacts
<1>3. ChainOf({f}, s) /\ ChainOf({f}, b)
  BY <1>1, ChainInFacts
<1>4. ~(EndOf(s) < EndOf(b))
  <2> SUFFICES ASSUME EndOf(s) < EndOf(b) PROVE FALSE
    OBVIOUS
  <2>1. Len(s) + 1 \in 1..Len(b) /\ b[Len(s) + 1].offset = EndOf(s)
    BY <1>1, <1>3, LongerChain
  <2>2. PICK e \in Entry : e = b[Len(s) + 1] /\ e.offset = EndOf(s) /\ Placed(f, e) /\ Small(e)
    BY <1>1, <2>1, ChainFacts DEF ChainIn, AllSmall
  <2>3. ValidAt(f, EndOf(s))
    BY <2>2, PlacedFacts DEF ValidAt, Small
  <2> QED BY <1>1, <2>3
<1>5. Len(b) <= Len(s)
  <2>1. CASE EndOf(b) = EndOf(s)
    <3>1. b = s
      BY <1>1, <1>3, <2>1, LongerChain
    <3> QED BY <1>2, <3>1
  <2>2. CASE EndOf(b) < EndOf(s)
    <3>1. Len(b) + 1 \in 1..Len(s)
      BY <1>1, <1>3, <2>2, LongerChain
    <3> QED BY <1>2, <3>1
  <2> QED BY <1>2, <1>4, <2>1, <2>2
<1>6. \A i \in 1..Len(b) : b[i] = s[i]
  <2> SUFFICES ASSUME NEW i \in 1..Len(b) PROVE b[i] = s[i]
    OBVIOUS
  <2>1. i <= Len(s)
    BY <1>2, <1>5
  <2> QED BY <1>1, <1>3, <2>1, ChainsAgree
<1> QED
  BY <1>2, <1>4, <1>5, <1>6 DEF s

-----------------------------------------------------------------------------
(* What a power cut leaves.                                                *)

\* Each cell of f is that of one of the images, or blank if not all of them reach it.
MixedCell(i) ==
    {f[i] : f \in {g \in images : Len(g) >= i}}
        \cup IF \E f \in images : Len(f) < i THEN {Blank} ELSE {}
Mix(f) ==
    /\ f \in File /\ \E g \in images : Len(f) = Len(g)
    /\ \A i \in 1..Len(f) : f[i] \in MixedCell(i)

\* The cells that may be left are cells.
LEMMA MixedCellFacts ==
    ASSUME images \subseteq File, NEW i \in Nat \ {0}
    PROVE  /\ MixedCell(i) \subseteq Cell
           /\ \A c \in MixedCell(i) : \/ \E g \in images : i <= Len(g) /\ c = g[i]
                                      \/ c = Blank /\ \E g \in images : Len(g) < i
<1>1. Blank \in Cell
  BY DEF Blank, Cell, Frame
<1>2. ASSUME NEW g \in images, Len(g) >= i PROVE g[i] \in Cell /\ i <= Len(g)
  <2>1. g \in File /\ Len(g) \in Nat
    BY CellFacts
  <2>2. i \in 1..Len(g)
    BY <1>2, <2>1
  <2> QED BY <2>1, <2>2, CellFacts
<1> QED
  BY <1>1, <1>2 DEF MixedCell

\* The mixtures of n cells, and of one more.
MixedFiles(n) == {s \in Seq(Cell) : Len(s) = n /\ \A i \in 1..n : s[i] \in MixedCell(i)}
OneMore(S, n) == {Append(s, c) : s \in S, c \in MixedCell(n)}

\* A mixture grows by a cell that may be left.
LEMMA MixedGrows ==
    ASSUME images \subseteq File, NEW n \in Nat \ {0}
    PROVE  /\ \A s \in MixedFiles(n - 1), c \in MixedCell(n) : Append(s, c) \in MixedFiles(n)
           /\ \A t \in MixedFiles(n) :
                 \E s \in MixedFiles(n - 1), c \in MixedCell(n) : t = Append(s, c)
<1>1. ASSUME NEW s \in MixedFiles(n - 1), NEW c \in MixedCell(n)
      PROVE  Append(s, c) \in MixedFiles(n)
  <2>1. s \in Seq(Cell) /\ Len(s) = n - 1 /\ \A i \in 1..(n - 1) : s[i] \in MixedCell(i)
    BY DEF MixedFiles
  <2>2. c \in Cell
    BY MixedCellFacts
  <2>x. Append(s, c) \in Seq(Cell)
    BY <2>1, <2>2
  <2>3. PICK t \in Seq(Cell) : t = Append(s, c)
    BY <2>x
  <2>4. Len(t) = n /\ (\A i \in 1..(n - 1) : t[i] = s[i]) /\ t[n] = c
    BY <2>1, <2>2, <2>3
  <2>5. \A i \in 1..n : i = n \/ i \in 1..(n - 1)
    OBVIOUS
  <2>6. \A i \in 1..n : t[i] \in MixedCell(i)
    BY <2>1, <2>4, <2>5
  <2> QED BY <2>3, <2>4, <2>6 DEF MixedFiles
<1>2. ASSUME NEW t \in MixedFiles(n)
      PROVE  \E s \in MixedFiles(n - 1), c \in MixedCell(n) : t = Append(s, c)
  <2>1. t \in Seq(Cell) /\ Len(t) = n /\ \A i \in 1..n : t[i] \in MixedCell(i)
    BY DEF MixedFiles
  <2>2. n - 1 \in Nat /\ n \in 1..n /\ \A i \in 1..(n - 1) : i \in 1..n
    OBVIOUS
  <2>x. SubSeq(t, 1, n - 1) \in Seq(Cell)
    BY <2>1, <2>2
  <2>3. PICK s \in Seq(Cell) : s = SubSeq(t, 1, n - 1)
    BY <2>x
  <2>4. Len(s) = n - 1 /\ \A i \in 1..(n - 1) : s[i] = t[i]
    BY <2>1, <2>2, <2>3
  <2>5. s \in MixedFiles(n - 1) /\ t[n] \in MixedCell(n) /\ t[n] \in Cell
    BY <2>1, <2>2, <2>4 DEF MixedFiles
  <2>y. Append(s, t[n]) \in Seq(Cell)
    BY <2>5
  <2>6. PICK u \in Seq(Cell) : u = Append(s, t[n])
    BY <2>y
  <2>7. Len(u) = n /\ \A i \in 1..n : u[i] = t[i]
    BY <2>4, <2>5, <2>6
  <2>8. u = t
    BY <2>1, <2>7
  <2> QED BY <2>5, <2>6, <2>8
<1> QED
  BY <1>1, <1>2

\* There is one mixture of no cells.
LEMMA MixedEmpty == MixedFiles(0) = {<<>>}
<1>1. <<>> \in MixedFiles(0)
  BY DEF MixedFiles
<1>2. \A s \in MixedFiles(0) : s = <<>>
  BY DEF MixedFiles
<1> QED
  BY <1>1, <1>2

\* A power cut leaves such a mixture.
LEMMA SurvivorFacts ==
    ASSUME images \subseteq File, NEW f \in Survivors
    PROVE  Mix(f)
<1> DEFINE IsMixed(m) ==
        m = [n \in Nat |-> IF n = 0 THEN {<<>>}
                           ELSE OneMore(m[n - 1], n)]
<1>1. \E m : IsMixed(m)
  <2> DEFINE h == [n \in Nat |-> MixedFiles(n)]
  <2>1. ASSUME NEW n \in Nat
        PROVE  h[n] = IF n = 0 THEN {<<>>}
                      ELSE OneMore(h[n - 1], n)
    <3>1. CASE n = 0
      BY <3>1, MixedEmpty
    <3>2. CASE n # 0
      <4>1. n - 1 \in Nat /\ n \in Nat \ {0}
        BY <3>2
      <4>2. h[n - 1] = MixedFiles(n - 1) /\ h[n] = MixedFiles(n)
        BY <4>1
      <4>3. MixedFiles(n) = OneMore(MixedFiles(n - 1), n)
        <5>1. \A s \in MixedFiles(n - 1), c \in MixedCell(n) : Append(s, c) \in MixedFiles(n)
          BY <4>1, MixedGrows
        <5>2. \A t \in MixedFiles(n) :
                 \E s \in MixedFiles(n - 1), c \in MixedCell(n) : t = Append(s, c)
          BY <4>1, MixedGrows
        <5>3. \A t : t \in OneMore(MixedFiles(n - 1), n) <=>
                 \E s \in MixedFiles(n - 1), c \in MixedCell(n) : t = Append(s, c)
          BY DEF OneMore
        <5> QED BY <5>1, <5>2, <5>3
      <4> HIDE DEF h
      <4> QED BY <3>2, <4>2, <4>3
    <3> QED BY <3>1, <3>2
  <2>2. IsMixed(h)
    BY <2>1
  <2> HIDE DEF IsMixed
  <2> QED BY <2>2
<1>2. PICK m : m = CHOOSE x : IsMixed(x)
  OBVIOUS
<1>3. IsMixed(m)
  <2> HIDE DEF IsMixed
  <2> QED BY <1>1, <1>2
<1>4. Survivors = UNION {m[Len(g)] : g \in images}
  BY <1>2 DEF Survivors, MixedCell, OneMore
<1>5. ASSUME NEW n \in Nat PROVE m[n] \subseteq MixedFiles(n)
  <2> DEFINE Bad == {x \in Nat : ~(m[x] \subseteq MixedFiles(x))}
  <2> SUFFICES ASSUME Bad # {} PROVE FALSE
    OBVIOUS
  <2>1. PICK x \in Bad : \A y \in Bad : x <= y
    <3>1. Bad \subseteq Nat
      OBVIOUS
    <3> HIDE DEF Bad
    <3> QED BY <3>1, LeastNumber
  <2>2. x \in Nat /\ ~(m[x] \subseteq MixedFiles(x))
    OBVIOUS
  <2>3. CASE x = 0
    <3>1. m[0] = {<<>>}
      BY <1>3
    <3> QED BY <2>2, <2>3, <3>1, MixedEmpty
  <2>4. CASE x # 0
    <3>1. x - 1 \in Nat /\ ~(x <= x - 1) /\ x \in Nat \ {0}
      BY <2>2, <2>4
    <3>2. x - 1 \notin Bad
      <4> HIDE DEF Bad
      <4> QED BY <2>1, <3>1
    <3>3. m[x - 1] \subseteq MixedFiles(x - 1)
      BY <3>1, <3>2
    <3>4. m[x] = OneMore(m[x - 1], x)
      <4>1. m[x] = IF x = 0 THEN {<<>>}
                   ELSE OneMore(m[x - 1], x)
        BY Zenon, <1>3, <2>2
      <4> QED BY Zenon, <2>4, <4>1
    <3>5. \A s \in MixedFiles(x - 1), c \in MixedCell(x) : Append(s, c) \in MixedFiles(x)
      BY <3>1, MixedGrows
    <3>6. \A t : t \in OneMore(m[x - 1], x) <=>
             \E s \in m[x - 1], c \in MixedCell(x) : t = Append(s, c)
      BY DEF OneMore
    <3>7. ASSUME NEW t \in m[x] PROVE t \in MixedFiles(x)
      <4>1. PICK s \in m[x - 1], c \in MixedCell(x) : t = Append(s, c)
        BY <3>4, <3>6
      <4> QED BY <3>3, <3>5, <4>1
    <3> QED BY <2>2, <3>7
  <2> QED BY <2>3, <2>4
<1>6. PICK g \in images : f \in m[Len(g)]
  BY <1>4
<1>7. Len(g) \in Nat
  BY CellFacts
<1>8. f \in MixedFiles(Len(g))
  BY <1>5, <1>6, <1>7
<1> QED
  BY <1>6, <1>8 DEF Mix, MixedFiles, File

-----------------------------------------------------------------------------
(* What may be found while the promise holds.                              *)

\* The values that P allows for a key; P allows every combination of them.
AllowedFor(P, k) == {c[k] : c \in P}
Free(P) ==
    \A d \in [Keys -> Values \cup {Absent}] :
        (\A k \in Keys : d[k] \in AllowedFor(P, k)) => d \in P

\* A frame that begins with this cell has a value that P allows.
Offered(P, cell) ==
    cell.at = 1 /\ cell.frame.key \in Keys => cell.frame.val \in AllowedFor(P, cell.frame.key)

\* The acknowledged frames b are on the disk, whatever of the files in F is, and all frames
\* that may begin behind them have values that P allows.
Base(F, P, b) ==
    /\ Chained(b) /\ AllSmall(b) /\ Contents(b) \in P
    /\ \A g \in F : ChainIn(g, b)
    /\ \A g \in F : \A i \in 1..Len(g) : i > EndOf(b) => Offered(P, g[i])

\* A chain ends within the file it is in.
LEMMA ChainEnds ==
    ASSUME NEW f \in File, NEW c, ChainIn(f, c)
    PROVE  EndOf(c) \in Nat /\ EndOf(c) <= Len(f)
<1>1. Chained(c)
  BY DEF ChainIn
<1>2. Len(c) \in Nat /\ EndOf(c) = EndAt(c, Len(c)) /\ EndOf(c) \in Nat
  BY <1>1, ChainFacts
<1>3. CASE Len(c) = 0
  BY <1>2, <1>3, CellFacts DEF EndAt
<1>4. CASE Len(c) # 0
  <2>1. Len(c) \in 1..Len(c)
    BY <1>2, <1>4
  <2>2. c[Len(c)] \in Entry /\ Placed(f, c[Len(c)])
    BY <1>1, <2>1, ChainFacts DEF ChainIn
  <2>3. EndOfEntry(c[Len(c)]) <= Len(f)
    BY <2>2, PlacedFacts
  <2> QED BY <1>2, <1>4, <2>3 DEF EndAt
<1> QED
  BY <1>2, <1>3, <1>4

\* A chain is in place in every file that begins as one does in which it is.
LEMMA ChainKept ==
    ASSUME NEW f \in File, NEW w \in File, NEW c, ChainIn(f, c), NEW o \in Nat,
           EndOf(c) <= o, o <= Len(w), \A i \in 1..o : w[i] = f[i]
    PROVE  ChainIn(w, c)
<1>1. Chained(c)
  BY DEF ChainIn
<1> SUFFICES ASSUME NEW i \in 1..Len(c), NEW j \in 1..FrameLength(c[i].frame)
             PROVE  Holds(w, c[i], j)
  BY <1>1 DEF ChainIn, Placed
<1>2. Len(c) \in Nat /\ c[i] \in Entry /\ EndOf(c) \in Nat
  BY <1>1, ChainFacts
<1>3. EndOfEntry(c[i]) <= EndOf(c)
  <2>1. i - 1 \in 0..Len(c) /\ i - 1 < i
    BY <1>2
  <2> QED BY <1>1, <2>1, LaterBeginLater
<1>4. c[i].offset \in Nat /\ FrameLength(c[i].frame) \in Nat /\ EndOfEntry(c[i]) \in Nat
  BY <1>2, EntryFacts
<1>5. c[i].offset + j \in 1..o /\ c[i].offset + j <= Len(w)
  <2>1. c[i].offset + j <= EndOfEntry(c[i])
    BY <1>4 DEF EndOfEntry
  <2> QED BY <1>2, <1>3, <1>4, <2>1, CellFacts
<1>6. Holds(f, c[i], j)
  BY DEF ChainIn, Placed
<1> QED
  BY <1>5, <1>6 DEF Holds

\* An open that reads everything finds what P allows.
LEMMA BaseScan ==
    ASSUME NEW f \in File, NEW P, Free(P), NEW b, Base({f}, P, b)
    PROVE  Contents(Scan(f)) \in P /\ EndOf(b) <= EndOf(Scan(f))
<1> DEFINE s == Scan(f)
<1>1. ChainIn(f, b) /\ Chained(b) /\ AllSmall(b) /\ Contents(b) \in P
  BY DEF Base
<1>2. ChainIn(f, s) /\ Chained(s)
  BY ScanFacts DEF ChainIn
<1>3. Len(b) <= Len(s) /\ (\A i \in 1..Len(b) : s[i] = b[i]) /\ EndOf(b) <= EndOf(s)
  BY <1>1, ScanExtends
<1> HIDE DEF s
<1>4. Len(b) \in Nat /\ Len(s) \in Nat /\ EndOf(b) \in Nat
  BY <1>1, <1>2, ChainFacts
<1>5. EndAt(s, Len(b)) = EndOf(b)
  <2>1. EndOf(b) = EndAt(b, Len(b))
    BY <1>1, ChainFacts
  <2>2. Len(b) # 0 => s[Len(b)] = b[Len(b)]
    BY <1>3, <1>4
  <2> QED BY <2>1, <2>2 DEF EndAt
<1>6. ASSUME NEW k \in Keys PROVE Contents(s)[k] \in AllowedFor(P, k)
  <2>1. Contents(b)[k] \in AllowedFor(P, k)
    BY <1>1 DEF AllowedFor
  <2>2. ASSUME NEW i \in 1..Len(s), i > Len(b), s[i].frame.key = k
        PROVE  s[i].frame.val \in AllowedFor(P, k)
    <3>1. PICK e \in Entry : e = s[i] /\ Placed(f, e)
      BY <1>2, ChainFacts DEF ChainIn
    <3>2. /\ e.offset < Len(f) /\ f[e.offset + 1].frame = e.frame /\ f[e.offset + 1].at = 1
      BY <3>1, PlacedFacts
    <3>3. EndOf(b) <= e.offset
      <4>1. Len(b) \in 0..Len(s) /\ Len(b) < i
        BY <1>3, <1>4, <2>2
      <4> QED BY <1>2, <1>5, <3>1, <4>1, LaterBeginLater
    <3>4. e.offset \in Nat /\ e.offset + 1 \in 1..Len(f) /\ e.offset + 1 > EndOf(b)
      BY <1>4, <3>2, <3>3, EntryFacts, CellFacts
    <3>5. Offered(P, f[e.offset + 1])
      BY <3>4 DEF Base
    <3> QED BY <2>2, <3>1, <3>2, <3>5 DEF Offered
  <2> QED BY <1>1, <1>2, <1>3, <2>1, <2>2, ContentsOfLonger
<1>7. Contents(s) \in [Keys -> Values \cup {Absent}]
  BY <1>2, ContentsType
<1>8. Contents(s) \in P
  BY <1>6, <1>7 DEF Free
<1> QED
  BY <1>3, <1>8 DEF s

\* A power cut keeps the acknowledged frames.
LEMMA MixBase ==
    ASSUME images \subseteq File, NEW P, NEW b, Base(images, P, b), NEW f, Mix(f)
    PROVE  f \in File /\ Base({f}, P, b)
<1>1. f \in File /\ Chained(b)
  BY DEF Mix, Base
<1>2. PICK g0 \in images : Len(f) = Len(g0)
  BY DEF Mix
<1>3. \A g \in images : g \in File /\ ChainIn(g, b) /\ EndOf(b) <= Len(g) /\ Len(g) \in Nat
  BY ChainEnds, CellFacts DEF Base
<1>4. EndOf(b) \in Nat /\ Len(f) \in Nat /\ EndOf(b) <= Len(f)
  BY <1>1, <1>2, <1>3, ChainFacts
<1>5. ASSUME NEW i \in 1..Len(f)
      PROVE  \/ \E g \in images : i <= Len(g) /\ f[i] = g[i]
             \/ f[i] = Blank /\ \E g \in images : Len(g) < i
  <2>1. f[i] \in MixedCell(i) /\ i \in Nat \ {0}
    BY <1>4 DEF Mix
  <2> QED BY <2>1, MixedCellFacts
<1>6. ChainIn(f, b)
  <2> SUFFICES ASSUME NEW i \in 1..Len(b), NEW j \in 1..FrameLength(b[i].frame)
               PROVE  Holds(f, b[i], j)
    BY <1>1 DEF ChainIn, Placed
  <2>1. Holds(g0, b[i], j)
    BY <1>3 DEF ChainIn, Placed
  <2>2. Len(b) \in Nat /\ b[i] \in Entry
    BY <1>1, ChainFacts
  <2>3. EndOfEntry(b[i]) <= EndOf(b)
    <3>1. i - 1 \in 0..Len(b) /\ i - 1 < i
      BY <2>2
    <3> QED BY <1>1, <3>1, LaterBeginLater
  <2>4. PICK q \in 1..EndOf(b) : q = b[i].offset + j
    <3>1. b[i].offset \in Nat /\ FrameLength(b[i].frame) \in Nat
      BY <2>2, EntryFacts
    <3>2. b[i].offset + j \in 1..EndOf(b)
      BY <1>4, <2>3, <3>1 DEF EndOfEntry
    <3> QED BY <3>2
  <2>5. q \in 1..Len(f) /\ \A g \in images : ~(Len(g) < q)
    BY <1>3, <1>4
  <2>6. PICK g \in images : q <= Len(g) /\ f[q] = g[q]
    BY <1>5, <2>5
  <2>7. Holds(g, b[i], j)
    BY <1>3 DEF ChainIn, Placed
  <2> QED BY <2>4, <2>5, <2>6, <2>7, <1>4 DEF Holds
<1>7. ASSUME NEW i \in 1..Len(f), i > EndOf(b) PROVE Offered(P, f[i])
  <2>1. CASE f[i] = Blank
    BY <2>1 DEF Blank, Offered
  <2>2. CASE \E g \in images : i <= Len(g) /\ f[i] = g[i]
    <3>1. PICK g \in images : i <= Len(g) /\ f[i] = g[i]
      BY <2>2
    <3>2. i \in 1..Len(g)
      BY <1>3, <1>4, <3>1
    <3> QED BY <1>7, <3>1, <3>2 DEF Base
  <2> QED BY <1>5, <2>1, <2>2
<1> QED
  BY <1>1, <1>6, <1>7 DEF Base

\* One state allows only itself, and an operation that may have happened one more value of
\* its key.
LEMMA FreeFacts ==
    /\ \A d \in [Keys -> Values \cup {Absent}] : Free({d})
    /\ \A P \in SUBSET [Keys -> Values \cup {Absent}], k \in Keys, v \in Values \cup {Absent} :
          Free(P) /\ P # {} => Free(P \cup {[c EXCEPT ![k] = v] : c \in P})
<1>1. ASSUME NEW d \in [Keys -> Values \cup {Absent}] PROVE Free({d})
  <2> SUFFICES ASSUME NEW e \in [Keys -> Values \cup {Absent}],
                      \A k \in Keys : e[k] \in AllowedFor({d}, k)
               PROVE  e = d
    BY DEF Free
  <2>1. \A k \in Keys : e[k] = d[k]
    BY DEF AllowedFor
  <2> QED BY <2>1
<1>2. ASSUME NEW P \in SUBSET [Keys -> Values \cup {Absent}], NEW k \in Keys,
             NEW v \in Values \cup {Absent}, Free(P), P # {}
      PROVE  Free(P \cup {[c EXCEPT ![k] = v] : c \in P})
  <2> DEFINE Q == P \cup {[c EXCEPT ![k] = v] : c \in P}
  <2> SUFFICES ASSUME NEW d \in [Keys -> Values \cup {Absent}],
                      \A x \in Keys : d[x] \in AllowedFor(Q, x)
               PROVE  d \in Q
    BY DEF Free
  <2>1. ASSUME NEW x \in Keys, x # k PROVE d[x] \in AllowedFor(P, x)
    <3>1. PICK c \in Q : d[x] = c[x]
      BY DEF AllowedFor
    <3>2. CASE c \in P
      BY <3>1, <3>2 DEF AllowedFor
    <3>3. CASE \E a \in P : c = [a EXCEPT ![k] = v]
      <4>1. PICK a \in P : c = [a EXCEPT ![k] = v]
        BY <3>3
      <4>2. c[x] = a[x]
        BY <2>1, <4>1
      <4> QED BY <3>1, <4>2 DEF AllowedFor
    <3> QED BY <3>1, <3>2, <3>3
  <2>2. d[k] \in AllowedFor(P, k) \/ d[k] = v
    <3>1. PICK c \in Q : d[k] = c[k]
      BY DEF AllowedFor
    <3>2. CASE c \in P
      BY <3>1, <3>2 DEF AllowedFor
    <3>3. CASE \E a \in P : c = [a EXCEPT ![k] = v]
      BY <3>1, <3>3
    <3> QED BY <3>1, <3>2, <3>3
  <2>3. CASE d[k] \in AllowedFor(P, k)
    <3>1. \A x \in Keys : d[x] \in AllowedFor(P, x)
      BY <2>1, <2>3
    <3> QED BY <1>2, <3>1 DEF Free
  <2>4. CASE d[k] = v
    <3>1. PICK a \in P : TRUE
      BY <1>2
    <3> DEFINE e == [d EXCEPT ![k] = a[k]]
    <3>2. a[k] \in AllowedFor(P, k) /\ a[k] \in Values \cup {Absent}
      BY DEF AllowedFor
    <3>3. e \in [Keys -> Values \cup {Absent}] /\ e[k] = a[k] /\ \A x \in Keys : x # k => e[x] = d[x]
      BY <3>2
    <3>4. \A x \in Keys : e[x] \in AllowedFor(P, x)
      BY <2>1, <3>2, <3>3
    <3>5. e \in P
      BY <1>2, <3>3, <3>4 DEF Free
    <3>6. [e EXCEPT ![k] = v] = d
      BY <2>4
    <3> QED BY <3>5, <3>6
  <2> QED BY <2>2, <2>3, <2>4
<1> QED
  BY <1>1, <1>2

-----------------------------------------------------------------------------
(* Writes.                                                                 *)

\* The cells c are the n cells a and the l cells x behind them.
Joined(a, n, x, l, c) ==
    /\ c \in File /\ Len(c) = n + l
    /\ \A i \in 1..n : c[i] = a[i]
    /\ \A j \in 1..l : c[n + j] = x[j]

\* That is what concatenation makes of them.
LEMMA ConcatFacts ==
    ASSUME NEW a \in File, NEW x \in File, NEW n \in Nat, n = Len(a), NEW l \in Nat, l = Len(x)
    PROVE  Joined(a, n, x, l, a \o x)
<1>1. a \o x \in File /\ Len(a \o x) = n + l
  BY DEF File
<1>2. \A i \in 1..(n + l) : (a \o x)[i] = IF i <= n THEN a[i] ELSE x[i - n]
  BY DEF File
<1>3. ASSUME NEW i \in 1..n PROVE (a \o x)[i] = a[i]
  <2>1. i \in 1..(n + l) /\ i <= n
    OBVIOUS
  <2> QED BY <1>2, <2>1
<1>4. ASSUME NEW j \in 1..l PROVE (a \o x)[n + j] = x[j]
  <2>1. n + j \in 1..(n + l) /\ ~(n + j <= n) /\ (n + j) - n = j
    OBVIOUS
  <2> QED BY <1>2, <2>1
<1> QED
  BY <1>1, <1>3, <1>4 DEF Joined

\* A cell of a stretch of cells.
LEMMA StretchFacts ==
    ASSUME NEW f \in File, NEW m \in Nat \ {0}, NEW n \in Nat, n <= Len(f),
           NEW i \in Nat \ {0}, i <= n - m + 1
    PROVE  SubSeq(f, m, n)[i] = f[m + i - 1]
  BY DEF File

\* A write changes the cells it writes.
LEMMA WriteAtFacts ==
    ASSUME file \in File, NEW o \in Nat, o <= Len(file), NEW x \in File
    PROVE  /\ WriteAt(o, x) \in File
           /\ o + Len(x) <= Len(WriteAt(o, x))
           /\ \A i \in 1..o : WriteAt(o, x)[i] = file[i]
           /\ \A j \in 1..Len(x) : WriteAt(o, x)[o + j] = x[j]
           /\ \A i \in 1..Len(WriteAt(o, x)) :
                 i > o + Len(x) => i <= Len(file) /\ WriteAt(o, x)[i] = file[i]
<1>1. PICK n \in Nat : n = Len(file)
  BY CellFacts
<1>2. PICK l \in Nat : l = Len(x)
  BY CellFacts
<1> DEFINE a == SubSeq(file, 1, o)
           t == SubSeq(file, o + l + 1, n)
<1>3. a \in File /\ Len(a) = o /\ \A i \in 1..o : a[i] = file[i]
  BY <1>1 DEF File
<1>4. t \in File
  BY <1>1 DEF File
<1>5. Len(t) = IF o + l + 1 <= n THEN n - (o + l) ELSE 0
  BY <1>1 DEF File
<1>6. \A i \in 1..Len(t) : t[i] = file[(o + l) + i]
  <2> SUFFICES ASSUME NEW i \in 1..Len(t) PROVE t[i] = file[(o + l) + i]
    OBVIOUS
  <2>1. o + l + 1 <= n /\ i \in 1..(n - (o + l))
    BY <1>1, <1>5
  <2>2. t[i] = file[(o + l + 1) + i - 1]
    <3>1. /\ o + l + 1 \in Nat \ {0} /\ i \in Nat \ {0}
          /\ n <= Len(file) /\ i <= n - (o + l + 1) + 1
      BY <1>1, <2>1
    <3> QED BY <3>1, StretchFacts
  <2>3. (o + l + 1) + i - 1 = (o + l) + i
    BY <2>1
  <2> QED BY <2>2, <2>3
<1> HIDE DEF a, t
<1> DEFINE u == a \o x
           w == u \o t
<1>7. /\ u \in File /\ Len(u) = o + l /\ (\A i \in 1..o : u[i] = a[i])
      /\ \A j \in 1..l : u[o + j] = x[j]
  <2>1. o = Len(a) /\ l = Len(x)
    BY <1>2, <1>3
  <2>2. Joined(a, o, x, l, u)
    BY Zenon, <1>3, <2>1, ConcatFacts
  <2> HIDE DEF u
  <2> QED BY <2>2 DEF Joined
<1> HIDE DEF u
<1>8. Len(t) \in Nat
  BY <1>4, CellFacts
<1>9. /\ w \in File /\ Len(w) = (o + l) + Len(t) /\ (\A i \in 1..(o + l) : w[i] = u[i])
      /\ \A j \in 1..Len(t) : w[(o + l) + j] = t[j]
  <2>1. o + l \in Nat
    OBVIOUS
  <2>2. o + l = Len(u) /\ u \in File
    BY <1>7
  <2>3. Joined(u, o + l, t, Len(t), w)
    BY Zenon, <1>4, <1>8, <2>1, <2>2, ConcatFacts
  <2> HIDE DEF w
  <2> QED BY <2>3 DEF Joined
<1>10. WriteAt(o, x) = w
  BY <1>1, <1>2 DEF WriteAt, a, t, u
<1> HIDE DEF w
<1>11. \A i \in 1..o : w[i] = file[i]
  <2>1. \A i \in 1..o : i \in 1..(o + l)
    OBVIOUS
  <2> QED BY <1>3, <1>7, <1>9, <2>1
<1>12. \A j \in 1..l : w[o + j] = x[j]
  <2>1. \A j \in 1..l : o + j \in 1..(o + l)
    OBVIOUS
  <2> QED BY <1>7, <1>9, <2>1
<1>13. ASSUME NEW i \in 1..Len(w), i > o + l PROVE i <= n /\ w[i] = file[i]
  <2>1. PICK j \in 1..Len(t) : i = (o + l) + j
    <3>1. i - (o + l) \in 1..Len(t) /\ i = (o + l) + (i - (o + l))
      BY <1>8, <1>9, <1>13
    <3> QED BY <3>1
  <2>2. w[i] = file[i]
    BY <1>6, <1>9, <2>1
  <2>3. i <= n
    BY <1>1, <1>5, <2>1
  <2> QED BY <2>2, <2>3
<1> QED
  BY <1>1, <1>2, <1>8, <1>9, <1>10, <1>11, <1>12, <1>13

\* The entry of the record that is being appended.
NewEntry == [offset |-> endOffset, frame |-> CallFrame]

\* The file after m cells of the record have been written.
Written(w, m) ==
    /\ w \in File /\ endOffset <= Len(w)
    /\ \A i \in 1..endOffset : w[i] = file[i]
    /\ \A i \in 1..Len(w) :
          \/ i <= Len(file) /\ w[i] = file[i]
          \/ \E j \in 1..m : i = endOffset + j /\ w[i] = [frame |-> CallFrame, at |-> j]

\* AppendWrite leaves the file so, with all cells of the record if it did not fail.
LEMMA AppendWriteFacts ==
    ASSUME file \in File, endOffset \in Nat, endOffset <= Len(file), CallFrame \in Frame, AppendWrite
    PROVE  \E w, m : /\ m \in 0..FrameLength(CallFrame) /\ Written(w, m)
                     /\ file' = w /\ images' = images \cup {w}
                     /\ pc' = "flush" => Placed(w, NewEntry)
                     /\ pc' \in {"flush", "idle"}
                     /\ call' = IF pc' = "flush" THEN call ELSE NoCall
<1>1. PICK n \in Nat : n = FrameLength(CallFrame)
  BY FrameFacts
<1>2. /\ Cells(CallFrame) \in File /\ Len(Cells(CallFrame)) = n
      /\ \A j \in 1..n : Cells(CallFrame)[j] = [frame |-> CallFrame, at |-> j]
  BY <1>1, CellsFacts
<1>3. ASSUME NEW x \in File, NEW m \in 0..n, Len(x) = m,
             \A j \in 1..m : x[j] = [frame |-> CallFrame, at |-> j]
      PROVE  /\ Written(WriteAt(endOffset, x), m)
             /\ m = n => Placed(WriteAt(endOffset, x), NewEntry)
  <2>1. PICK w : w = WriteAt(endOffset, x)
    OBVIOUS
  <2>2. /\ w \in File /\ endOffset + m <= Len(w)
        /\ \A i \in 1..endOffset : w[i] = file[i]
        /\ \A j \in 1..m : w[endOffset + j] = x[j]
        /\ \A i \in 1..Len(w) : i > endOffset + m => i <= Len(file) /\ w[i] = file[i]
    BY <1>3, <2>1, WriteAtFacts
  <2>3. Len(w) \in Nat /\ Len(file) \in Nat
    BY <2>2, CellFacts
  <2>4. ASSUME NEW i \in 1..Len(w)
        PROVE  \/ i <= Len(file) /\ w[i] = file[i]
               \/ \E j \in 1..m : i = endOffset + j /\ w[i] = [frame |-> CallFrame, at |-> j]
    <3>1. CASE i <= endOffset
      <4>1. i \in 1..endOffset /\ i <= Len(file)
        BY <2>3, <3>1
      <4> QED BY <2>2, <4>1
    <3>2. CASE i > endOffset + m
      BY <2>2, <3>2
    <3>3. CASE i > endOffset /\ i <= endOffset + m
      <4>1. i - endOffset \in 1..m /\ i = endOffset + (i - endOffset)
        BY <2>3, <3>3
      <4>2. PICK j \in 1..m : i = endOffset + j
        BY <4>1
      <4>3. w[i] = [frame |-> CallFrame, at |-> j]
        BY <1>3, <2>2, <4>2
      <4> QED BY <4>2, <4>3
    <3>4. i <= endOffset \/ i > endOffset + m \/ (i > endOffset /\ i <= endOffset + m)
      BY <2>3
    <3> QED BY Zenon, <3>1, <3>2, <3>3, <3>4
  <2>5. Written(w, m)
    <3>1. endOffset <= Len(w)
      BY <2>2, <2>3
    <3> QED BY Zenon, <2>2, <2>4, <3>1 DEF Written
  <2>6. ASSUME m = n PROVE Placed(w, NewEntry)
    <3> SUFFICES ASSUME NEW j \in 1..FrameLength(CallFrame)
                 PROVE  /\ endOffset + j <= Len(w)
                        /\ w[endOffset + j] = [frame |-> CallFrame, at |-> j]
      BY DEF Placed, Holds, NewEntry
    <3>1. j \in 1..m
      BY <1>1, <2>6
    <3> QED BY <1>3, <2>2, <2>3, <3>1
  <2> QED BY <2>1, <2>5, <2>6
<1>4. CASE /\ Write(WriteAt(endOffset, Cells(CallFrame)))
           /\ pc' = "flush" /\ UNCHANGED call
  <2>1. n \in 0..n
    OBVIOUS
  <2>2. /\ Written(WriteAt(endOffset, Cells(CallFrame)), n)
        /\ Placed(WriteAt(endOffset, Cells(CallFrame)), NewEntry)
    BY <1>2, <1>3, <2>1
  <2> QED BY <1>1, <1>4, <2>1, <2>2 DEF Write
<1>5. CASE \E m \in 0..(n - 1) : /\ Write(WriteAt(endOffset, SubSeq(Cells(CallFrame), 1, m)))
                                 /\ pc' = "idle" /\ call' = NoCall
  <2>1. PICK m \in 0..(n - 1) : /\ Write(WriteAt(endOffset, SubSeq(Cells(CallFrame), 1, m)))
                                /\ pc' = "idle" /\ call' = NoCall
    BY <1>5
  <2>2. m \in 0..n
    OBVIOUS
  <2>3. PICK z \in File : z = Cells(CallFrame) /\ Len(z) = n
    BY <1>2
  <2>4. /\ SubSeq(z, 1, m) \in File /\ Len(SubSeq(z, 1, m)) = m
        /\ \A j \in 1..m : SubSeq(z, 1, m)[j] = z[j]
    BY <2>2, <2>3 DEF File
  <2>5. \A j \in 1..m : z[j] = [frame |-> CallFrame, at |-> j]
    BY <1>2, <2>2, <2>3
  <2>6. PICK x \in File : x = SubSeq(Cells(CallFrame), 1, m)
    BY <2>3, <2>4
  <2>7. Len(x) = m /\ \A j \in 1..m : x[j] = [frame |-> CallFrame, at |-> j]
    BY <2>3, <2>4, <2>5, <2>6
  <2>8. Written(WriteAt(endOffset, x), m)
    BY <1>3, <2>2, <2>7
  <2> QED BY <1>1, <2>1, <2>2, <2>6, <2>8 DEF Write
<1> QED
  BY <1>1, <1>4, <1>5 DEF AppendWrite

-----------------------------------------------------------------------------
(* The inductive invariant.                                                *)

Outcomes == [Keys -> Values \cup {Absent}]

StoreTypes ==
    /\ images \subseteq File /\ file \in images
    /\ nextSequence \in Nat /\ damaged \in BOOLEAN /\ tailLeft \in BOOLEAN
    /\ possible \subseteq Outcomes
    /\ pc \in {"closed", "size", "set_length", "open_flush", "idle", "write", "flush"}
    /\ IF pc \in {"write", "flush"} THEN call \in [key : Keys, val : Values \cup {Absent}]
       ELSE call = NoCall

\* The index and the end offset are those of frames in place in the file.
Opened(c) == ChainIn(file, c) /\ index = IndexOf(c) /\ endOffset = EndOf(c)

\* No frame begins behind offset o of f.
NoStartBehind(f, o) == \A i \in 1..Len(f) : i > o + 1 => f[i].at # 1

\* While the promise holds: the acknowledged frames are on the disk, what a caller sees is
\* possible, and what Initialize would have cut off is gone.
Promise ==
    /\ Free(possible)
    /\ \E b : Base(images, possible, b) /\ (pc # "closed" => EndOf(b) <= endOffset)
    /\ pc # "closed" => Current \in possible
    /\ pc \notin {"closed", "size", "set_length"} => NoStartBehind(file, endOffset)

StoreInv ==
    /\ StoreTypes
    /\ pc # "closed" => \E c : Opened(c) /\ (~damaged => AllSmall(c))
    /\ pc = "flush" => Placed(file, NewEntry)
    /\ ~damaged => Promise

\* What a caller sees is what the frames hold that were found or appended since.
LEMMA OpenFacts ==
    ASSUME file \in File, NEW c, Opened(c)
    PROVE  /\ Chained(c) /\ endOffset \in Nat /\ endOffset <= Len(file)
           /\ Current = Contents(c) /\ Current \in Outcomes
<1>1. Chained(c) /\ ChainIn(file, c) /\ index = IndexOf(c) /\ endOffset = EndOf(c)
  BY DEF Opened, ChainIn
<1>2. Current = View(file, index)
  BY DEF Current, Get, Contains, View
<1> QED
  BY <1>1, <1>2, ChainEnds, ViewIsContents, ContentsType DEF Outcomes

\* The same after a step.
LEMMA NextOpenFacts ==
    ASSUME file' \in File, NEW c, ChainIn(file', c), index' = IndexOf(c), endOffset' = EndOf(c)
    PROVE  Current' = Contents(c) /\ Opened(c)'
<1>1. Current' = View(file', index')
  BY DEF Current, Get, Contains, View
<1> QED
  BY <1>1, ViewIsContents DEF Opened

\* The record of the call under way.
LEMMA CallFacts ==
    ASSUME StoreInv, pc \in {"write", "flush"}
    PROVE  /\ call.key \in Keys /\ call.val \in Values \cup {Absent} /\ call # NoCall
           /\ CallFrame \in Frame /\ CallFrame.key = call.key /\ CallFrame.val = call.val
           /\ endOffset \in Nat => NewEntry \in Entry
           /\ NewEntry.offset = endOffset /\ NewEntry.frame = CallFrame
<1>1. call \in [key : Keys, val : Values \cup {Absent}] /\ nextSequence \in Nat
  BY DEF StoreInv, StoreTypes
<1>2. call.key \in Keys /\ call.val \in Values \cup {Absent} /\ call # NoCall
  BY <1>1, StoreAssumption DEF NoCall
<1>3. CallFrame \in Frame /\ CallFrame.key = call.key /\ CallFrame.val = call.val
  BY <1>1, <1>2 DEF CallFrame, Frame
<1> QED
  BY <1>2, <1>3 DEF NewEntry, Entry

\* Fewer files, and one more file.
LEMMA BaseFacts ==
    ASSUME NEW F, NEW P, NEW b, Base(F, P, b)
    PROVE  /\ \A G : G \subseteq F => Base(G, P, b)
           /\ \A Q, w : /\ P \subseteq Q /\ ChainIn(w, b)
                        /\ \A i \in 1..Len(w) : i > EndOf(b) => Offered(Q, w[i])
                        => Base(F \cup {w}, Q, b)
<1>1. ASSUME NEW G, G \subseteq F PROVE Base(G, P, b)
  BY <1>1 DEF Base
<1>2. ASSUME NEW Q, NEW w, P \subseteq Q, ChainIn(w, b),
             \A i \in 1..Len(w) : i > EndOf(b) => Offered(Q, w[i])
      PROVE  Base(F \cup {w}, Q, b)
  <2>1. ASSUME NEW cell, Offered(P, cell) PROVE Offered(Q, cell)
    BY <1>2, <2>1 DEF Offered, AllowedFor
  <2> QED BY <1>2, <2>1 DEF Base
<1> QED
  BY <1>1, <1>2

-----------------------------------------------------------------------------
(* The invariant, action by action.                                        *)

\* The scan of Initialize.
LEMMA InitializeScanKeeps ==
    ASSUME StoreInv, InitializeScan
    PROVE  StoreInv'
<1>t. /\ images \subseteq File /\ file \in images /\ file \in File /\ damaged \in BOOLEAN
      /\ pc = "closed" /\ call = NoCall
  BY DEF StoreInv, StoreTypes, InitializeScan
<1>1. PICK s : s = Scan(file)
  OBVIOUS
<1>2. ChainIn(file, s) /\ AllSmall(s) /\ Chained(s) /\ Len(s) \in Nat /\ s \in Seq(Entry)
  BY <1>t, <1>1, ScanFacts, ChainFacts DEF ChainIn
<1>3. PICK n \in 0..Len(s) :
         /\ \/ n = Len(s) /\ UNCHANGED <<faults, damaged>>
            \/ damaged' = TRUE
         /\ index' = IndexOf(SubSeq(s, 1, n)) /\ endOffset' = EndOf(SubSeq(s, 1, n))
         /\ nextSequence' =
               1 + IF n = 0 THEN 0 ELSE Max({SubSeq(s, 1, n)[i].frame.seq : i \in 1..n})
  BY <1>1 DEF InitializeScan
<1>4. pc' = "size" /\ UNCHANGED <<file, images, call, tailLeft, possible>>
  BY DEF InitializeScan, fileVars
<1>5. PICK c : c = SubSeq(s, 1, n)
  OBVIOUS
<1>6. Chained(c) /\ Len(c) = n /\ (\A i \in 1..n : c[i] = s[i]) /\ EndOf(c) = EndAt(s, n)
  BY <1>2, <1>5, PrefixChain
<1>7. ChainIn(file, c) /\ AllSmall(c)
  <2>1. \A i \in 1..n : i \in 1..Len(s)
    BY <1>2
  <2> QED BY <1>2, <1>6, <2>1 DEF ChainIn, AllSmall
<1>8. Current' = Contents(c) /\ Opened(c)'
  BY <1>t, <1>3, <1>4, <1>5, <1>7, NextOpenFacts
<1>9. nextSequence' \in Nat
  <2>1. CASE n = 0
    BY <1>3, <2>1
  <2>2. CASE n # 0
    <3> DEFINE F == [i \in 1..n |-> c[i].frame.seq]
               S == {c[i].frame.seq : i \in 1..n}
    <3>1. \A i \in 1..n : c[i].frame.seq \in Nat
      <4>1. \A i \in 1..n : c[i].frame \in Frame
        BY <1>6, ChainFacts, EntryFacts
      <4> QED BY <4>1 DEF Frame
    <3>2. n \in Nat /\ 1 \in 1..n
      BY <1>2, <2>2
    <3>3. PICK u \in Nat : \A i \in 1..n : F[i] <= u
      <4>1. \A i \in 1..n : F[i] \in Nat
        BY <3>1
      <4> HIDE DEF F
      <4> QED BY <3>2, <4>1, SequenceBound
    <3>4. \A i \in 1..n : F[i] = c[i].frame.seq
      OBVIOUS
    <3>5. S \subseteq Nat /\ S # {} /\ \A y \in S : y <= u
      <4> HIDE DEF F
      <4> QED BY <3>1, <3>2, <3>3, <3>4
    <3>6. Max(S) \in Nat
      <4> HIDE DEF S
      <4> QED BY <3>5, MaxFacts
    <3>7. nextSequence' = 1 + Max(S)
      BY <1>3, <1>5, <2>2
    <3> HIDE DEF S
    <3> QED BY <3>6, <3>7
  <2> QED BY <2>1, <2>2
<1>10. StoreTypes'
  BY <1>t, <1>3, <1>4, <1>9 DEF StoreInv, StoreTypes
<1>11. ASSUME ~damaged' PROVE Promise'
  <2>1. n = Len(s) /\ ~damaged
    BY <1>t, <1>3, <1>11
  <2>2. c = s
    BY <1>2, <1>5, <2>1
  <2>3. PICK b : Base(images, possible, b)
    BY <2>1 DEF StoreInv, Promise
  <2>4. Free(possible) /\ Base({file}, possible, b)
    <3>1. {file} \subseteq images
      BY <1>t
    <3> QED BY <2>1, <2>3, <3>1, BaseFacts DEF StoreInv, Promise
  <2>5. Contents(c) \in possible /\ EndOf(b) <= EndOf(c)
    BY <1>t, <1>1, <2>2, <2>4, BaseScan
  <2>6. Base(images', possible', b) /\ EndOf(b) <= endOffset'
    BY <1>3, <1>4, <1>5, <2>3, <2>5
  <2> QED BY <1>4, <1>8, <2>4, <2>5, <2>6 DEF Promise
<1> QED
  BY <1>4, <1>7, <1>8, <1>10, <1>11 DEF StoreInv

\* The store object is gone, and the files are a part of what they were.
LEMMA ClosedFacts ==
    ASSUME StoreInv, pc' = "closed", call' = NoCall, nextSequence' = 0, tailLeft' \in BOOLEAN,
           UNCHANGED <<file, images, damaged, possible>>
    PROVE  StoreInv'
<1>1. StoreTypes'
  BY DEF StoreInv, StoreTypes
<1>2. ~damaged' => Promise'
  BY DEF StoreInv, Promise
<1> QED
  BY <1>1, <1>2 DEF StoreInv

\* The size of the file is compared with the end of what was found.
LEMMA InitializeSizeKeeps ==
    ASSUME StoreInv, InitializeSize
    PROVE  StoreInv'
<1>t. /\ images \subseteq File /\ file \in images /\ file \in File /\ pc = "size"
      /\ damaged \in BOOLEAN /\ tailLeft \in BOOLEAN /\ call = NoCall
  BY DEF StoreInv, StoreTypes, InitializeSize
<1>1. /\ UNCHANGED <<file, images, index, endOffset, nextSequence, call, possible>>
      /\ pc' \in {"idle", "set_length"}
      /\ damaged' \in BOOLEAN /\ tailLeft' \in BOOLEAN /\ (~damaged' => ~damaged)
      /\ pc' = "idle" /\ ~damaged' => Len(file) = endOffset
  BY <1>t DEF InitializeSize, fileVars, memory
<1>2. PICK c : Opened(c) /\ (~damaged => AllSmall(c))
  BY <1>t DEF StoreInv
<1>3. endOffset \in Nat /\ Current' = Contents(c) /\ Current = Contents(c) /\ Opened(c)'
  BY <1>t, <1>1, <1>2, OpenFacts, NextOpenFacts DEF Opened
<1>4. StoreTypes'
  BY <1>t, <1>1 DEF StoreInv, StoreTypes
<1>5. ASSUME ~damaged' PROVE Promise'
  <2>1. Promise
    BY <1>1, <1>5 DEF StoreInv
  <2>2. pc' = "idle" => NoStartBehind(file, endOffset)
    <3> SUFFICES ASSUME Len(file) = endOffset, NEW i \in 1..Len(file) PROVE ~(i > endOffset + 1)
      BY <1>1, <1>5 DEF NoStartBehind
    <3> QED BY <1>3
  <2> QED BY <1>t, <1>1, <1>3, <2>1, <2>2 DEF Promise
<1> QED
  BY <1>1, <1>2, <1>3, <1>4, <1>5 DEF StoreInv

\* The beginning of a file.
LEMMA CutFacts ==
    ASSUME NEW f \in File, NEW o \in Nat, o <= Len(f)
    PROVE  /\ SubSeq(f, 1, o) \in File /\ Len(SubSeq(f, 1, o)) = o
           /\ \A i \in 1..o : SubSeq(f, 1, o)[i] = f[i]
<1>1. SubSeq(f, 1, o) \in File
  BY DEF File
<1>2. Len(SubSeq(f, 1, o)) = o
  BY DEF File
<1>3. ASSUME NEW i \in 1..o PROVE SubSeq(f, 1, o)[i] = f[i]
  <2>1. 1 \in Nat \ {0} /\ i \in Nat \ {0} /\ i <= o - 1 + 1 /\ 1 + i - 1 = i
    OBVIOUS
  <2>2. SubSeq(f, 1, o)[i] = f[1 + i - 1]
    BY <2>1, StretchFacts
  <2> QED BY <2>1, <2>2
<1> QED
  BY <1>1, <1>2, <1>3

\* What follows the last valid frame is cut off.
LEMMA InitializeSetLengthKeeps ==
    ASSUME StoreInv, InitializeSetLength
    PROVE  StoreInv'
<1>t. /\ images \subseteq File /\ file \in images /\ file \in File /\ pc = "set_length"
      /\ damaged \in BOOLEAN /\ tailLeft \in BOOLEAN /\ call = NoCall
  BY DEF StoreInv, StoreTypes, InitializeSetLength
<1>1. CASE Fault /\ pc' = "closed" /\ Forget /\ UNCHANGED fileVars
  <2>1. UNCHANGED <<file, images, damaged, possible, tailLeft>>
    BY <1>1 DEF InitializeSetLength, ghosts, fileVars
  <2> QED BY <1>t, <1>1, <2>1, ClosedFacts DEF Forget
<1>2. CASE Write(SubSeq(file, 1, endOffset)) /\ pc' = "open_flush" /\ UNCHANGED <<memory, call>>
  <2>1. PICK c : Opened(c) /\ (~damaged => AllSmall(c))
    BY <1>t DEF StoreInv
  <2>2. /\ endOffset \in Nat /\ endOffset <= Len(file) /\ Current = Contents(c)
        /\ ChainIn(file, c) /\ endOffset = EndOf(c) /\ index = IndexOf(c)
    BY <1>t, <2>1, OpenFacts DEF Opened
  <2>3. PICK w : w = SubSeq(file, 1, endOffset)
    OBVIOUS
  <2>4. w \in File /\ Len(w) = endOffset /\ \A i \in 1..endOffset : w[i] = file[i]
    BY <1>t, <2>2, <2>3, CutFacts
  <2>5. /\ file' = w /\ images' = images \cup {w}
        /\ UNCHANGED <<index, endOffset, nextSequence, call, damaged, tailLeft, possible>>
    BY <1>2, <2>3 DEF Write, InitializeSetLength, memory, ghosts
  <2>6. ASSUME NEW d, ChainIn(file, d), EndOf(d) <= endOffset PROVE ChainIn(w, d)
    <3>1. endOffset <= Len(w)
      BY <2>2, <2>4
    <3> QED BY <1>t, <2>2, <2>4, <2>6, <3>1, ChainKept
  <2>7. ChainIn(w, c)
    BY <2>2, <2>6
  <2>8. Current' = Contents(c) /\ Opened(c)'
    BY <2>2, <2>4, <2>5, <2>7, NextOpenFacts
  <2>9. StoreTypes'
    BY <1>t, <1>2, <2>4, <2>5 DEF StoreInv, StoreTypes
  <2>10. ASSUME ~damaged' PROVE Promise'
    <3>1. Promise
      BY <2>5, <2>10 DEF StoreInv
    <3>2. PICK b : Base(images, possible, b) /\ EndOf(b) <= endOffset
      BY <1>t, <3>1 DEF Promise
    <3>3. ChainIn(w, b)
      BY <1>t, <2>6, <3>2 DEF Base
    <3>4. \A i \in 1..Len(w) : i > EndOf(b) => Offered(possible, w[i])
      <4>1. \A i \in 1..Len(w) : i \in 1..Len(file) /\ w[i] = file[i]
        BY <2>2, <2>4, <1>t, CellFacts
      <4> QED BY <1>t, <3>2, <4>1 DEF Base
    <3>5. Base(images \cup {w}, possible, b)
      BY <3>2, <3>3, <3>4, BaseFacts
    <3>6. NoStartBehind(w, endOffset)
      BY <2>2, <2>4 DEF NoStartBehind
    <3>7. Current \in possible /\ Free(possible)
      BY <1>t, <3>1 DEF Promise
    <3> QED BY <1>2, <2>2, <2>5, <2>8, <3>2, <3>5, <3>6, <3>7 DEF Promise
  <2> QED BY <1>2, <2>1, <2>5, <2>8, <2>9, <2>10 DEF StoreInv
<1> QED
  BY <1>1, <1>2 DEF InitializeSetLength

\* The cut is flushed.
LEMMA InitializeFlushKeeps ==
    ASSUME StoreInv, InitializeFlush
    PROVE  StoreInv'
<1>t. /\ images \subseteq File /\ file \in images /\ file \in File /\ pc = "open_flush"
      /\ damaged \in BOOLEAN /\ tailLeft \in BOOLEAN /\ call = NoCall
  BY DEF StoreInv, StoreTypes, InitializeFlush
<1>1. CASE Fault /\ pc' = "closed" /\ Forget /\ tailLeft' = TRUE /\ UNCHANGED fileVars
  <2>1. UNCHANGED <<file, images, damaged, possible>>
    BY <1>1 DEF InitializeFlush, fileVars
  <2> QED BY <1>t, <1>1, <2>1, ClosedFacts DEF Forget
<1>2. CASE FlushDurable /\ pc' = "idle" /\ UNCHANGED <<memory, call, tailLeft, faults>>
  <2>1. /\ images' = {file}
        /\ UNCHANGED <<file, index, endOffset, nextSequence, call, damaged, tailLeft, possible>>
    BY <1>2 DEF FlushDurable, InitializeFlush, memory
  <2>2. PICK c : Opened(c) /\ (~damaged => AllSmall(c))
    BY <1>t DEF StoreInv
  <2>3. Current' = Contents(c) /\ Current = Contents(c) /\ Opened(c)'
    BY <1>t, <2>1, <2>2, OpenFacts, NextOpenFacts DEF Opened
  <2>4. StoreTypes'
    BY <1>t, <1>2, <2>1 DEF StoreInv, StoreTypes
  <2>5. ASSUME ~damaged' PROVE Promise'
    <3>1. Promise
      BY <2>1, <2>5 DEF StoreInv
    <3>2. PICK b : Base(images, possible, b) /\ EndOf(b) <= endOffset
      BY <1>t, <3>1 DEF Promise
    <3>3. Base({file}, possible, b)
      BY <1>t, <3>2, BaseFacts
    <3> QED BY <1>t, <1>2, <2>1, <2>3, <3>1, <3>2, <3>3 DEF Promise
  <2> QED BY <1>2, <2>1, <2>2, <2>3, <2>4, <2>5 DEF StoreInv
<1> QED
  BY <1>1, <1>2 DEF InitializeFlush

\* A call begins.
LEMMA BeginKeeps ==
    ASSUME StoreInv, pc = "idle", NEW k \in Keys, NEW v \in Values \cup {Absent}, Begin(k, v)
    PROVE  StoreInv' /\ UNCHANGED Current
<1>t. /\ images \subseteq File /\ file \in images /\ file \in File
  BY DEF StoreInv, StoreTypes
<1>1. /\ pc' = "write" /\ call' = [key |-> k, val |-> v]
      /\ UNCHANGED <<file, images, index, endOffset, nextSequence, damaged, tailLeft, possible>>
  BY DEF Begin, fileVars, memory, ghosts
<1>2. PICK c : Opened(c) /\ (~damaged => AllSmall(c))
  BY DEF StoreInv
<1>3. Current' = Contents(c) /\ Current = Contents(c) /\ Opened(c)'
  BY <1>t, <1>1, <1>2, OpenFacts, NextOpenFacts DEF Opened
<1>4. StoreTypes'
  BY <1>1 DEF StoreInv, StoreTypes
<1>5. ~damaged' => Promise'
  BY <1>1, <1>3 DEF StoreInv, Promise
<1> QED
  BY <1>1, <1>2, <1>3, <1>4, <1>5 DEF StoreInv

\* The process ends, alone or with the power.
LEMMA EndKeeps ==
    ASSUME StoreInv, ProcessExit \/ PowerCut
    PROVE  StoreInv'
<1>t. /\ images \subseteq File /\ file \in images /\ file \in File
      /\ damaged \in BOOLEAN /\ tailLeft \in BOOLEAN
  BY DEF StoreInv, StoreTypes
<1>1. /\ pc' = "closed" /\ call' = NoCall /\ nextSequence' = 0 /\ tailLeft' \in BOOLEAN
      /\ UNCHANGED <<damaged, possible>>
  BY <1>t DEF ProcessExit, PowerCut, End, Forget
<1>2. CASE ProcessExit
  BY <1>1, <1>2, ClosedFacts DEF ProcessExit, fileVars
<1>3. CASE PowerCut
  <2>1. PICK f \in Survivors : file' = f /\ images' = {f}
    BY <1>3 DEF PowerCut
  <2>2. Mix(f) /\ f \in File
    BY <1>t, SurvivorFacts DEF Mix
  <2>3. StoreTypes'
    BY <1>1, <2>1, <2>2 DEF StoreInv, StoreTypes
  <2>4. ASSUME ~damaged' PROVE Promise'
    <3>1. PICK b : Base(images, possible, b) /\ Free(possible)
      BY <1>1, <2>4 DEF StoreInv, Promise
    <3>2. Base({f}, possible, b)
      BY <1>t, <2>2, <3>1, MixBase
    <3> QED BY <1>1, <2>1, <3>1, <3>2 DEF Promise
  <2> QED BY <1>1, <2>3, <2>4 DEF StoreInv
<1> QED
  BY <1>2, <1>3

\* The record is written, or a part of it: what a caller sees does not change, and the
\* operation may have happened from now on.
LEMMA AppendWriteKeeps ==
    ASSUME StoreInv, AppendWrite
    PROVE  StoreInv' /\ UNCHANGED Current
<1>t. /\ images \subseteq File /\ file \in images /\ file \in File /\ pc = "write"
      /\ damaged \in BOOLEAN /\ possible \subseteq Outcomes
  BY DEF StoreInv, StoreTypes, AppendWrite
<1>0. /\ call.key \in Keys /\ call.val \in Values \cup {Absent}
      /\ CallFrame \in Frame /\ CallFrame.key = call.key /\ CallFrame.val = call.val
  BY <1>t, CallFacts
<1>1. PICK c : Opened(c) /\ (~damaged => AllSmall(c))
  BY <1>t DEF StoreInv
<1>2. /\ endOffset \in Nat /\ endOffset <= Len(file) /\ Current = Contents(c) /\ Current \in Outcomes
      /\ ChainIn(file, c) /\ endOffset = EndOf(c) /\ index = IndexOf(c)
  BY <1>t, <1>1, OpenFacts DEF Opened
<1>3. PICK w, m : /\ m \in 0..FrameLength(CallFrame) /\ Written(w, m)
                  /\ file' = w /\ images' = images \cup {w}
                  /\ pc' = "flush" => Placed(w, NewEntry)
                  /\ pc' \in {"flush", "idle"}
                  /\ call' = IF pc' = "flush" THEN call ELSE NoCall
  BY <1>t, <1>0, <1>2, AppendWriteFacts
<1>4. UNCHANGED <<index, endOffset, nextSequence, damaged, tailLeft>>
  BY DEF AppendWrite, memory
<1>5. /\ w \in File /\ endOffset <= Len(w) /\ \A i \in 1..endOffset : w[i] = file[i]
  BY <1>3 DEF Written
<1>6. ASSUME NEW d, ChainIn(file, d), EndOf(d) <= endOffset PROVE ChainIn(w, d)
  BY <1>t, <1>2, <1>5, <1>6, ChainKept
<1>7. Current' = Contents(c) /\ Opened(c)'
  <2>1. ChainIn(w, c)
    BY <1>2, <1>6
  <2> QED BY <1>2, <1>3, <1>4, <1>5, <2>1, NextOpenFacts
<1> DEFINE Apply(d) == [d EXCEPT ![call.key] = call.val]
<1>8. possible' = possible \cup {Apply(d) : d \in possible \cup {Current}}
  BY DEF AppendWrite
<1>9. possible' \subseteq Outcomes
  <2>1. \A d \in Outcomes : Apply(d) \in Outcomes
    BY <1>0 DEF Outcomes
  <2> HIDE DEF Apply
  <2> QED BY <1>t, <1>2, <1>8, <2>1
<1>10. StoreTypes'
  <2>1. IF pc' \in {"write", "flush"} THEN call' \in [key : Keys, val : Values \cup {Absent}]
        ELSE call' = NoCall
    BY <1>t, <1>3 DEF StoreInv, StoreTypes
  <2>2. images' \subseteq File /\ file' \in images'
    BY <1>t, <1>3, <1>5
  <2> QED BY <1>3, <1>4, <1>9, <2>1, <2>2 DEF StoreInv, StoreTypes
<1>11. pc' = "flush" => Placed(file', NewEntry')
  BY <1>3, <1>4 DEF NewEntry, CallFrame
<1>12. ASSUME ~damaged' PROVE Promise'
  <2>1. Promise
    BY <1>4, <1>12 DEF StoreInv
  <2>2. Free(possible) /\ Current \in possible /\ NoStartBehind(file, endOffset)
    BY <1>t, <2>1 DEF Promise
  <2>3. possible' = possible \cup {[d EXCEPT ![call.key] = call.val] : d \in possible}
    <3>1. possible \cup {Current} = possible
      BY <2>2
    <3> QED BY <1>8, <3>1
  <2>4. Free(possible')
    <3>1. possible \in SUBSET [Keys -> Values \cup {Absent}] /\ possible # {}
      BY <1>t, <2>2 DEF Outcomes
    <3> QED BY <1>0, <2>2, <2>3, <3>1, FreeFacts
  <2>5. PICK b : Base(images, possible, b) /\ EndOf(b) <= endOffset
    BY <1>t, <2>1 DEF Promise
  <2>6. ChainIn(w, b)
    BY <1>t, <1>6, <2>5 DEF Base
  <2>7. call.val \in AllowedFor(possible', call.key)
    <3>1. Apply(Current) \in possible'
      BY <1>8
    <3>2. Apply(Current)[call.key] = call.val
      BY <1>0, <1>2 DEF Outcomes
    <3> HIDE DEF Apply
    <3> QED BY <3>1, <3>2 DEF AllowedFor
  <2>8. ASSUME NEW i \in 1..Len(w), i > EndOf(b) PROVE Offered(possible', w[i])
    <3>1. CASE i <= Len(file) /\ w[i] = file[i]
      <4>1. i \in 1..Len(file)
        BY <1>t, <3>1, CellFacts
      <4>2. Offered(possible, file[i])
        BY <1>t, <2>5, <2>8, <4>1 DEF Base
      <4>3. possible \subseteq possible'
        BY <1>8
      <4> QED BY <3>1, <4>2, <4>3 DEF Offered, AllowedFor
    <3>2. CASE \E j \in 1..m : i = endOffset + j /\ w[i] = [frame |-> CallFrame, at |-> j]
      <4>1. w[i].frame = CallFrame
        BY <3>2
      <4> QED BY <1>0, <2>7, <4>1 DEF Offered
    <3> QED BY <1>3, <3>1, <3>2 DEF Written
  <2>9. Base(images', possible', b)
    <3>1. possible \subseteq possible'
      BY <1>8
    <3> QED BY <1>3, <2>5, <2>6, <2>8, <3>1, BaseFacts
  <2>10. NoStartBehind(w, endOffset)
    <3> SUFFICES ASSUME NEW i \in 1..Len(w), i > endOffset + 1 PROVE w[i].at # 1
      BY DEF NoStartBehind
    <3>1. CASE i <= Len(file) /\ w[i] = file[i]
      <4>1. i \in 1..Len(file)
        BY <1>t, <3>1, CellFacts
      <4> QED BY <2>2, <3>1, <4>1 DEF NoStartBehind
    <3>2. CASE \E j \in 1..m : i = endOffset + j /\ w[i] = [frame |-> CallFrame, at |-> j]
      <4>1. PICK j \in 1..m : i = endOffset + j /\ w[i] = [frame |-> CallFrame, at |-> j]
        BY <3>2
      <4>2. w[i].at = j /\ j > 1
        BY <1>2, <4>1
      <4> QED BY <4>2
    <3> QED BY <1>3, <3>1, <3>2 DEF Written
  <2>11. Current' \in possible'
    BY <1>2, <1>7, <1>8, <2>2
  <2> QED BY <1>3, <1>4, <2>4, <2>5, <2>9, <2>10, <2>11 DEF Promise
<1> QED
  BY <1>1, <1>2, <1>3, <1>4, <1>7, <1>10, <1>11, <1>12 DEF StoreInv

\* The record is flushed and indexed: then a caller sees the operation, and it is all that
\* is possible.
LEMMA AppendFlushKeeps ==
    ASSUME StoreInv, AppendFlush
    PROVE  /\ StoreInv'
           /\ \/ Current' = Applied /\ possible' = {Applied} /\ images' = {file}
              \/ UNCHANGED <<Current, possible, images>>
           /\ damaged => damaged'
<1>t. /\ images \subseteq File /\ file \in images /\ file \in File /\ pc = "flush"
      /\ damaged \in BOOLEAN /\ possible \subseteq Outcomes /\ nextSequence \in Nat
  BY DEF StoreInv, StoreTypes, AppendFlush
<1>0. /\ call.key \in Keys /\ call.val \in Values \cup {Absent}
      /\ CallFrame \in Frame /\ CallFrame.key = call.key /\ CallFrame.val = call.val
      /\ NewEntry.offset = endOffset /\ NewEntry.frame = CallFrame
  BY <1>t, CallFacts
<1>1. PICK c : Opened(c) /\ (~damaged => AllSmall(c))
  BY <1>t DEF StoreInv
<1>2. /\ endOffset \in Nat /\ endOffset <= Len(file) /\ Current = Contents(c) /\ Current \in Outcomes
      /\ ChainIn(file, c) /\ endOffset = EndOf(c) /\ index = IndexOf(c) /\ Chained(c)
  BY <1>t, <1>1, OpenFacts DEF Opened
<1>3. pc' = "idle" /\ call' = NoCall /\ UNCHANGED <<file, tailLeft>>
  BY DEF AppendFlush, FlushDurable, fileVars
<1>4. CASE Fault /\ UNCHANGED <<fileVars, memory, possible, damaged>>
  <2>1. UNCHANGED <<file, images, index, endOffset, nextSequence, possible, damaged>>
    BY <1>4 DEF fileVars, memory
  <2>2. Current' = Contents(c) /\ Opened(c)'
    BY <1>t, <1>2, <2>1, NextOpenFacts
  <2>3. StoreTypes'
    BY <1>3, <2>1 DEF StoreInv, StoreTypes
  <2>4. ~damaged' => Promise'
    BY <1>t, <1>2, <1>3, <2>1, <2>2 DEF StoreInv, Promise
  <2>5. StoreInv'
    BY <1>1, <1>3, <2>1, <2>2, <2>3, <2>4 DEF StoreInv
  <2> QED BY <1>2, <2>1, <2>2, <2>5
<1>5. CASE /\ FlushDurable
           /\ index' = [index EXCEPT ![call.key] =
                           [offset |-> endOffset, tombstone |-> call.val = Absent]]
           /\ endOffset' = endOffset + FrameLength(CallFrame)
           /\ nextSequence' = nextSequence + 1
           /\ possible' = {Applied}
           /\ damaged' = (damaged \/ ValueLength(call.val) > MaxReasonableLength)
  <2>1. PICK e \in Entry : /\ e = NewEntry /\ Placed(file, e)
                           /\ e.offset = endOffset /\ e.frame = CallFrame
    BY <1>t, <1>0, <1>2, CallFacts DEF StoreInv
  <2>2. PICK d : d = Append(c, e)
    OBVIOUS
  <2>3. /\ Chained(d) /\ Len(d) = Len(c) + 1 /\ Len(c) \in Nat
        /\ \A i \in 1..Len(c) : d[i] = c[i]
        /\ d[Len(c) + 1] = e /\ EndOf(d) = EndOfEntry(e)
    BY <1>2, <2>1, <2>2, AppendChain, ChainFacts
  <2>4. ChainIn(file, d)
    <3>1. \A i \in 1..Len(d) : i \in 1..Len(c) \/ i = Len(c) + 1
      BY <2>3
    <3> QED BY <1>2, <2>1, <2>3, <3>1 DEF ChainIn
  <2>5. /\ Contents(d) = [Contents(c) EXCEPT ![e.frame.key] = e.frame.val]
        /\ IndexOf(d) = [IndexOf(c) EXCEPT ![e.frame.key] = Indexed(e)]
    BY <1>0, <1>2, <2>1, <2>2, ContentsAppend
  <2>6. Contents(d) = Applied
    BY <1>0, <1>2, <2>1, <2>5 DEF Applied
  <2>7. index' = IndexOf(d)
    <3>1. Indexed(e) = [offset |-> endOffset, tombstone |-> call.val = Absent]
      BY <1>0, <2>1 DEF Indexed
    <3> QED BY <1>0, <1>2, <1>5, <2>1, <2>5, <3>1
  <2>8. endOffset' = EndOf(d)
    BY <1>5, <2>1, <2>3 DEF EndOfEntry
  <2>9. Current' = Contents(d) /\ Opened(d)'
    BY <1>t, <1>3, <2>4, <2>7, <2>8, NextOpenFacts
  <2>10. damaged' \in BOOLEAN /\ (~damaged' => ~damaged /\ Small(e))
    <3>1. ~damaged' => ~damaged /\ ~(ValueLength(call.val) > MaxReasonableLength)
      BY <1>t, <1>5
    <3>2. ValueLength(call.val) \in Nat
      BY <1>0, FrameFacts
    <3>3. ~(ValueLength(call.val) > MaxReasonableLength) => Small(e)
      BY <1>0, <2>1, <3>2, StoreAssumption DEF Small
    <3> QED BY <1>5, <3>1, <3>3
  <2>11. ~damaged' => AllSmall(d)
    <3>1. \A i \in 1..Len(d) : i \in 1..Len(c) \/ i = Len(c) + 1
      BY <2>3
    <3> QED BY <1>1, <2>3, <2>10, <3>1 DEF AllSmall
  <2>12. images' = {file} /\ nextSequence' \in Nat
    BY <1>t, <1>5 DEF FlushDurable
  <2>13. Applied \in Outcomes
    BY <2>3, <2>6, ContentsType DEF Outcomes
  <2>14. StoreTypes'
    BY <1>t, <1>3, <1>5, <2>10, <2>12, <2>13 DEF StoreInv, StoreTypes
  <2>15. ASSUME ~damaged' PROVE Promise'
    <3>1. NoStartBehind(file, endOffset)
      BY <1>t, <2>10, <2>15 DEF StoreInv, Promise
    <3>2. EndOf(d) \in Nat /\ EndOf(d) > endOffset
      BY <2>1, <2>3, EntryFacts
    <3>3. ASSUME NEW i \in 1..Len(file), i > EndOf(d) PROVE file[i].at # 1
      <4>1. i > endOffset + 1
        BY <1>2, <3>2, <3>3
      <4> QED BY <3>1, <4>1 DEF NoStartBehind
    <3>4. Base({file}, {Applied}, d)
      BY <2>3, <2>4, <2>6, <2>11, <2>15, <3>3 DEF Base, Offered
    <3>5. NoStartBehind(file, EndOf(d))
      <4>1. \A i \in 1..Len(file) : i > EndOf(d) + 1 => i > EndOf(d)
        BY <3>2
      <4> QED BY <3>3, <4>1 DEF NoStartBehind
    <3>6. Free({Applied})
      BY <2>13, FreeFacts DEF Outcomes
    <3>7. EndOf(d) <= endOffset'
      BY <2>8, <3>2
    <3> QED BY <1>3, <1>5, <2>6, <2>8, <2>9, <2>12, <3>4, <3>5, <3>6, <3>7 DEF Promise
  <2>16. StoreInv'
    BY <1>3, <2>9, <2>11, <2>14, <2>15 DEF StoreInv
  <2>17. damaged => damaged'
    BY <1>5
  <2> QED BY <1>5, <2>6, <2>9, <2>12, <2>16, <2>17
<1> QED
  BY <1>4, <1>5 DEF AppendFlush

-----------------------------------------------------------------------------
(* The invariant holds.                                                    *)

\* A new store.
LEMMA InitStore ==
    ASSUME Init
    PROVE  StoreInv
<1>1. /\ file = <<>> /\ images = {<<>>} /\ nextSequence = 0 /\ pc = "closed" /\ call = NoCall
      /\ damaged = FALSE /\ tailLeft = FALSE /\ possible = {Nothing}
  BY DEF Init
<1>2. <<>> \in File /\ Len(<<>>) = 0 /\ 1..0 = {}
  BY DEF File
<1>3. Nothing \in Outcomes
  BY DEF Nothing, Outcomes
<1>4. StoreTypes
  BY <1>1, <1>2, <1>3 DEF StoreTypes
<1>5. Base({<<>>}, {Nothing}, <<>>)
  BY <1>2, EmptyChain DEF Base, ChainIn, AllSmall
<1>6. Free({Nothing})
  BY <1>3, FreeFacts DEF Outcomes
<1> QED
  BY <1>1, <1>4, <1>5, <1>6 DEF StoreInv, Promise

\* A step changes nothing.
LEMMA StutterKeeps ==
    ASSUME StoreInv, UNCHANGED vars
    PROVE  StoreInv' /\ UNCHANGED Current
<1>1. UNCHANGED <<file, images, index, endOffset, nextSequence, pc, call, damaged, tailLeft, possible>>
  BY DEF vars, fileVars, memory, ghosts
<1>2. UNCHANGED Current
  BY <1>1 DEF Current, Get, Contains
<1>3. UNCHANGED StoreTypes /\ UNCHANGED Promise
  BY <1>1, <1>2 DEF StoreTypes, Promise
<1>4. \A c : Opened(c)' <=> Opened(c)
  BY <1>1 DEF Opened
<1>5. UNCHANGED NewEntry
  BY <1>1 DEF NewEntry, CallFrame
<1> QED
  BY <1>1, <1>2, <1>3, <1>4, <1>5 DEF StoreInv

\* Every step keeps it.
LEMMA StepKeeps ==
    ASSUME StoreInv, [Next]_vars
    PROVE  StoreInv'
<1>1. CASE UNCHANGED vars \/ AtRest
  BY <1>1, StutterKeeps DEF AtRest
<1>2. CASE \E k \in Keys : Remove(k) \/ \E v \in Values : Put(k, v)
  <2>1. PICK k \in Keys, v \in Values \cup {Absent} : pc = "idle" /\ Begin(k, v)
    BY <1>2 DEF Remove, Put
  <2> QED BY <2>1, BeginKeeps
<1> QED
  BY <1>1, <1>2, InitializeScanKeeps, InitializeSizeKeeps, InitializeSetLengthKeeps,
     InitializeFlushKeeps, AppendWriteKeeps, AppendFlushKeeps, EndKeeps DEF Next

\* The invariant of the store: the index is that of frames in place in the file, and while
\* the promise holds the acknowledged frames are on the disk in every order the writes since
\* the last flush may have reached it, every frame that may begin behind them belongs to an
\* operation that may have happened, and Get tells one of the possible contents.
THEOREM StoreInvHolds == Spec => []StoreInv
<1>1. Init => StoreInv
  BY InitStore
<1>2. StoreInv /\ [Next]_vars => StoreInv'
  BY StepKeeps
<1> QED
  BY <1>1, <1>2, PTL DEF Spec

-----------------------------------------------------------------------------
(* The store implements KeyValueStore.                                     *)

\* What a caller sees, and nothing while the store is closed.
Seen == IF Initialized THEN Current ELSE Nothing

\* A store that is not open has no call under way.
LEMMA ShutStore ==
    ASSUME StoreTypes
    PROVE  /\ ~Initialized => call = NoCall /\ Seen = Nothing
           /\ pc = "idle" => call = NoCall /\ Seen = Current
           /\ pc \in {"write", "flush"} => Initialized /\ Seen = Current
BY DEF StoreTypes, Initialized, Seen

\* A step that leaves the store closed, or closes it.
LEMMA MapsToClose ==
    ASSUME StoreTypes', ~Initialized', UNCHANGED possible, damaged => damaged'
    PROVE  KVS!Next
<1>1. call' = NoCall /\ Seen' = Nothing
  BY DEF StoreTypes, Initialized, Seen
<1>2. KVS!NoCall = NoCall /\ KVS!Nothing = Nothing
  BY DEF KVS!NoCall, NoCall, KVS!Nothing, Nothing
<1>3. KVS!Close
  BY <1>1, <1>2 DEF KVS!Close, Seen
<1> QED
  BY <1>3 DEF KVS!Next

\* A step that opens the store.
LEMMA MapsToOpen ==
    ASSUME StoreInv, StoreInv', ~Initialized, pc' = "idle",
           UNCHANGED possible, damaged => damaged'
    PROVE  KVS!Next
<1>1. Initialized' /\ Seen' = Current' /\ UNCHANGED call
  BY DEF StoreInv, StoreTypes, Initialized, Seen
<1>2. damaged' \/ Current' \in possible
  BY DEF StoreInv, Promise
<1>3. KVS!Open
  BY <1>1, <1>2 DEF KVS!Open, Seen
<1> QED
  BY <1>3 DEF KVS!Next

\* A call begins.
LEMMA MapsToBegin ==
    ASSUME StoreInv, pc = "idle", NEW k \in Keys, NEW v \in Values \cup {Absent}, Begin(k, v)
    PROVE  KVS!Next
<1>1. StoreInv' /\ UNCHANGED Current
  BY BeginKeeps
<1>2. pc' = "write" /\ call' = [key |-> k, val |-> v] /\ UNCHANGED <<possible, damaged>>
  BY DEF Begin, ghosts
<1>3. call = NoCall
  BY DEF StoreInv, StoreTypes
<1>4. Initialized /\ Initialized' /\ UNCHANGED Seen
  BY <1>1, <1>2 DEF Initialized, Seen
<1>5. \E op \in KVS!Operations : call' = op
  BY <1>2 DEF KVS!Operations
<1>6. KVS!NoCall = NoCall
  BY DEF KVS!NoCall, NoCall
<1>7. KVS!Begin
  BY <1>2, <1>3, <1>4, <1>5, <1>6 DEF KVS!Begin, Seen
<1> QED
  BY <1>2, <1>7 DEF KVS!Next

\* The record is written: the operation is attempted.
LEMMA MapsToAttempt ==
    ASSUME StoreInv, AppendWrite
    PROVE  KVS!Next
<1>1. StoreInv' /\ UNCHANGED Current
  BY AppendWriteKeeps
<1>2. pc = "write" /\ call # NoCall
  BY CallFacts DEF AppendWrite
<1>3. pc' \in {"flush", "idle"} /\ call' \in {call, NoCall} /\ UNCHANGED damaged
  BY DEF AppendWrite
<1>4. Initialized /\ Initialized' /\ Seen = Current /\ Seen' = Current'
  BY <1>2, <1>3 DEF Initialized, Seen
<1>5. possible' = possible \cup {KVS!Apply(c) : c \in possible \cup {Seen}}
  BY <1>4 DEF AppendWrite, KVS!Apply
<1>6. KVS!NoCall = NoCall
  BY DEF KVS!NoCall, NoCall
<1>7. KVS!Attempt
  BY <1>1, <1>2, <1>3, <1>4, <1>5, <1>6 DEF KVS!Attempt, Seen
<1> QED
  BY <1>3, <1>7 DEF KVS!Next

\* The flush: the operation succeeds, or fails.
LEMMA MapsToOutcome ==
    ASSUME StoreInv, AppendFlush
    PROVE  KVS!Next
<1>1. /\ StoreInv'
      /\ \/ Current' = Applied /\ possible' = {Applied}
         \/ UNCHANGED <<Current, possible>>
      /\ damaged => damaged'
  BY AppendFlushKeeps
<1>2. pc = "flush" /\ pc' = "idle" /\ call # NoCall /\ call' = NoCall
  BY CallFacts DEF AppendFlush
<1>3. Initialized /\ Initialized' /\ Seen = Current /\ Seen' = Current'
  BY <1>2 DEF Initialized, Seen
<1>4. KVS!NoCall = NoCall
  BY DEF KVS!NoCall, NoCall
<1>5. KVS!Apply(Seen) = Applied
  BY <1>3 DEF KVS!Apply, Applied
<1>6. KVS!Succeed \/ KVS!Fail
  BY <1>1, <1>2, <1>3, <1>4, <1>5 DEF KVS!Succeed, KVS!Fail, Seen
<1> QED
  BY <1>1, <1>6 DEF KVS!Next

\* Every step is one of the abstract store, or changes nothing of it.
LEMMA StepMaps ==
    ASSUME StoreInv, StoreInv', [Next]_vars
    PROVE  [KVS!Next]_(KVS!vars)
<1>t. StoreTypes /\ StoreTypes'
  BY DEF StoreInv
<1>1. CASE UNCHANGED vars \/ AtRest
  <2>1. UNCHANGED <<pc, call, possible, damaged, file, index>>
    BY <1>1 DEF AtRest, vars, fileVars, memory, ghosts
  <2>2. UNCHANGED <<Initialized, Seen>>
    BY <2>1 DEF Initialized, Seen, Current, Get, Contains
  <2> QED BY <2>1, <2>2 DEF KVS!vars, Seen
<1>2. CASE InitializeScan
  <2>1. pc' = "size" /\ UNCHANGED possible /\ (damaged => damaged')
    BY <1>2 DEF InitializeScan
  <2> QED BY <1>t, <2>1, MapsToClose DEF Initialized
<1>3. CASE InitializeSize
  <2>1. pc = "size" /\ pc' \in {"idle", "set_length"} /\ UNCHANGED possible
    BY <1>3 DEF InitializeSize
  <2>2. damaged => damaged'
    BY Zenon, <1>3 DEF InitializeSize
  <2> QED BY <1>t, <2>1, <2>2, MapsToClose, MapsToOpen DEF Initialized
<1>4. CASE InitializeSetLength
  <2>1. pc' \in {"open_flush", "closed"} /\ UNCHANGED <<possible, damaged>>
    BY <1>4 DEF InitializeSetLength, ghosts
  <2> QED BY <1>t, <2>1, MapsToClose DEF Initialized
<1>5. CASE InitializeFlush
  <2>1. pc = "open_flush" /\ pc' \in {"idle", "closed"} /\ UNCHANGED <<possible, damaged>>
    BY <1>5 DEF InitializeFlush
  <2> QED BY <1>t, <2>1, MapsToClose, MapsToOpen DEF Initialized
<1>6. CASE \E k \in Keys : Remove(k) \/ \E v \in Values : Put(k, v)
  <2>1. PICK k \in Keys, v \in Values \cup {Absent} : pc = "idle" /\ Begin(k, v)
    BY <1>6 DEF Remove, Put
  <2> QED BY <2>1, MapsToBegin
<1>7. CASE ProcessExit \/ PowerCut
  <2>1. pc' = "closed" /\ UNCHANGED <<possible, damaged>>
    BY <1>7 DEF ProcessExit, PowerCut, End
  <2> QED BY <1>t, <2>1, MapsToClose DEF Initialized
<1> QED
  BY <1>1, <1>2, <1>3, <1>4, <1>5, <1>6, <1>7, MapsToAttempt, MapsToOutcome DEF Next

\* FileBackingStore keeps the promise of IBackingStore, as KeyValueStore states it: whatever
\* fails, whenever the process ends and in whatever order the disk takes the writes, an
\* acknowledged Put or Remove is found again, and one that failed happened entirely or not.
THEOREM StoreKeepsPromise == Spec => KeepsPromise
<1>1. Init => KVS!Init
  BY DEF Init, KVS!Init, Initialized, KVS!NoCall, NoCall, KVS!Nothing, Nothing
<1>2. StoreInv /\ StoreInv' /\ [Next]_vars => [KVS!Next]_(KVS!vars)
  BY StepMaps
<1> QED
  BY <1>1, <1>2, StoreInvHolds, PTL DEF Spec, KeepsPromise, KVS!Spec

-----------------------------------------------------------------------------
(* What an open may find once the promise has ended.                       *)

\* Every chain of frames that may be on the disk stores what was possible at some time.
Remembered(F, H) == \A d : ChainOf(F, d) => Contents(d) \in H

\* Since the last flush, when the chain b was all there was: no frame begins behind offset
\* o, and every chain longer than b stores what is possible.
EraOf(F, P, b, o) ==
    /\ Chained(b) /\ EndOf(b) <= o
    /\ \A g \in F : ChainIn(g, b) /\ NoStartBehind(g, o)
    /\ \A d : ChainOf(F, d) /\ EndOf(b) < EndOf(d) => Contents(d) \in P

\* While Initialize has not left a tail on the disk.
HistoryInv ==
    ~tailLeft =>
        /\ Remembered(images, history)
        /\ pc \in {"closed", "size", "set_length"} =>
              images = {file} \/ \E b, o : o \in 0..Len(file) /\ EraOf(images, possible, b, o)
        /\ pc = "open_flush" => Len(file) = endOffset
        /\ Initialized => \E b : EraOf(images, possible, b, endOffset)

\* A cell that is in place in one file of F is so in one of G: the chains of F are chains
\* of G.
LEMMA FewerChains ==
    ASSUME NEW F, NEW G,
           \A g \in F, e \in Entry, j \in Nat \ {0} : Holds(g, e, j) => \E h \in G : Holds(h, e, j)
    PROVE  /\ \A d : ChainOf(F, d) => ChainOf(G, d)
           /\ \A H : Remembered(G, H) => Remembered(F, H)
<1>1. ASSUME NEW d, ChainOf(F, d) PROVE ChainOf(G, d)
  <2>1. Chained(d) /\ \A i \in 1..Len(d) : d[i] \in Entry /\ InPlace(F, d[i])
    BY <1>1, ChainFacts DEF ChainOf
  <2>2. ASSUME NEW i \in 1..Len(d) PROVE InPlace(G, d[i])
    <3>1. FrameLength(d[i].frame) \in Nat
      BY <2>1, EntryFacts
    <3>2. \A j \in 1..FrameLength(d[i].frame) : j \in Nat \ {0}
      BY <3>1
    <3> QED BY <2>1, <3>2 DEF InPlace
  <2> QED BY <2>1, <2>2 DEF ChainOf
<1> QED
  BY <1>1 DEF Remembered

\* Where no frame begins behind a chain, no chain goes on.
LEMMA NoChainBeyond ==
    ASSUME NEW f \in File, NEW b, ChainIn(f, b), \A i \in 1..Len(f) : i > EndOf(b) => f[i].at # 1
    PROVE  \A P : EraOf({f}, P, b, EndOf(b))
<1>1. Chained(b) /\ EndOf(b) \in Nat /\ Len(b) \in Nat /\ Len(f) \in Nat
  BY ChainFacts, CellFacts DEF ChainIn
<1>2. NoStartBehind(f, EndOf(b))
  <2>1. \A i \in 1..Len(f) : i > EndOf(b) + 1 => i > EndOf(b)
    BY <1>1
  <2> QED BY <2>1 DEF NoStartBehind
<1>3. ASSUME NEW d, ChainOf({f}, d), EndOf(b) < EndOf(d) PROVE FALSE
  <2>1. Len(b) + 1 \in 1..Len(d) /\ d[Len(b) + 1].offset = EndOf(b)
    <3>1. {f} \subseteq File /\ \A g \in {f} : ChainIn(g, b)
      OBVIOUS
    <3> QED BY <1>1, <1>3, <3>1, LongerChain
  <2>2. ChainIn(f, d) /\ Chained(d)
    BY <1>3, ChainInFacts DEF ChainOf
  <2>3. PICK e \in Entry : e = d[Len(b) + 1] /\ Placed(f, e)
    BY <2>1, <2>2, ChainFacts DEF ChainIn
  <2>4. EndOf(b) < Len(f) /\ f[EndOf(b) + 1].at = 1
    BY <2>1, <2>3, PlacedFacts
  <2>5. EndOf(b) + 1 \in 1..Len(f) /\ EndOf(b) + 1 > EndOf(b)
    BY <1>1, <2>4
  <2> QED BY <2>4, <2>5
<1>4. EndOf(b) <= EndOf(b)
  BY <1>1
<1> QED
  BY <1>1, <1>2, <1>3, <1>4 DEF EraOf

\* A later offset will do.
LEMMA EraLater ==
    ASSUME NEW F, F \subseteq File, NEW P, NEW b, NEW o \in Nat, EraOf(F, P, b, o),
           NEW q \in Nat, o <= q
    PROVE  EraOf(F, P, b, q)
<1>1. EndOf(b) \in Nat /\ EndOf(b) <= o
  BY ChainFacts DEF EraOf
<1>2. ASSUME NEW g \in F PROVE NoStartBehind(g, q)
  <2>1. Len(g) \in Nat /\ NoStartBehind(g, o)
    BY CellFacts DEF EraOf
  <2>2. \A i \in 1..Len(g) : i > q + 1 => i > o + 1
    BY <2>1
  <2> QED BY <2>1, <2>2 DEF NoStartBehind
<1>3. EndOf(b) <= q
  BY <1>1
<1> QED
  BY <1>2, <1>3 DEF EraOf

\* A frame in place somewhere begins where one may begin.
LEMMA StartsHere ==
    ASSUME NEW F, F \subseteq File, NEW o \in Nat, \A g \in F : NoStartBehind(g, o),
           NEW e \in Entry, InPlace(F, e)
    PROVE  e.offset <= o
<1>1. e.offset \in Nat /\ 1 \in 1..FrameLength(e.frame)
  BY EntryFacts, FrameFacts
<1>2. PICK g \in F : Holds(g, e, 1)
  BY <1>1 DEF InPlace
<1>3. Len(g) \in Nat /\ e.offset + 1 <= Len(g) /\ g[e.offset + 1].at = 1
  BY <1>2, CellFacts DEF Holds
<1>4. e.offset + 1 \in 1..Len(g) /\ ~(e.offset + 1 > o + 1)
  BY <1>1, <1>3 DEF NoStartBehind
<1> QED
  BY <1>1, <1>4

\* The cells of the record begin a frame only where the record begins.
LEMMA WrittenStarts ==
    ASSUME file \in File, endOffset \in Nat, NEW w, NEW m \in Nat, Written(w, m),
           NoStartBehind(file, endOffset)
    PROVE  NoStartBehind(w, endOffset)
<1> SUFFICES ASSUME NEW i \in 1..Len(w), i > endOffset + 1 PROVE w[i].at # 1
  BY DEF NoStartBehind
<1>1. CASE i <= Len(file) /\ w[i] = file[i]
  <2>1. i \in 1..Len(file)
    BY <1>1, CellFacts
  <2> QED BY <1>1, <2>1 DEF NoStartBehind
<1>2. CASE \E j \in 1..m : i = endOffset + j /\ w[i] = [frame |-> CallFrame, at |-> j]
  <2>1. PICK j \in 1..m : i = endOffset + j /\ w[i] = [frame |-> CallFrame, at |-> j]
    BY <1>2
  <2>2. w[i].at = j /\ j > 1
    BY <2>1
  <2> QED BY <2>2
<1> QED
  BY <1>1, <1>2 DEF Written

\* A cell that was not in place before is one of the record.
LEMMA WrittenCells ==
    ASSUME endOffset \in Nat, NEW w, NEW m \in Nat, Written(w, m),
           NEW e \in Entry, NEW j \in Nat \ {0}, Holds(w, e, j)
    PROVE  Holds(file, e, j) \/ e = NewEntry
<1>1. e.offset \in Nat /\ e = [offset |-> e.offset, frame |-> e.frame]
  BY EntryFacts
<1>2. PICK i \in Nat : i = e.offset + j
  BY <1>1
<1>3. i \in 1..Len(w) /\ w[i] = [frame |-> e.frame, at |-> j]
  BY <1>1, <1>2, CellFacts DEF Holds, Written
<1>4. CASE i <= Len(file) /\ w[i] = file[i]
  BY <1>2, <1>3, <1>4 DEF Holds
<1>5. CASE \E x \in 1..m : i = endOffset + x /\ w[i] = [frame |-> CallFrame, at |-> x]
  <2>1. PICK x \in 1..m : i = endOffset + x /\ w[i] = [frame |-> CallFrame, at |-> x]
    BY <1>5
  <2>2. x = j /\ e.frame = CallFrame
    BY <1>3, <2>1
  <2>3. e.offset = endOffset
    BY <1>1, <1>2, <2>1, <2>2
  <2> QED BY <1>1, <2>2, <2>3 DEF NewEntry
<1> QED
  BY <1>3, <1>4, <1>5 DEF Written

\* Writing a record makes new chains only of those that end where it begins.
LEMMA NewChains ==
    ASSUME images \subseteq File, file \in images, endOffset \in Nat, NewEntry \in Entry,
           \A g \in images : NoStartBehind(g, endOffset),
           NEW w, NEW m \in Nat, Written(w, m), NEW d, ChainOf(images \cup {w}, d)
    PROVE  \/ ChainOf(images, d)
           \/ \E x : ChainOf(images, x) /\ EndOf(x) = endOffset /\ d = Append(x, NewEntry)
<1>1. /\ Chained(d) /\ Len(d) \in Nat
      /\ \A i \in 1..Len(d) : d[i] \in Entry /\ InPlace(images \cup {w}, d[i])
  BY ChainFacts DEF ChainOf
<1>2. NewEntry.offset = endOffset
  BY DEF NewEntry
<1>3. images \cup {w} \subseteq File /\ \A g \in images \cup {w} : NoStartBehind(g, endOffset)
  BY WrittenStarts DEF Written
<1>4. ASSUME NEW i \in 1..Len(d), d[i] # NewEntry PROVE InPlace(images, d[i])
  <2> SUFFICES ASSUME NEW j \in 1..FrameLength(d[i].frame) PROVE \E g \in images : Holds(g, d[i], j)
    BY DEF InPlace
  <2>1. j \in Nat \ {0}
    BY <1>1, EntryFacts
  <2>2. PICK g \in images \cup {w} : Holds(g, d[i], j)
    BY <1>1 DEF InPlace
  <2> QED BY <1>1, <1>4, <2>1, <2>2, WrittenCells
<1>5. CASE \A i \in 1..Len(d) : d[i] # NewEntry
  BY <1>1, <1>4, <1>5 DEF ChainOf
<1>6. ASSUME NEW n \in 1..Len(d), d[n] = NewEntry
      PROVE  \E x : ChainOf(images, x) /\ EndOf(x) = endOffset /\ d = Append(x, NewEntry)
  <2>1. n - 1 \in 0..Len(d) /\ n \in 0..Len(d) /\ n # 0
    BY <1>1
  <2>2. d[n].offset = EndAt(d, n - 1) /\ EndAt(d, n) = EndOfEntry(d[n])
    BY <1>1, <2>1, ChainFacts DEF EndAt
  <2>3. n = Len(d)
    <3> SUFFICES ASSUME n # Len(d) PROVE FALSE
      OBVIOUS
    <3>1. n + 1 \in 1..Len(d) /\ (n + 1) - 1 = n
      BY <1>1
    <3>2. d[n + 1].offset = EndAt(d, n) /\ d[n + 1] \in Entry
      BY <1>1, <3>1, ChainFacts
    <3>3. d[n + 1].offset <= endOffset
      BY <1>1, <1>3, <3>1, <3>2, StartsHere
    <3>4. EndOfEntry(d[n]) > endOffset /\ EndOfEntry(d[n]) \in Nat
      BY <1>1, <1>2, <1>6, EntryFacts
    <3> QED BY <2>2, <3>2, <3>3, <3>4
  <2>4. PICK x : x = SubSeq(d, 1, n - 1)
    OBVIOUS
  <2>5. /\ Chained(x) /\ Len(x) = n - 1 /\ \A i \in 1..(n - 1) : x[i] = d[i]
        /\ EndOf(x) = EndAt(d, n - 1)
    BY <1>1, <2>1, <2>4, PrefixChain
  <2>6. EndOf(x) = endOffset
    BY <1>2, <1>6, <2>2, <2>5
  <2>7. ASSUME NEW i \in 1..(n - 1) PROVE InPlace(images, x[i])
    <3>1. i \in 1..Len(d) /\ i \in 0..Len(d) /\ i < n /\ i # 0
      BY <1>1, <2>1
    <3>2. EndAt(d, i) <= d[n].offset
      BY <1>1, <3>1, LaterBeginLater
    <3>3. d[i] \in Entry /\ EndOfEntry(d[i]) > d[i].offset /\ EndOfEntry(d[i]) = EndAt(d, i)
          /\ d[i].offset \in Nat /\ EndOfEntry(d[i]) \in Nat
      BY <1>1, <3>1, EntryFacts DEF EndAt
    <3>4. d[i] # NewEntry
      BY <1>2, <1>6, <3>2, <3>3
    <3> QED BY <1>4, <2>5, <3>1, <3>4
  <2>8. d = Append(x, NewEntry)
    <3>1. PICK y : y = Append(x, NewEntry)
      OBVIOUS
    <3>2. /\ Chained(y) /\ Len(y) = n /\ y[n] = NewEntry
          /\ \A i \in 1..(n - 1) : y[i] = x[i]
      BY <1>2, <2>5, <2>6, <3>1, AppendChain
    <3>3. \A i \in 1..n : i \in 1..(n - 1) \/ i = n
      OBVIOUS
    <3>4. \A i \in 1..n : y[i] = d[i]
      BY <1>6, <2>5, <3>2, <3>3
    <3>5. y \in Seq(Entry) /\ d \in Seq(Entry) /\ Len(y) = Len(d)
      BY <1>1, <2>3, <3>2, ChainFacts
    <3> QED BY <2>3, <3>1, <3>4, <3>5
  <2> QED BY <2>5, <2>6, <2>7, <2>8 DEF ChainOf
<1> QED
  BY <1>5, <1>6

\* A new store.
LEMMA InitHistory ==
    ASSUME Init
    PROVE  HistoryInv
<1>1. file = <<>> /\ images = {<<>>} /\ pc = "closed" /\ history = {Nothing}
  BY DEF Init
<1>2. ASSUME NEW d, ChainOf({<<>>}, d) PROVE Contents(d) = Nothing
  <2>1. Chained(d) /\ Len(d) \in Nat /\ d \in Seq(Entry)
    BY <1>2, ChainFacts DEF ChainOf
  <2>2. <<>> \in File
    BY DEF File
  <2>3. ChainIn(<<>>, d)
    BY <1>2, ChainInFacts
  <2>4. ASSUME 1 \in 1..Len(d) PROVE FALSE
    <3>1. d[1] \in Entry /\ Placed(<<>>, d[1])
      BY <2>1, <2>3, <2>4, ChainFacts DEF ChainIn
    <3>2. d[1].offset < Len(<<>>) /\ d[1].offset \in Nat /\ Len(<<>>) = 0
      BY <2>2, <3>1, PlacedFacts, EntryFacts
    <3> QED BY <3>2
  <2>5. d = <<>>
    BY <2>1, <2>4
  <2> QED BY <2>5, EmptyChain
<1>3. Remembered(images, history)
  BY <1>1, <1>2 DEF Remembered
<1> QED
  BY <1>1, <1>3 DEF HistoryInv, Initialized

\* A step that does not touch the files leaves the chains as they are.
LEMMA SameFiles ==
    ASSUME HistoryInv, UNCHANGED <<file, images, endOffset, possible, history, tailLeft>>,
           \/ pc' = pc
           \/ Initialized /\ Initialized'
           \/ pc \in {"closed", "size", "set_length"} /\ pc' \in {"closed", "size", "set_length"}
    PROVE  HistoryInv'
BY DEF HistoryInv, Initialized

\* The scan.
LEMMA ScanHistory ==
    ASSUME HistoryInv, InitializeScan
    PROVE  HistoryInv'
<1>1. pc = "closed" /\ pc' = "size" /\ UNCHANGED <<file, images, possible, history, tailLeft>>
  BY DEF InitializeScan, fileVars
<1> QED
  BY <1>1 DEF HistoryInv, Initialized

\* An open that finds a file without a tail, or has flushed the cut.
LEMMA OpenEra ==
    ASSUME file \in File, NEW c, Opened(c), Len(file) = endOffset
    PROVE  \A P : EraOf({file}, P, c, endOffset)
<1>1. ChainIn(file, c) /\ endOffset = EndOf(c) /\ endOffset \in Nat
  BY OpenFacts DEF Opened
<1>2. \A i \in 1..Len(file) : ~(i > EndOf(c))
  BY <1>1
<1> QED
  BY <1>1, <1>2, NoChainBeyond

\* The comparison with the size.
LEMMA SizeHistory ==
    ASSUME StoreInv, HistoryInv, InitializeSize
    PROVE  HistoryInv'
<1>t. /\ images \subseteq File /\ file \in images /\ file \in File /\ pc = "size"
      /\ tailLeft \in BOOLEAN
  BY DEF StoreInv, StoreTypes, InitializeSize
<1>1. /\ UNCHANGED <<file, images, endOffset, possible, history>>
      /\ pc' \in {"idle", "set_length"} /\ (~tailLeft' => ~tailLeft)
      /\ pc' = "idle" /\ ~tailLeft' => Len(file) = endOffset
  BY <1>t DEF InitializeSize, fileVars, memory
<1> SUFFICES ASSUME ~tailLeft'
             PROVE  /\ Remembered(images, history)
                    /\ pc' = "set_length" => images = {file} \/
                          \E b, o : o \in 0..Len(file) /\ EraOf(images, possible, b, o)
                    /\ pc' = "idle" => \E b : EraOf(images, possible, b, endOffset)
  BY <1>1 DEF HistoryInv, Initialized
<1>2. /\ Remembered(images, history)
      /\ images = {file} \/ \E b, o : o \in 0..Len(file) /\ EraOf(images, possible, b, o)
  BY <1>t, <1>1 DEF HistoryInv
<1>3. ASSUME pc' = "idle" PROVE \E b : EraOf(images, possible, b, endOffset)
  <2>1. Len(file) = endOffset /\ Len(file) \in Nat
    BY <1>t, <1>1, <1>3, CellFacts
  <2>2. CASE images = {file}
    <3>1. PICK c : Opened(c)
      BY <1>t DEF StoreInv
    <3> QED BY <1>t, <2>1, <2>2, <3>1, OpenEra
  <2>3. CASE \E b, o : o \in 0..Len(file) /\ EraOf(images, possible, b, o)
    <3>1. PICK b, o : o \in 0..Len(file) /\ EraOf(images, possible, b, o)
      BY <2>3
    <3>2. o \in Nat /\ o <= endOffset
      BY <2>1, <3>1
    <3> QED BY <1>t, <2>1, <3>1, <3>2, EraLater
  <2> QED BY <1>2, <2>2, <2>3
<1> QED
  BY <1>2, <1>3

\* The cut.
LEMMA SetLengthHistory ==
    ASSUME StoreInv, HistoryInv, InitializeSetLength
    PROVE  HistoryInv'
<1>t. /\ images \subseteq File /\ file \in images /\ file \in File /\ pc = "set_length"
      /\ tailLeft \in BOOLEAN
  BY DEF StoreInv, StoreTypes, InitializeSetLength
<1>1. CASE Fault /\ pc' = "closed" /\ Forget /\ UNCHANGED fileVars
  <2>1. UNCHANGED <<file, images, possible, history, tailLeft>>
    BY <1>1 DEF InitializeSetLength, ghosts, fileVars
  <2> QED BY <1>t, <1>1, <2>1 DEF HistoryInv, Initialized
<1>2. CASE Write(SubSeq(file, 1, endOffset)) /\ pc' = "open_flush" /\ UNCHANGED <<memory, call>>
  <2>1. PICK c : Opened(c)
    BY <1>t DEF StoreInv
  <2>2. endOffset \in Nat /\ endOffset <= Len(file)
    BY <1>t, <2>1, OpenFacts
  <2>3. PICK w \in File : /\ w = SubSeq(file, 1, endOffset) /\ Len(w) = endOffset
                          /\ \A i \in 1..endOffset : w[i] = file[i]
    BY <1>t, <2>2, CutFacts
  <2>4. file' = w /\ images' = images \cup {w} /\ UNCHANGED <<endOffset, tailLeft, history>>
    BY <1>2, <2>3 DEF Write, memory, InitializeSetLength, ghosts
  <2>5. ASSUME NEW g \in images \cup {w}, NEW e \in Entry, NEW j \in Nat \ {0}, Holds(g, e, j)
        PROVE  \E h \in images : Holds(h, e, j)
    <3>1. CASE g \in images
      BY <2>5, <3>1
    <3>2. CASE g = w
      <4>1. e.offset \in Nat /\ e.offset + j <= endOffset /\ w[e.offset + j] = [frame |-> e.frame, at |-> j]
        BY <2>3, <2>5, <3>2, EntryFacts DEF Holds
      <4>2. e.offset + j \in 1..endOffset /\ e.offset + j <= Len(file)
        BY <1>t, <2>2, <4>1, CellFacts
      <4>3. Holds(file, e, j)
        BY <2>3, <4>1, <4>2 DEF Holds
      <4> QED BY <1>t, <4>3
    <3> QED BY <3>1, <3>2
  <2>6. ~tailLeft => Remembered(images \cup {w}, history)
    BY <2>5, FewerChains DEF HistoryInv
  <2> QED BY <1>2, <2>3, <2>4, <2>6 DEF HistoryInv, Initialized
<1> QED
  BY <1>1, <1>2 DEF InitializeSetLength

\* Fewer files hold fewer chains.
LEMMA OneFile ==
    ASSUME file \in images, NEW H, Remembered(images, H)
    PROVE  Remembered({file}, H)
<1>1. \A g \in {file}, e \in Entry, j \in Nat \ {0} : Holds(g, e, j) => \E h \in images : Holds(h, e, j)
  OBVIOUS
<1> QED
  BY <1>1, FewerChains

\* The flush of the cut.
LEMMA CutFlushHistory ==
    ASSUME StoreInv, HistoryInv, InitializeFlush
    PROVE  HistoryInv'
<1>t. /\ images \subseteq File /\ file \in images /\ file \in File /\ pc = "open_flush"
      /\ tailLeft \in BOOLEAN
  BY DEF StoreInv, StoreTypes, InitializeFlush
<1>1. CASE tailLeft' = TRUE
  BY <1>1 DEF HistoryInv
<1>2. CASE FlushDurable /\ pc' = "idle" /\ UNCHANGED <<memory, call, tailLeft, faults>>
  <2>1. /\ images' = {file} /\ pc' = "idle" /\ endOffset' = endOffset /\ tailLeft' = tailLeft
        /\ possible' = possible /\ history' = history
    BY <1>2 DEF FlushDurable, InitializeFlush, memory
  <2> SUFFICES ASSUME ~tailLeft
               PROVE  Remembered(images', history') /\ \E b : EraOf(images', possible', b, endOffset')
    BY <2>1 DEF HistoryInv, Initialized
  <2>2. Remembered(images, history) /\ Len(file) = endOffset
    BY <1>t DEF HistoryInv
  <2>3. PICK c : Opened(c)
    BY <1>t DEF StoreInv
  <2> QED BY <1>t, <2>1, <2>2, <2>3, OneFile, OpenEra
<1> QED
  BY <1>1, <1>2 DEF InitializeFlush

\* What a power cut leaves has no chain that was not there before: a blank cell begins none.
LEMMA MixHistory ==
    ASSUME images \subseteq File, NEW f, Mix(f), NEW H, Remembered(images, H)
    PROVE  Remembered({f}, H)
<1>1. ASSUME NEW g \in {f}, NEW e \in Entry, NEW j \in Nat \ {0}, Holds(g, e, j)
      PROVE  \E h \in images : Holds(h, e, j)
  <2>1. PICK i \in Nat \ {0} : i = e.offset + j
    BY EntryFacts
  <2>2. i <= Len(f) /\ f[i] = [frame |-> e.frame, at |-> j] /\ Len(f) \in Nat
    BY <1>1, <2>1, CellFacts DEF Holds, Mix
  <2>3. f[i] \in MixedCell(i)
    BY <2>2 DEF Mix
  <2>4. f[i] # Blank
    BY <2>2 DEF Blank
  <2>5. PICK h \in images : i <= Len(h) /\ f[i] = h[i]
    BY <2>3, <2>4, MixedCellFacts
  <2> QED BY <2>1, <2>2, <2>5 DEF Holds
<1> QED
  BY <1>1, FewerChains

\* The process ends.
LEMMA EndHistory ==
    ASSUME StoreInv, HistoryInv, ProcessExit \/ PowerCut
    PROVE  HistoryInv'
<1>t. /\ images \subseteq File /\ file \in images /\ file \in File /\ tailLeft \in BOOLEAN
      /\ pc \in {"closed", "size", "set_length", "open_flush", "idle", "write", "flush"}
  BY DEF StoreInv, StoreTypes
<1>1. pc' = "closed" /\ possible' = possible /\ history' = history
  BY DEF ProcessExit, PowerCut, End
<1>2. CASE ProcessExit
  <2>1. file' = file /\ images' = images /\ (~tailLeft' => ~tailLeft /\ pc # "open_flush")
    BY <1>t, <1>2 DEF ProcessExit, fileVars
  <2> SUFFICES ASSUME ~tailLeft, pc # "open_flush"
               PROVE  /\ Remembered(images, history)
                      /\ images = {file} \/ \E b, o : o \in 0..Len(file) /\ EraOf(images, possible, b, o)
    BY <1>1, <2>1 DEF HistoryInv, Initialized
  <2>2. Remembered(images, history)
    BY DEF HistoryInv
  <2>3. CASE pc \in {"closed", "size", "set_length"}
    BY <2>3 DEF HistoryInv
  <2>4. CASE Initialized
    <3>1. PICK b : EraOf(images, possible, b, endOffset)
      BY <2>4 DEF HistoryInv
    <3>2. PICK c : Opened(c)
      BY <2>4 DEF StoreInv, Initialized
    <3>3. endOffset \in 0..Len(file)
      BY <1>t, <3>2, OpenFacts, CellFacts
    <3> QED BY <2>2, <3>1, <3>3
  <2> QED BY <1>t, <2>2, <2>3, <2>4 DEF Initialized
<1>3. CASE PowerCut
  <2>1. PICK f \in Survivors : file' = f /\ images' = {f}
    BY <1>3 DEF PowerCut
  <2>2. tailLeft' = tailLeft
    BY <1>3 DEF PowerCut
  <2>3. Mix(f)
    BY <1>t, SurvivorFacts
  <2>4. ~tailLeft => Remembered({f}, history)
    BY <1>t, <2>3, MixHistory DEF HistoryInv
  <2> QED BY <1>1, <2>1, <2>2, <2>4 DEF HistoryInv, Initialized
<1> QED
  BY <1>2, <1>3

\* The record is written: it may come behind every chain that ends where it begins.
LEMMA WriteHistory ==
    ASSUME StoreInv, HistoryInv, AppendWrite
    PROVE  HistoryInv'
<1>t. /\ images \subseteq File /\ file \in images /\ file \in File /\ pc = "write"
      /\ tailLeft \in BOOLEAN /\ possible \subseteq Outcomes
  BY DEF StoreInv, StoreTypes, AppendWrite
<1>1. PICK c : Opened(c)
  BY <1>t DEF StoreInv
<1>2. /\ endOffset \in Nat /\ endOffset <= Len(file) /\ Current = Contents(c)
      /\ ChainIn(file, c) /\ endOffset = EndOf(c)
  BY <1>t, <1>1, OpenFacts DEF Opened
<1>3. /\ call.key \in Keys /\ CallFrame \in Frame
      /\ CallFrame.key = call.key /\ CallFrame.val = call.val
      /\ NewEntry \in Entry /\ NewEntry.offset = endOffset /\ NewEntry.frame = CallFrame
  BY <1>t, <1>2, CallFacts
<1>4. PICK w, m : /\ m \in 0..FrameLength(CallFrame) /\ Written(w, m)
                  /\ file' = w /\ images' = images \cup {w} /\ pc' \in {"flush", "idle"}
  BY <1>t, <1>2, <1>3, AppendWriteFacts
<1>5. w \in File /\ endOffset <= Len(w) /\ (\A i \in 1..endOffset : w[i] = file[i]) /\ m \in Nat
  BY <1>3, <1>4, FrameFacts DEF Written
<1> DEFINE Apply(x) == [x EXCEPT ![call.key] = call.val]
<1>6. /\ possible' = possible \cup {Apply(x) : x \in possible \cup {Current}}
      /\ history' = history \cup possible' /\ endOffset' = endOffset /\ tailLeft' = tailLeft
  BY DEF AppendWrite, memory
<1> SUFFICES ASSUME ~tailLeft
             PROVE  /\ Remembered(images', history')
                    /\ \E b : EraOf(images', possible', b, endOffset')
  BY <1>4, <1>6 DEF HistoryInv, Initialized
<1>7. Remembered(images, history)
  BY DEF HistoryInv
<1>8. PICK b : EraOf(images, possible, b, endOffset)
  BY <1>t DEF HistoryInv, Initialized
<1>9. /\ Chained(b) /\ EndOf(b) \in Nat /\ EndOf(b) <= endOffset
      /\ \A g \in images : ChainIn(g, b) /\ NoStartBehind(g, endOffset)
      /\ \A d : ChainOf(images, d) /\ EndOf(b) < EndOf(d) => Contents(d) \in possible
  BY <1>8, ChainFacts DEF EraOf
<1>10. ASSUME NEW x, ChainOf(images, x), EndOf(x) = endOffset
       PROVE  Contents(x) \in possible \cup {Current}
  <2>1. CASE EndOf(b) = endOffset
    <3>1. ChainOf(images, c)
      BY <1>t, <1>2, ChainInFacts
    <3>2. b = x /\ b = c
      BY <1>t, <1>2, <1>9, <1>10, <2>1, <3>1, LongerChain
    <3> QED BY <1>2, <3>2
  <2>2. CASE EndOf(b) < endOffset
    BY <1>9, <1>10, <2>2
  <2> QED BY <1>2, <1>9, <2>1, <2>2
<1>11. ASSUME NEW d, ChainOf(images', d)
       PROVE  \/ ChainOf(images, d)
              \/ Contents(d) \in possible'
  <2>1. CASE \E x : ChainOf(images, x) /\ EndOf(x) = endOffset /\ d = Append(x, NewEntry)
    <3>1. PICK x : ChainOf(images, x) /\ EndOf(x) = endOffset /\ d = Append(x, NewEntry)
      BY <2>1
    <3>2. Chained(x)
      BY <3>1 DEF ChainOf
    <3>3. Contents(d) = Apply(Contents(x))
      BY <1>3, <3>1, <3>2, ContentsAppend
    <3> HIDE DEF Apply
    <3> QED BY <1>6, <1>10, <3>1, <3>3
  <2>2. ChainOf(images \cup {w}, d)
    BY <1>4, <1>11
  <2> QED BY <1>t, <1>2, <1>3, <1>4, <1>5, <1>9, <2>1, <2>2, NewChains
<1>12. Remembered(images', history')
  BY <1>6, <1>7, <1>11 DEF Remembered
<1>13. ChainIn(w, b)
  BY <1>t, <1>2, <1>5, <1>9, ChainKept
<1>14. NoStartBehind(w, endOffset)
  BY <1>t, <1>2, <1>4, <1>5, <1>9, WrittenStarts
<1>15. \A d : ChainOf(images', d) /\ EndOf(b) < EndOf(d) => Contents(d) \in possible'
  BY <1>6, <1>9, <1>11
<1>16. \A g \in images' : ChainIn(g, b) /\ NoStartBehind(g, endOffset)
  BY <1>4, <1>9, <1>13, <1>14
<1>17. EraOf(images', possible', b, endOffset')
  BY <1>6, <1>9, <1>15, <1>16 DEF EraOf
<1> QED
  BY <1>12, <1>17

\* The record is flushed: then it is the last, and no frame begins behind it.
LEMMA FlushHistory ==
    ASSUME StoreInv, HistoryInv, AppendFlush
    PROVE  HistoryInv'
<1>t. /\ images \subseteq File /\ file \in images /\ file \in File /\ pc = "flush"
      /\ tailLeft \in BOOLEAN /\ Placed(file, NewEntry)
  BY DEF StoreInv, StoreTypes, AppendFlush
<1>1. pc' = "idle" /\ history' = history /\ tailLeft' = tailLeft /\ file' = file
  BY DEF AppendFlush, FlushDurable, fileVars
<1>2. CASE UNCHANGED <<fileVars, memory, possible, damaged>>
  <2>1. UNCHANGED <<file, images, endOffset, possible, history, tailLeft>>
    BY <1>1, <1>2 DEF fileVars, memory
  <2> QED BY <1>t, <1>1, <2>1, SameFiles DEF Initialized
<1>3. CASE FlushDurable /\ endOffset' = endOffset + FrameLength(CallFrame) /\ possible' = {Applied}
  <2>1. images' = {file}
    BY <1>3 DEF FlushDurable
  <2> SUFFICES ASSUME ~tailLeft
               PROVE  /\ Remembered(images', history')
                      /\ \E b : EraOf(images', possible', b, endOffset')
    BY <1>1 DEF HistoryInv, Initialized
  <2>2. Remembered({file}, history)
    BY <1>t, OneFile DEF HistoryInv
  <2>3. NoStartBehind(file, endOffset)
    BY <1>t DEF HistoryInv, Initialized, EraOf
  <2>4. PICK c : Opened(c)
    BY <1>t DEF StoreInv
  <2>5. /\ endOffset \in Nat /\ endOffset <= Len(file) /\ Chained(c)
        /\ ChainIn(file, c) /\ endOffset = EndOf(c)
    BY <1>t, <2>4, OpenFacts DEF Opened
  <2>6. PICK e \in Entry : e = NewEntry /\ e.offset = endOffset /\ e.frame = CallFrame
    BY <1>t, <2>5, CallFacts
  <2>7. PICK d : d = Append(c, e)
    OBVIOUS
  <2>8. /\ Chained(d) /\ Len(d) = Len(c) + 1 /\ Len(c) \in Nat
        /\ \A i \in 1..Len(c) : d[i] = c[i]
        /\ d[Len(c) + 1] = e /\ EndOf(d) = EndOfEntry(e)
    BY <2>5, <2>6, <2>7, AppendChain, ChainFacts
  <2>9. ChainIn(file, d)
    <3>1. \A i \in 1..Len(d) : i \in 1..Len(c) \/ i = Len(c) + 1
      BY <2>8
    <3> QED BY <1>t, <2>5, <2>6, <2>8, <3>1 DEF ChainIn
  <2>10. endOffset' = EndOf(d) /\ EndOf(d) \in Nat /\ EndOf(d) > endOffset
    BY <1>3, <2>6, <2>8, EntryFacts DEF EndOfEntry
  <2>11. ASSUME NEW i \in 1..Len(file), i > EndOf(d) PROVE file[i].at # 1
    <3>1. i > endOffset + 1
      BY <2>5, <2>10, <2>11
    <3> QED BY <2>3, <3>1 DEF NoStartBehind
  <2>12. EraOf({file}, possible', d, EndOf(d))
    BY <1>t, <2>9, <2>11, NoChainBeyond
  <2> QED BY <1>1, <2>1, <2>2, <2>10, <2>12
<1> QED
  BY <1>2, <1>3 DEF AppendFlush

\* Every step keeps it.
LEMMA StepKeepsHistory ==
    ASSUME StoreInv, HistoryInv, [Next]_vars
    PROVE  HistoryInv'
<1>1. CASE UNCHANGED vars \/ AtRest
  <2>1. UNCHANGED <<file, images, endOffset, possible, history, tailLeft, pc>>
    BY <1>1 DEF AtRest, vars, fileVars, memory, ghosts
  <2> QED BY <2>1, SameFiles
<1>2. CASE \E k \in Keys : Remove(k) \/ \E v \in Values : Put(k, v)
  <2>1. pc = "idle" /\ pc' = "write"
        /\ UNCHANGED <<file, images, endOffset, possible, history, tailLeft>>
    BY <1>2 DEF Remove, Put, Begin, fileVars, memory, ghosts
  <2> QED BY <2>1, SameFiles DEF Initialized
<1> QED
  BY <1>1, <1>2, ScanHistory, SizeHistory, SetLengthHistory, CutFlushHistory,
     WriteHistory, FlushHistory, EndHistory DEF Next

\* What an open finds is remembered.
LEMMA OpenRemembers ==
    ASSUME StoreInv, StoreInv', HistoryInv', [Next]_vars
    PROVE  ~Initialized /\ Initialized' /\ ~tailLeft' => Current' \in history
<1> SUFFICES ASSUME ~Initialized, Initialized', ~tailLeft' PROVE Current' \in history
  OBVIOUS
<1>1. InitializeSize \/ InitializeFlush
  BY DEF Next, vars, Initialized, InitializeScan, InitializeSetLength, Remove, Put,
         AppendWrite, AppendFlush, ProcessExit, PowerCut, End, AtRest
<1>2. history' = history
  BY <1>1 DEF InitializeSize, InitializeFlush
<1>3. images' \subseteq File /\ file' \in images' /\ pc' # "closed"
  BY DEF StoreInv, StoreTypes, Initialized
<1>4. PICK c : ChainIn(file', c) /\ index' = IndexOf(c) /\ endOffset' = EndOf(c)
  BY <1>3 DEF StoreInv, Opened
<1>5. Current' = Contents(c)
  BY <1>3, <1>4, NextOpenFacts
<1>6. ChainOf(images', c)
  BY <1>3, <1>4, ChainInFacts
<1>7. Remembered(images', history')
  BY DEF HistoryInv
<1> QED
  BY <1>2, <1>5, <1>6, <1>7 DEF Remembered

\* Whether the promise has ended or not, what an open finds was possible at some earlier
\* moment: Initialize loses only the newest records, unless it left a tail on the disk.
THEOREM StoreForgetsTheNewest == Spec => DamageForgetsTheNewest
<1>1. Init => StoreInv /\ HistoryInv
  BY InitStore, InitHistory
<1>2. StoreInv /\ HistoryInv /\ [Next]_vars => StoreInv' /\ HistoryInv'
  BY StepKeeps, StepKeepsHistory
<1>3. StoreInv /\ StoreInv' /\ HistoryInv' /\ [Next]_vars
        => [~Initialized /\ Initialized' /\ ~tailLeft' => Current' \in history]_vars
  BY OpenRemembers
<1> QED
  BY <1>1, <1>2, <1>3, PTL DEF Spec, DamageForgetsTheNewest
=============================================================================
