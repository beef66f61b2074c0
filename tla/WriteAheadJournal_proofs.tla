---------------------- MODULE WriteAheadJournal_proofs ----------------------
(***************************************************************************)
(* Proofs about the write-ahead journal: what a power cut leaves of it,    *)
(* for any number of appends, failing operations, power cuts and exits.    *)
(***************************************************************************)
EXTENDS WriteAheadJournal, TLAPS, WellFoundedInduction

-----------------------------------------------------------------------------
(* The inductive invariant.                                                *)

Frames == [seq : Nat, payload : Nat, accepted : BOOLEAN, run : Nat]
Files == Seq(Frames)

JournalTypes ==
    /\ file \in Files /\ synced \in Files
    /\ nextSequenceNumber \in Nat /\ pos \in Nat /\ appends \in Nat /\ faults \in Nat
    /\ pc \in {"idle", "append_flush", "replay", "truncate_flush", "failed"}
    /\ open \in BOOLEAN /\ acked \in Seq(Nat) /\ run \in Nat

\* What is in a file has been appended, and no Truncate that returned Ok removed it.
Appended(f) == \A i \in 1..Len(f) : f[i].payload \in (1..appends) \ truncated

\* The file has grown since it was last synced.
Grown ==
    /\ Len(synced) <= Len(file)
    /\ \A i \in 1..Len(synced) : file[i] = synced[i]

\* What is acknowledged is synced.
AckedIsSynced ==
    /\ acked # <<>> => Grown
    /\ \A i \in 1..Len(file) : i > Len(synced) => ~IsAcked(file[i].payload)
    /\ \A n \in ToSet(acked) : n \in 1..appends

\* Replay hands over the frame at i: it and all before it are accepted.
Found(f, i) == \A j \in 1..i : f[j].accepted

\* The frames of a file were written in runs, one after the other, none of which has yet
\* to begin.
RunsBegun(f) == \A i \in 1..Len(f) : f[i].run <= run

Ascending(f) ==
    \A i, j \in 1..Len(f) : i < j /\ Found(f, j) =>
        f[i].run <= f[j].run /\ (f[i].run = f[j].run => f[i].seq < f[j].seq)

\* The next sequence number is above all of this run that Replay would find, but for the
\* frame that is being appended, which has it.
NextIsAbove ==
    \A i \in 1..Len(file) : Found(file, i) /\ file[i].run = run =>
        /\ file[i].seq <= nextSequenceNumber
        /\ pc # "append_flush" => file[i].seq < nextSequenceNumber

JournalInv ==
    /\ JournalTypes
    /\ pc = "append_flush" => appends # 0
    /\ pc = "truncate_flush" => file = <<>> /\ acked = <<>>
    /\ truncated \subseteq 1..appends
    /\ Appended(file) /\ Appended(synced)
    /\ RunsBegun(file) /\ RunsBegun(synced)
    /\ AckedIsSynced
    /\ faults = 0 => /\ Ascending(file) /\ Ascending(synced)
                     /\ open => NextIsAbove

-----------------------------------------------------------------------------
(* What Replay finds, and what survives.                                   *)

\* A set of numbers that is not empty has a least one.
LEMMA MinFacts ==
    ASSUME NEW S, S \subseteq Nat, S # {}
    PROVE  Min(S) \in S /\ \A y \in S : Min(S) <= y
<1>1. \E x \in S : \A y \in S : ~(<<y, x>> \in OpToRel(<, Nat))
  BY NatLessThanWellFounded, WFMin
<1>2. PICK x \in S : \A y \in S : ~(<<y, x>> \in OpToRel(<, Nat))
  BY <1>1
<1>3. \A y \in S : x <= y
  <2> SUFFICES ASSUME NEW y \in S PROVE x <= y
    OBVIOUS
  <2>1. x \in Nat /\ y \in Nat
    OBVIOUS
  <2>2. ~(y < x)
    <3>1. y < x => <<y, x>> \in OpToRel(<, Nat)
      BY <2>1 DEF OpToRel
    <3> QED BY <1>2, <3>1
  <2> QED BY <2>1, <2>2
<1>4. \E z \in S : \A y \in S : z <= y
  BY <1>3
<1> QED
  BY <1>4 DEF Min

\* Replay hands over the frames of the file up to the first that is not accepted.
LEMMA ValidFacts ==
    ASSUME NEW f \in Files
    PROVE  /\ Valid(f) \in Files /\ Len(Valid(f)) <= Len(f)
           /\ \A i \in 1..Len(f) : i \in 1..Len(Valid(f)) <=> Found(f, i)
           /\ \A i \in 1..Len(Valid(f)) : Valid(f)[i] = f[i]
<1> DEFINE bad == {i \in DOMAIN f : ~f[i].accepted}
<1>1. Len(f) \in Nat /\ DOMAIN f = 1..Len(f)
  BY DEF Files
<1>2. CASE bad = {}
  <2>1. Valid(f) = f
    BY <1>2 DEF Valid
  <2>2. \A i \in 1..Len(f) : f[i].accepted
    BY <1>1, <1>2
  <2>3. \A i \in 1..Len(f) : Found(f, i)
    BY <1>1, <2>2 DEF Found
  <2> QED BY <1>1, <2>1, <2>3
<1>3. CASE bad # {}
  <2>1. Valid(f) = SubSeq(f, 1, Min(bad) - 1)
    BY <1>3 DEF Valid
  <2>2. bad \subseteq Nat
    BY <1>1
  <2>3. Min(bad) \in bad /\ \A y \in bad : Min(bad) <= y
    BY <1>3, <2>2, MinFacts
  <2>4. PICK m \in 1..Len(f) : m = Min(bad) /\ ~f[m].accepted
    BY <1>1, <2>3
  <2>5. ASSUME NEW i \in 1..Len(f), i < m PROVE f[i].accepted
    <3>1. i \notin bad
      <4> HIDE DEF bad
      <4>1. i \in bad => m <= i
        BY <2>3, <2>4
      <4> QED BY <1>1, <2>5, <4>1
    <3> QED BY <1>1, <3>1
  <2> HIDE DEF bad
  <2>6. /\ SubSeq(f, 1, m - 1) \in Files /\ Len(SubSeq(f, 1, m - 1)) = m - 1
        /\ \A i \in 1..(m - 1) : SubSeq(f, 1, m - 1)[i] = f[i]
    BY <1>1, <2>4 DEF Files
  <2>7. \A i \in 1..Len(f) : i \in 1..(m - 1) <=> Found(f, i)
    BY <1>1, <2>4, <2>5 DEF Found
  <2> QED BY <1>1, <2>1, <2>4, <2>6, <2>7
<1> QED
  BY <1>2, <1>3

\* IsPrefix(synced, file), frame by frame.
LEMMA PrefixIsGrown ==
    ASSUME file \in Files, synced \in Files
    PROVE  IsPrefix(synced, file) <=> Grown
<1>1. Len(synced) \in Nat /\ Len(file) \in Nat
  BY DEF Files
<1>2. SubSeq(synced, 1, Len(synced)) = synced
  BY DEF Files
<1>3. ASSUME Len(synced) <= Len(file)
      PROVE  /\ SubSeq(file, 1, Len(synced)) \in Files
             /\ Len(SubSeq(file, 1, Len(synced))) = Len(synced)
             /\ \A i \in 1..Len(synced) : SubSeq(file, 1, Len(synced))[i] = file[i]
  BY <1>1, <1>3 DEF Files
<1>4. ASSUME Grown PROVE IsPrefix(synced, file)
  <2>1. PICK p \in Files : p = SubSeq(file, 1, Len(synced))
    BY <1>3, <1>4 DEF Grown
  <2>2. Len(p) = Len(synced) /\ \A i \in 1..Len(synced) : p[i] = synced[i]
    BY <1>3, <1>4, <2>1 DEF Grown
  <2>3. p = synced
    BY <2>2 DEF Files
  <2> QED BY <1>2, <1>4, <2>1, <2>3 DEF IsPrefix, Grown
<1>5. ASSUME IsPrefix(synced, file) PROVE Grown
  BY <1>2, <1>3, <1>5 DEF IsPrefix, Grown
<1> QED
  BY <1>4, <1>5

\* What f, left by a power cut, has: the frames that were synced, or as many of the file's
\* as there are of it, the last one torn perhaps; and whatever was synced if the file has
\* not been cut off since.
Survives(f) ==
    /\ f \in Files
    /\ \/ f = synced
       \/ /\ Len(f) <= Len(file)
          /\ \A i \in 1..Len(f) : /\ f[i].payload = file[i].payload
                                  /\ f[i].seq = file[i].seq /\ f[i].run = file[i].run
                                  /\ f[i].accepted => f[i] = file[i]
    /\ Grown => /\ Len(synced) <= Len(f)
                /\ \A i \in 1..Len(synced) : f[i] = file[i]

\* The first n frames of the file.
LEMMA CutFacts ==
    ASSUME file \in Files, NEW n \in 0..Len(file)
    PROVE  /\ SubSeq(file, 1, n) \in Files /\ Len(SubSeq(file, 1, n)) = n
           /\ \A i \in 1..n : SubSeq(file, 1, n)[i] = file[i]
BY DEF Files

\* A torn frame keeps its place, and nothing else of the file changes.
LEMMA TornFacts ==
    ASSUME NEW c \in Files, c # <<>>
    PROVE  /\ TornLast(c) \in Files /\ Len(TornLast(c)) = Len(c) /\ Len(c) > 0
           /\ ~TornLast(c)[Len(c)].accepted
           /\ TornLast(c)[Len(c)].payload = c[Len(c)].payload
           /\ TornLast(c)[Len(c)].seq = c[Len(c)].seq
           /\ TornLast(c)[Len(c)].run = c[Len(c)].run
           /\ \A i \in 1..Len(c) : i # Len(c) => TornLast(c)[i] = c[i]
<1>1. Len(c) \in Nat /\ Len(c) > 0 /\ Len(c) \in 1..Len(c) /\ c[Len(c)] \in Frames
  BY DEF Files
<1> DEFINE r == [c[Len(c)] EXCEPT !.accepted = FALSE]
<1>2. /\ r \in Frames /\ ~r.accepted
      /\ r.payload = c[Len(c)].payload /\ r.seq = c[Len(c)].seq /\ r.run = c[Len(c)].run
  BY <1>1 DEF Frames
<1>3. TornLast(c) = [c EXCEPT ![Len(c)] = r]
  BY DEF TornLast
<1> HIDE DEF r
<1> QED
  BY <1>1, <1>2, <1>3 DEF Files

\* All that Survivors allows for survives in this sense.
LEMMA SurvivorFacts ==
    ASSUME file \in Files, synced \in Files, NEW f \in Survivors
    PROVE  Survives(f)
<1> DEFINE from == IF Grown THEN Len(synced) ELSE 0
<1>1. Len(file) \in Nat /\ Len(synced) \in Nat /\ from \in Nat
  BY DEF Files
<1>2. ASSUME NEW n \in from..Len(file) PROVE Survives(SubSeq(file, 1, n))
  <2>1. n \in 0..Len(file)
    BY <1>1
  <2>2. PICK c \in Files : c = SubSeq(file, 1, n)
    BY <2>1, CutFacts
  <2>3. Len(c) = n /\ \A i \in 1..n : c[i] = file[i]
    BY <2>1, <2>2, CutFacts
  <2>4. Survives(c)
    BY <1>1, <2>1, <2>3 DEF Survives
  <2> QED BY <2>2, <2>4
<1>3. ASSUME NEW n \in from..Len(file), n > from PROVE Survives(TornLast(SubSeq(file, 1, n)))
  <2>1. n \in 0..Len(file) /\ n > 0
    BY <1>1, <1>3
  <2>2. PICK c \in Files : c = SubSeq(file, 1, n)
    BY <2>1, CutFacts
  <2>3. Len(c) = n /\ (\A i \in 1..n : c[i] = file[i]) /\ c # <<>>
    BY <2>1, <2>2, CutFacts DEF Files
  <2>4. PICK t \in Files : t = TornLast(c)
    BY <2>3, TornFacts
  <2>5. /\ Len(t) = n /\ ~t[n].accepted
        /\ t[n].payload = c[n].payload /\ t[n].seq = c[n].seq /\ t[n].run = c[n].run
        /\ \A i \in 1..n : i # n => t[i] = c[i]
    BY <2>3, <2>4, TornFacts
  <2>6. \A i \in 1..n : /\ t[i].payload = file[i].payload /\ t[i].seq = file[i].seq
                        /\ t[i].run = file[i].run
                        /\ t[i].accepted => t[i] = file[i]
    BY <2>3, <2>5
  <2>7. Grown => Len(synced) <= Len(t) /\ \A i \in 1..Len(synced) : t[i] = file[i]
    BY <1>1, <1>3, <2>3, <2>5
  <2>8. Survives(t)
    BY <2>1, <2>5, <2>6, <2>7 DEF Survives
  <2> QED BY <2>2, <2>4, <2>8
<1>4. Survives(synced)
  BY DEF Survives, Grown
<1>5. \/ f = synced
      \/ \E n \in from..Len(file) : f = SubSeq(file, 1, n)
      \/ \E n \in from..Len(file) : n > from /\ f = TornLast(SubSeq(file, 1, n))
  <2>1. from = IF IsPrefix(synced, file) THEN Len(synced) ELSE 0
    BY PrefixIsGrown
  <2>2. \A n \in from..Len(file) : Len(SubSeq(file, 1, n)) = n
    BY <1>1, CutFacts
  <2> HIDE DEF from
  <2> QED BY <2>1, <2>2 DEF Survivors
<1> QED
  BY <1>2, <1>3, <1>4, <1>5

-----------------------------------------------------------------------------
(* The invariant, action by action.                                        *)

\* The parts of a frame of a file.
LEMMA FrameTypes ==
    ASSUME NEW f \in Files, NEW i \in 1..Len(f)
    PROVE  f[i] \in Frames /\ f[i].seq \in Nat /\ f[i].payload \in Nat /\ f[i].run \in Nat
<1>1. f[i] \in Frames
  BY DEF Files
<1> QED
  BY <1>1 DEF Frames

\* The frames of a file with one more.
LEMMA AppendFacts ==
    ASSUME NEW f \in Files, NEW x \in Frames
    PROVE  /\ Append(f, x) \in Files /\ Len(Append(f, x)) = Len(f) + 1 /\ Len(f) \in Nat
           /\ \A i \in 1..Len(f) : Append(f, x)[i] = f[i]
           /\ Append(f, x)[Len(f) + 1] = x
BY DEF Files

\* A frame is written, whole or not, or nothing is.
LEMMA AppendWriteKeeps ==
    ASSUME JournalInv, AppendWrite
    PROVE  JournalInv'
<1>1. /\ pc = "idle" /\ open /\ appends' = appends + 1
      /\ UNCHANGED <<synced, nextSequenceNumber, pos, open, acked, truncated, run>>
  BY DEF AppendWrite, counters, sessions
<1>t. /\ file \in Files /\ synced \in Files /\ appends \in Nat /\ faults \in Nat
      /\ nextSequenceNumber \in Nat /\ acked \in Seq(Nat) /\ run \in Nat
  BY DEF JournalInv, JournalTypes
<1>2. /\ pc' \in {"idle", "append_flush"}
      /\ \/ UNCHANGED <<faults>> /\ pc' = "append_flush"
         \/ faults' = faults + 1
  BY <1>1 DEF AppendWrite, Fault
<1>3. faults' \in Nat /\ (faults' = 0 => faults = 0 /\ pc' = "append_flush")
  BY <1>t, <1>2
<1>a. truncated' \subseteq 1..appends' /\ appends' # 0
  BY <1>1, <1>t DEF JournalInv
<1>b. Appended(synced)' /\ RunsBegun(synced)'
  BY <1>1, <1>t DEF JournalInv, Appended, RunsBegun
<1>4. CASE UNCHANGED file
  <2>0. JournalTypes'
    BY <1>1, <1>2, <1>3, <1>4, <1>t DEF JournalInv, JournalTypes
  <2>1. Appended(file)' /\ RunsBegun(file)'
    BY <1>1, <1>4, <1>t DEF JournalInv, Appended, RunsBegun
  <2>2. AckedIsSynced'
    BY <1>1, <1>4, <1>t DEF JournalInv, AckedIsSynced, Grown, IsAcked
  <2>3. faults' # 0
    <3>1. UNCHANGED faults => file' # file
      <4>1. ASSUME NEW a \in BOOLEAN PROVE Append(file, Frame(appends + 1, a)) # file
        <5>1. Frame(appends + 1, a) \in Frames
          BY <1>t DEF Frame, Frames
        <5>2. Len(Append(file, Frame(appends + 1, a))) = Len(file) + 1 /\ Len(file) \in Nat
          BY <1>t, <5>1, AppendFacts
        <5> QED BY <5>2
      <4>2. faults + 1 # faults
        BY <1>t
      <4> QED BY <4>1, <4>2 DEF AppendWrite, Fault
    <3> QED BY <1>2, <1>4, <1>t, <3>1
  <2> QED BY <1>2, <1>a, <1>b, <2>0, <2>1, <2>2, <2>3 DEF JournalInv
<1>5. CASE file' # file
  <2>1. PICK a \in BOOLEAN : file' = Append(file, Frame(appends + 1, a))
    BY <1>5 DEF AppendWrite
  <2>x. /\ Frame(appends + 1, a) \in Frames
        /\ Frame(appends + 1, a).payload = appends + 1
        /\ Frame(appends + 1, a).seq = nextSequenceNumber
        /\ Frame(appends + 1, a).run = run
    BY <1>t DEF Frame, Frames
  <2>2. PICK x \in Frames : /\ x = Frame(appends + 1, a)
                            /\ x.payload = appends + 1 /\ x.seq = nextSequenceNumber
                            /\ x.run = run
    BY <2>x
  <2>3. /\ file' \in Files /\ Len(file') = Len(file) + 1 /\ Len(file) \in Nat
        /\ \A i \in 1..Len(file) : file'[i] = file[i]
        /\ file'[Len(file) + 1] = x
    BY <1>t, <2>1, <2>2, AppendFacts
  <2>4. JournalTypes'
    BY <1>1, <1>2, <1>3, <1>t, <2>3 DEF JournalInv, JournalTypes
  <2>5. Appended(file)'
    <3> SUFFICES ASSUME NEW i \in 1..Len(file')
                 PROVE  file'[i].payload \in (1..appends') \ truncated'
      BY DEF Appended
    <3>1. CASE i \in 1..Len(file)
      BY <1>1, <1>t, <2>3, <3>1 DEF JournalInv, Appended
    <3>2. CASE i = Len(file) + 1
      <4>1. appends + 1 \in 1..appends' /\ appends + 1 \notin 1..appends
        BY <1>1, <1>t
      <4>2. file'[i].payload = appends + 1
        BY <2>2, <2>3, <3>2
      <4> QED BY <1>1, <4>1, <4>2 DEF JournalInv
    <3> QED BY <2>3, <3>1, <3>2
  <2>r. RunsBegun(file)'
    <3>1. \A i \in 1..Len(file') : i \in 1..Len(file) \/ i = Len(file) + 1
      BY <2>3
    <3> QED BY <1>1, <1>t, <2>2, <2>3, <3>1 DEF JournalInv, RunsBegun
  <2>6. AckedIsSynced'
    <3>0. Len(synced) \in Nat
      BY <1>t DEF Files
    <3>1. acked' # <<>> => Grown'
      BY <1>1, <2>3, <3>0 DEF JournalInv, AckedIsSynced, Grown
    <3>2. \A n \in ToSet(acked') : n \in 1..appends /\ n \in 1..appends'
      BY <1>1, <1>t DEF JournalInv, AckedIsSynced
    <3>3. ASSUME NEW i \in 1..Len(file'), i > Len(synced')
          PROVE  file'[i].payload \notin ToSet(acked')
      <4>1. CASE i \in 1..Len(file)
        BY <1>1, <2>3, <3>3, <4>1 DEF JournalInv, AckedIsSynced, IsAcked
      <4>2. CASE i = Len(file) + 1
        <5>1. file'[i].payload = appends + 1 /\ appends + 1 \notin 1..appends
          BY <1>t, <2>2, <2>3, <4>2
        <5> QED BY <3>2, <5>1
      <4> QED BY <2>3, <4>1, <4>2
    <3> QED BY <3>1, <3>2, <3>3 DEF AckedIsSynced, IsAcked
  <2>7. ASSUME faults' = 0 PROVE Ascending(file)' /\ Ascending(synced)' /\ NextIsAbove'
    <3>1. faults = 0 /\ pc' = "append_flush"
      BY <1>3, <2>7
    <3>2. Ascending(file) /\ Ascending(synced) /\ NextIsAbove
      BY <1>1, <3>1 DEF JournalInv
    <3>3. ASSUME NEW i \in 1..Len(file), Found(file', i) PROVE Found(file, i)
      BY <2>3, <3>3 DEF Found
    <3>4. ASSUME NEW i \in 1..Len(file), Found(file', Len(file) + 1)
          PROVE  Found(file', i)
      BY <2>3, <3>4 DEF Found
    <3>5. \A i \in 1..Len(file) : Found(file, i) /\ file[i].run = run =>
                                    file[i].seq < nextSequenceNumber
      BY <1>1, <3>2 DEF NextIsAbove
    <3>6. Ascending(file)'
      <4> SUFFICES ASSUME NEW i \in 1..Len(file'), NEW j \in 1..Len(file'),
                          i < j, Found(file', j)
                   PROVE  /\ file'[i].run <= file'[j].run
                          /\ file'[i].run = file'[j].run => file'[i].seq < file'[j].seq
        BY DEF Ascending
      <4>1. CASE j \in 1..Len(file)
        <5>1. i \in 1..Len(file) /\ Found(file, j)
          BY <2>3, <3>3, <4>1
        <5>2. /\ file[i].run <= file[j].run
              /\ file[i].run = file[j].run => file[i].seq < file[j].seq
          BY <3>2, <4>1, <5>1 DEF Ascending
        <5> QED BY <2>3, <4>1, <5>1, <5>2
      <4>2. CASE j = Len(file) + 1
        <5>1. i \in 1..Len(file)
          BY <2>3, <4>2
        <5>2. file[i].run <= run /\ (file[i].run = run => file[i].seq < nextSequenceNumber)
          BY <3>3, <3>4, <3>5, <4>2, <5>1 DEF JournalInv, RunsBegun
        <5> QED BY <2>2, <2>3, <4>2, <5>1, <5>2
      <4> QED BY <2>3, <4>1, <4>2
    <3>7. Ascending(synced)'
      BY <1>1, <3>2 DEF Ascending
    <3>8. NextIsAbove'
      <4> SUFFICES ASSUME NEW i \in 1..Len(file'), Found(file', i), file'[i].run = run'
                   PROVE  file'[i].seq <= nextSequenceNumber'
        BY <3>1 DEF NextIsAbove
      <4>1. CASE i \in 1..Len(file)
        BY <1>1, <2>3, <3>2, <3>3, <4>1 DEF NextIsAbove
      <4>2. CASE i = Len(file) + 1
        BY <1>1, <1>t, <2>2, <2>3, <4>2
      <4> QED BY <2>3, <4>1, <4>2
    <3> QED BY <3>6, <3>7, <3>8
  <2> QED BY <1>2, <1>a, <1>b, <2>4, <2>5, <2>r, <2>6, <2>7 DEF JournalInv
<1> QED
  BY <1>4, <1>5

\* FlushDurable: what is acknowledged now is in the file, and the file is synced.
LEMMA AppendFlushKeeps ==
    ASSUME JournalInv, AppendFlush
    PROVE  JournalInv'
<1>t. /\ file \in Files /\ appends \in Nat /\ faults \in Nat
      /\ nextSequenceNumber \in Nat /\ acked \in Seq(Nat)
  BY DEF JournalInv, JournalTypes
<1>1. /\ pc = "append_flush" /\ pc' = "idle"
      /\ UNCHANGED <<file, pos, open, appends, truncated, run>>
  BY DEF AppendFlush, sessions
<1>2. CASE /\ synced' = file /\ nextSequenceNumber' = nextSequenceNumber + 1
           /\ acked' = Append(acked, appends) /\ UNCHANGED faults
  <2>1. /\ acked' \in Seq(Nat)
        /\ \A n \in ToSet(acked') : n \in ToSet(acked) \/ n = appends
    BY <1>2, <1>t DEF ToSet
  <2>2. JournalTypes'
    BY <1>1, <1>2, <2>1 DEF JournalInv, JournalTypes
  <2>3. Appended(file)' /\ Appended(synced)' /\ RunsBegun(file)' /\ RunsBegun(synced)'
    BY <1>1, <1>2 DEF JournalInv, Appended, RunsBegun
  <2>4. AckedIsSynced'
    <3>1. Len(file) \in Nat
      BY <1>t DEF Files
    <3>2. Grown'
      BY <1>1, <1>2, <3>1 DEF Grown
    <3>3. \A i \in 1..Len(file') : ~(i > Len(synced'))
      BY <1>1, <1>2, <3>1
    <3>4. appends \in 1..appends
      <4>1. appends # 0
        BY <1>1 DEF JournalInv
      <4> QED BY <1>t, <4>1
    <3>5. \A n \in ToSet(acked') : n \in 1..appends'
      BY <1>1, <2>1, <3>4 DEF JournalInv, AckedIsSynced
    <3> QED BY <3>2, <3>3, <3>5 DEF AckedIsSynced
  <2>5. ASSUME faults' = 0 PROVE /\ Ascending(file)' /\ Ascending(synced)'
                                 /\ open' => NextIsAbove'
    <3>1. Ascending(file) /\ (open => NextIsAbove)
      BY <1>2, <2>5 DEF JournalInv
    <3>2. Ascending(file)' /\ Ascending(synced)'
      BY <1>1, <1>2, <3>1 DEF Ascending
    <3>3. ASSUME open, NEW i \in 1..Len(file), Found(file, i), file[i].run = run
          PROVE  file[i].seq < nextSequenceNumber + 1
      <4>1. file[i].seq <= nextSequenceNumber
        BY <3>1, <3>3 DEF NextIsAbove
      <4>2. file[i].seq \in Nat
        BY <1>t, FrameTypes
      <4> QED BY <1>t, <4>1, <4>2
    <3>4. open' => NextIsAbove'
      <4> SUFFICES ASSUME open, NEW i \in 1..Len(file), Found(file, i), file[i].run = run
                   PROVE  /\ file[i].seq <= nextSequenceNumber + 1
                          /\ file[i].seq < nextSequenceNumber + 1
        BY <1>1, <1>2 DEF NextIsAbove, Found
      <4>1. file[i].seq \in Nat
        BY <1>t, FrameTypes
      <4> QED BY <1>t, <3>3, <4>1
    <3> QED BY <3>2, <3>4
  <2> QED BY <1>1, <2>2, <2>3, <2>4, <2>5 DEF JournalInv
<1>3. CASE Fault /\ UNCHANGED <<synced, counters, acked>>
  <2>1. faults' \in Nat /\ faults' # 0
    BY <1>3, <1>t DEF Fault
  <2>2. JournalTypes'
    BY <1>1, <1>3, <2>1 DEF JournalInv, JournalTypes, counters
  <2>3. /\ Appended(file)' /\ Appended(synced)' /\ AckedIsSynced'
        /\ RunsBegun(file)' /\ RunsBegun(synced)'
    BY <1>1, <1>3 DEF JournalInv, Appended, AckedIsSynced, Grown, IsAcked, RunsBegun
  <2> QED BY <1>1, <2>1, <2>2, <2>3 DEF JournalInv
<1> QED
  BY <1>2, <1>3 DEF AppendFlush

\* Replay changes neither the file nor what is synced or acknowledged.
LEMMA ReplayKeeps ==
    ASSUME JournalInv, ReplayBegin \/ ReplayRecord \/ ReplayEnd
    PROVE  JournalInv'
<1>t. /\ file \in Files /\ appends \in Nat /\ faults \in Nat
      /\ nextSequenceNumber \in Nat /\ pos \in Nat
  BY DEF JournalInv, JournalTypes
<1>1. /\ pc \notin {"append_flush", "truncate_flush"} /\ pc' \in {"idle", "replay", "failed"}
      /\ UNCHANGED <<fileVars, ghosts, run>>
  BY DEF ReplayBegin, ReplayRecord, ReplayEnd, sessions
<1>2. faults' \in Nat /\ (faults' = 0 => faults = 0)
  BY <1>t DEF ReplayBegin, ReplayRecord, ReplayEnd, ReplayStops, Fault
<1>3. /\ Appended(file)' /\ Appended(synced)' /\ AckedIsSynced'
      /\ RunsBegun(file)' /\ RunsBegun(synced)'
  BY <1>1 DEF JournalInv, Appended, AckedIsSynced, Grown, IsAcked, RunsBegun, fileVars, ghosts
<1>4. faults' = 0 => Ascending(file)' /\ Ascending(synced)'
  BY <1>1, <1>2 DEF JournalInv, Ascending, fileVars
<1>5. CASE ReplayBegin \/ ReplayRecord
  <2>1. UNCHANGED <<nextSequenceNumber, open>> /\ pos' \in Nat
    BY <1>5, <1>t DEF ReplayBegin, ReplayRecord, counters
  <2>2. JournalTypes'
    BY <1>1, <1>2, <2>1 DEF JournalInv, JournalTypes, fileVars, ghosts
  <2>3. faults' = 0 /\ open' => NextIsAbove'
    BY <1>1, <1>2, <2>1 DEF JournalInv, NextIsAbove, fileVars
  <2> QED BY <1>1, <1>3, <1>4, <2>2, <2>3 DEF JournalInv, ghosts
<1>6. CASE ReplayEnd
  <2>1. /\ ReplayStops /\ open' = TRUE /\ UNCHANGED pos
        /\ nextSequenceNumber' = SequenceAfterReplay
    BY <1>6 DEF ReplayEnd
  <2>2. /\ Valid(file) \in Files /\ Len(Valid(file)) <= Len(file)
        /\ \A i \in 1..Len(file) : i \in 1..Len(Valid(file)) <=> Found(file, i)
    BY <1>t, ValidFacts
  <2>3. Len(file) \in Nat /\ Len(Valid(file)) \in Nat
    BY <1>t, <2>2 DEF Files
  <2>4. pos <= Len(Valid(file)) /\ (faults' = 0 => pos = Len(Valid(file)))
    BY <1>t, <2>1, <2>3 DEF ReplayStops, Fault
  <2>5. pos # 0 => pos \in 1..Len(file) /\ file[pos].seq \in Nat
    <3>1. pos # 0 => pos \in 1..Len(file)
      BY <1>t, <2>2, <2>3, <2>4
    <3> QED BY <1>t, <3>1, FrameTypes
  <2>6. nextSequenceNumber' \in Nat
    BY <1>t, <2>1, <2>5 DEF SequenceAfterReplay
  <2>7. JournalTypes'
    BY <1>1, <1>2, <2>1, <2>6 DEF JournalInv, JournalTypes, fileVars, ghosts
  <2>8. ASSUME faults' = 0, NEW i \in 1..Len(file), Found(file, i), file[i].run = run
        PROVE  file[i].seq < nextSequenceNumber'
    <3>1. i \in 1..pos /\ pos # 0
      BY <2>2, <2>3, <2>4, <2>8
    <3>2. pos \in 1..Len(file) /\ Found(file, pos) /\ file[pos].seq \in Nat
      BY <1>t, <2>2, <2>3, <2>4, <2>5, <2>8, <3>1
    <3>3. nextSequenceNumber' = file[pos].seq + 1
      BY <2>1, <3>1 DEF SequenceAfterReplay
    <3>4. CASE i = pos
      BY <3>2, <3>3, <3>4
    <3>5. CASE i < pos
      <4>1. /\ file[i].run <= file[pos].run
            /\ file[i].run = file[pos].run => file[i].seq < file[pos].seq
        BY <1>2, <2>8, <3>2, <3>5 DEF JournalInv, Ascending
      <4>2. file[i].seq \in Nat /\ file[pos].run \in Nat /\ file[pos].run <= run /\ run \in Nat
        BY <1>t, <3>2, FrameTypes DEF JournalInv, JournalTypes, RunsBegun
      <4> QED BY <2>8, <3>2, <3>3, <4>1, <4>2
    <3> QED BY <1>t, <3>1, <3>4, <3>5
  <2>9. faults' = 0 => NextIsAbove'
    <3> SUFFICES ASSUME faults' = 0, NEW i \in 1..Len(file), Found(file, i), file[i].run = run
                 PROVE  file[i].seq <= nextSequenceNumber' /\ file[i].seq < nextSequenceNumber'
      BY <1>1 DEF NextIsAbove, Found, fileVars
    <3>1. file[i].seq \in Nat
      BY <1>t, FrameTypes
    <3> QED BY <2>6, <2>8, <3>1
  <2> QED BY <1>1, <1>3, <1>4, <2>7, <2>9 DEF JournalInv, ghosts
<1> QED
  BY <1>5, <1>6

\* The file without its frames is appended to and ascending, whatever the rest is.
LEMMA EmptyFile ==
    /\ <<>> \in Files /\ Len(<<>>) = 0 /\ 1..0 = {} /\ ToSet(<<>>) = {}
    /\ Ascending(<<>>) /\ Appended(<<>>) /\ RunsBegun(<<>>)
<1>1. <<>> \in Files /\ Len(<<>>) = 0 /\ 1..0 = {} /\ DOMAIN <<>> = {}
  BY DEF Files
<1> QED
  BY <1>1 DEF Ascending, Appended, RunsBegun, ToSet

\* SetLength(0) may be done, and nothing is acknowledged any more.
LEMMA TruncateBeginKeeps ==
    ASSUME JournalInv, TruncateBegin
    PROVE  JournalInv'
<1>t. file \in Files /\ synced \in Files /\ faults \in Nat /\ <<>> \in Seq(Nat)
  BY DEF JournalInv, JournalTypes
<1>1. /\ pc = "idle" /\ acked' = <<>> /\ file' \in {file, <<>>}
      /\ pc' \in {"idle", "truncate_flush"} /\ (pc' = "truncate_flush" => file' = <<>>)
      /\ UNCHANGED <<synced, counters, pos, open, appends, truncated, run>>
  BY DEF TruncateBegin, sessions
<1>2. faults' \in Nat /\ (faults' = 0 => faults = 0 /\ file' = <<>>)
  BY <1>t DEF TruncateBegin, Fault
<1>3. JournalTypes'
  BY <1>t, <1>1, <1>2, EmptyFile DEF JournalInv, JournalTypes, counters
<1>4. Appended(file)' /\ Appended(synced)' /\ RunsBegun(file)' /\ RunsBegun(synced)'
  BY <1>1, EmptyFile DEF JournalInv, Appended, RunsBegun
<1>5. AckedIsSynced'
  BY <1>1, EmptyFile DEF AckedIsSynced, IsAcked
<1>6. faults' = 0 => Ascending(file)' /\ Ascending(synced)' /\ NextIsAbove'
  BY <1>1, <1>2, EmptyFile DEF JournalInv, Ascending, NextIsAbove
<1> QED
  BY <1>1, <1>3, <1>4, <1>5, <1>6 DEF JournalInv

\* What is synced now is empty, and so nothing that was truncated can come back.
LEMMA TruncateFlushKeeps ==
    ASSUME JournalInv, TruncateFlush
    PROVE  JournalInv'
<1>t. synced \in Files /\ faults \in Nat /\ appends \in Nat
  BY DEF JournalInv, JournalTypes
<1>1. /\ pc = "truncate_flush" /\ pc' = "idle" /\ file = <<>> /\ acked = <<>>
      /\ UNCHANGED <<file, pos, open, appends, acked, run>>
  BY DEF TruncateFlush, JournalInv, sessions
<1>2. CASE /\ synced' = file /\ nextSequenceNumber' = 0 /\ truncated' = 1..appends
           /\ UNCHANGED faults
  <2>1. JournalTypes'
    BY <1>1, <1>2, EmptyFile DEF JournalInv, JournalTypes
  <2>2. /\ Appended(file)' /\ Appended(synced)' /\ AckedIsSynced'
        /\ RunsBegun(file)' /\ RunsBegun(synced)'
    BY <1>1, <1>2, EmptyFile DEF Appended, AckedIsSynced, IsAcked, RunsBegun
  <2>3. Ascending(file)' /\ Ascending(synced)' /\ NextIsAbove'
    BY <1>1, <1>2, EmptyFile DEF Ascending, NextIsAbove
  <2> QED BY <1>1, <1>2, <2>1, <2>2, <2>3 DEF JournalInv
<1>3. CASE Fault /\ UNCHANGED <<synced, counters, truncated>>
  <2>1. faults' \in Nat /\ faults' # 0
    BY <1>3, <1>t DEF Fault
  <2>2. JournalTypes'
    BY <1>1, <1>3, <2>1 DEF JournalInv, JournalTypes, counters
  <2>3. /\ Appended(file)' /\ Appended(synced)' /\ AckedIsSynced'
        /\ RunsBegun(file)' /\ RunsBegun(synced)'
    BY <1>1, <1>3, EmptyFile DEF JournalInv, Appended, AckedIsSynced, IsAcked, RunsBegun
  <2> QED BY <1>1, <1>3, <2>1, <2>2, <2>3 DEF JournalInv
<1> QED
  BY <1>2, <1>3 DEF TruncateFlush

\* What survives was appended, and not truncated.
LEMMA SurvivorsAppended ==
    ASSUME JournalInv, NEW f \in Survivors
    PROVE  Appended(f)
<1>1. Survives(f) /\ file \in Files /\ f \in Files
  BY SurvivorFacts DEF JournalInv, JournalTypes, Survives
<1>2. CASE f = synced
  BY <1>2 DEF JournalInv
<1>3. CASE /\ Len(f) <= Len(file)
           /\ \A i \in 1..Len(f) : f[i].payload = file[i].payload
  <2>1. \A i \in 1..Len(f) : i \in 1..Len(file)
    BY <1>1, <1>3 DEF Files
  <2> QED BY <1>3, <2>1 DEF JournalInv, Appended
<1> QED
  BY <1>1, <1>2, <1>3 DEF Survives

\* The next session has appended nothing yet, and its run, if it does not replay, is new.
LEMMA NextSessionKeeps ==
    ASSUME JournalInv, NextSession, file' \in Files, synced' \in Files,
           Appended(file'), Appended(synced'), RunsBegun(file'), RunsBegun(synced'),
           AckedIsSynced', faults = 0 => Ascending(file') /\ Ascending(synced')
    PROVE  JournalInv'
<1>1. /\ nextSequenceNumber' = 0 /\ pc' = "idle" /\ pos' = 0 /\ open' \in BOOLEAN
      /\ UNCHANGED <<appends, acked, truncated, faults>>
      /\ run' \in {run, run + 1} /\ (open' => run' = run + 1)
  BY DEF NextSession
<1>2. run \in Nat /\ run' \in Nat /\ run <= run'
  BY <1>1 DEF JournalInv, JournalTypes
<1>3. JournalTypes'
  BY <1>1, <1>2 DEF JournalInv, JournalTypes
<1>4. Appended(file)' /\ Appended(synced)'
  BY <1>1 DEF Appended
<1>5. ASSUME NEW f \in Files, NEW i \in 1..Len(f), f[i].run <= run
      PROVE  f[i].run <= run' /\ (open' => f[i].run # run')
  <2>1. f[i].run \in Nat
    BY FrameTypes
  <2> QED BY <1>1, <1>2, <1>5, <2>1
<1>6. RunsBegun(file)' /\ RunsBegun(synced)'
  BY <1>5 DEF RunsBegun
<1>7. open' => NextIsAbove'
  BY <1>5 DEF RunsBegun, NextIsAbove
<1> QED
  BY <1>1, <1>3, <1>4, <1>6, <1>7 DEF JournalInv, Ascending

\* A power cut: the next session begins with what survives.
LEMMA PowerCutKeeps ==
    ASSUME JournalInv, PowerCut
    PROVE  JournalInv'
<1>1. PICK f \in Survivors : file' = f /\ synced' = f
  BY DEF PowerCut
<1>2. NextSession /\ UNCHANGED <<appends, acked>>
  BY DEF PowerCut, NextSession
<1>3. Survives(f) /\ f \in Files /\ file \in Files
  BY SurvivorFacts DEF JournalInv, JournalTypes, Survives
<1>4. Len(f) \in Nat /\ Len(file) \in Nat
  BY <1>3 DEF Files
<1>5. Appended(f)
  BY SurvivorsAppended
<1>6. AckedIsSynced'
  BY <1>1, <1>2, <1>4 DEF JournalInv, AckedIsSynced, Grown
<1>7. RunsBegun(f) /\ (faults = 0 => Ascending(f))
  <2>1. CASE f = synced
    BY <2>1 DEF JournalInv
  <2>2. CASE /\ Len(f) <= Len(file)
             /\ \A i \in 1..Len(f) : /\ f[i].seq = file[i].seq /\ f[i].run = file[i].run
                                     /\ f[i].accepted => f[i] = file[i]
    <3>2. ASSUME NEW j \in 1..Len(f), Found(f, j) PROVE Found(file, j)
      BY <2>2, <1>4, <3>2 DEF Found
    <3>3. \A i \in 1..Len(f) : i \in 1..Len(file)
      BY <2>2, <1>4
    <3> QED BY <2>2, <3>2, <3>3 DEF JournalInv, Ascending, RunsBegun
  <2> QED BY <1>3, <2>1, <2>2 DEF Survives
<1> QED
  BY <1>1, <1>2, <1>3, <1>5, <1>6, <1>7, NextSessionKeeps

\* The process ends and the file stays as it is.
LEMMA ProcessExitKeeps ==
    ASSUME JournalInv, ProcessExit
    PROVE  JournalInv'
<1>1. NextSession /\ UNCHANGED <<file, synced, appends, acked>>
  BY DEF ProcessExit, NextSession, fileVars
<1>2. AckedIsSynced'
  BY <1>1 DEF JournalInv, AckedIsSynced, Grown, IsAcked
<1> QED
  BY <1>1, <1>2, NextSessionKeeps DEF JournalInv, JournalTypes

\* The journal keeps JournalInv: what is in the file and what is synced has been appended
\* since the last Truncate that returned Ok, what is acknowledged is synced, and while no
\* operation fails the sequence numbers of a run ascend and the next one is above them.
THEOREM JournalInvHolds == Spec => []JournalInv
<1>1. Init => JournalInv
  <2> SUFFICES ASSUME Init PROVE JournalInv
    OBVIOUS
  <2>1. JournalTypes
    <3>1. <<>> \in Seq(Nat)
      OBVIOUS
    <3> QED BY <3>1, EmptyFile DEF Init, JournalTypes
  <2>2. AckedIsSynced /\ Appended(file) /\ Appended(synced) /\ RunsBegun(file) /\ RunsBegun(synced)
    BY EmptyFile DEF Init, AckedIsSynced, Appended
  <2>3. Ascending(file) /\ Ascending(synced) /\ NextIsAbove
    BY EmptyFile DEF Init, Ascending, NextIsAbove
  <2> QED BY <2>1, <2>2, <2>3 DEF Init, JournalInv
<1>2. JournalInv /\ [Next]_vars => JournalInv'
  <2> SUFFICES ASSUME JournalInv, [Next]_vars PROVE JournalInv'
    OBVIOUS
  <2>1. CASE UNCHANGED vars
    BY <2>1 DEF JournalInv, JournalTypes, Appended, AckedIsSynced, IsAcked, Grown, Ascending,
       RunsBegun, NextIsAbove, Found, vars, fileVars, counters, ghosts, sessions
  <2> QED BY <2>1, AppendWriteKeeps, AppendFlushKeeps, ReplayKeeps, TruncateBeginKeeps,
             TruncateFlushKeeps, PowerCutKeeps, ProcessExitKeeps DEF Next, AtRest
<1> QED
  BY <1>1, <1>2, PTL DEF Spec

\* No record that a Truncate which returned Ok removed is in what a power cut leaves of the
\* file, at any moment of any session.
THEOREM TruncatedNeverReturns == Spec => []TruncatedStaysGone
<1>1. JournalInv => TruncatedStaysGone
  <2> SUFFICES ASSUME JournalInv, NEW f \in Survivors, NEW n \in ToSet(Payloads(f))
               PROVE  n \notin truncated
    BY DEF TruncatedStaysGone
  <2>1. Appended(f) /\ f \in Files
    BY SurvivorsAppended, SurvivorFacts DEF JournalInv, JournalTypes, Survives
  <2>2. PICK i \in 1..Len(f) : n = f[i].payload
    BY <2>1 DEF ToSet, Payloads, Files
  <2> QED BY <2>1, <2>2 DEF Appended
<1> QED
  BY <1>1, JournalInvHolds, PTL

\* While no I/O operation fails, Replay hands over records whose sequence numbers ascend
\* except at the first record of a session that was started without a Replay, whichever
\* sessions wrote them and wherever power cuts and exits ended these.
THEOREM ReplayIsInOrder == Spec => []SequenceOrdered
<1>1. JournalInv => SequenceOrdered
  <2> SUFFICES ASSUME JournalInv, faults = 0,
                      NEW i \in DOMAIN Valid(file), NEW j \in DOMAIN Valid(file), i < j,
                      Valid(file)[i].run = Valid(file)[j].run
               PROVE  Valid(file)[i].seq < Valid(file)[j].seq
    BY DEF SequenceOrdered
  <2>0. file \in Files
    BY DEF JournalInv, JournalTypes
  <2>1. /\ Valid(file) \in Files /\ Len(Valid(file)) <= Len(file)
        /\ \A k \in 1..Len(file) : k \in 1..Len(Valid(file)) <=> Found(file, k)
        /\ \A k \in 1..Len(Valid(file)) : Valid(file)[k] = file[k]
    BY <2>0, ValidFacts
  <2>2. /\ Len(file) \in Nat /\ Len(Valid(file)) \in Nat
        /\ i \in 1..Len(Valid(file)) /\ j \in 1..Len(Valid(file))
    BY <2>0, <2>1 DEF Files
  <2>3. i \in 1..Len(file) /\ j \in 1..Len(file) /\ Found(file, j)
    BY <2>1, <2>2
  <2>4. file[i].run = file[j].run => file[i].seq < file[j].seq
    BY <2>3 DEF JournalInv, Ascending
  <2> QED BY <2>1, <2>2, <2>4
<1> QED
  BY <1>1, JournalInvHolds, PTL

\* A record that is acknowledged and that Replay would find now is found after a power cut
\* now, whatever failed or was torn before.
THEOREM AckedPrefixIsSafe == Spec => []AckedPrefixSurvives
<1>1. JournalInv => AckedPrefixSurvives
  <2> SUFFICES ASSUME JournalInv, NEW f \in Survivors, NEW i \in DOMAIN Valid(file),
                      IsAcked(file[i].payload)
               PROVE  Valid(file)[i] \in ToSet(Valid(f))
    BY DEF AckedPrefixSurvives
  <2>0. file \in Files /\ synced \in Files
    BY DEF JournalInv, JournalTypes
  <2>1. /\ Valid(file) \in Files /\ Len(Valid(file)) <= Len(file)
        /\ \A k \in 1..Len(file) : k \in 1..Len(Valid(file)) <=> Found(file, k)
        /\ \A k \in 1..Len(Valid(file)) : Valid(file)[k] = file[k]
    BY <2>0, ValidFacts
  <2>2. Len(file) \in Nat /\ Len(Valid(file)) \in Nat /\ i \in 1..Len(Valid(file))
    BY <2>0, <2>1 DEF Files
  <2>3. i \in 1..Len(file) /\ Found(file, i) /\ Valid(file)[i] = file[i]
    BY <2>1, <2>2
  <2>4. Grown
    <3>1. acked # <<>>
      BY EmptyFile DEF IsAcked
    <3> QED BY <3>1 DEF JournalInv, AckedIsSynced
  <2>5. Len(synced) \in Nat /\ i \in 1..Len(synced)
    <3>1. Len(synced) \in Nat
      BY <2>0 DEF Files
    <3>2. ~(i > Len(synced))
      BY <2>3 DEF JournalInv, AckedIsSynced
    <3> QED BY <2>3, <3>1, <3>2
  <2>6. /\ f \in Files /\ Len(synced) <= Len(f)
        /\ \A k \in 1..Len(synced) : f[k] = file[k]
    BY <2>0, <2>4, SurvivorFacts DEF Survives
  <2>7. Len(f) \in Nat /\ i \in 1..Len(f) /\ f[i] = file[i]
    <3>1. Len(f) \in Nat
      BY <2>6 DEF Files
    <3> QED BY <2>5, <2>6, <3>1
  <2>8. Found(f, i)
    BY <2>3, <2>5, <2>6 DEF Found
  <2>9. i \in 1..Len(Valid(f)) /\ Valid(f)[i] = f[i] /\ Valid(f) \in Files
    BY <2>6, <2>7, <2>8, ValidFacts
  <2>10. i \in DOMAIN Valid(f)
    BY <2>9 DEF Files
  <2> QED BY <2>3, <2>7, <2>9, <2>10 DEF ToSet
<1> QED
  BY <1>1, JournalInvHolds, PTL

-----------------------------------------------------------------------------
(* Acknowledged records in a file without bad frames.                      *)

\* Each record is in the file once, the records are in the order of the Appends, the
\* acknowledged ones are among them, and so is the one whose flush is awaited, as the last.
OrderInv ==
    /\ InOrder(file) /\ InOrder(synced)
    /\ \A n \in ToSet(acked) : \E i \in 1..Len(file) : file[i].payload = n
    /\ pc = "append_flush" => Len(file) > 0 /\ file[Len(file)].payload = appends

\* The record of a new Append comes after all that are in the file.
LEMMA AppendKeepsOrder ==
    ASSUME NEW f \in Files, NEW x \in Frames, NEW n \in Nat, InOrder(f),
           \A i \in 1..Len(f) : f[i].payload \in 1..n, x.payload = n + 1
    PROVE  InOrder(Append(f, x))
<1> DEFINE g == Append(f, x)
<1>1. /\ g \in Files /\ Len(g) = Len(f) + 1 /\ Len(f) \in Nat
      /\ \A i \in 1..Len(f) : g[i] = f[i]
      /\ g[Len(f) + 1] = x
  BY AppendFacts
<1> HIDE DEF g
<1>2. DOMAIN f = 1..Len(f) /\ DOMAIN g = 1..(Len(f) + 1)
  BY <1>1 DEF Files
<1> SUFFICES ASSUME NEW i \in DOMAIN g, NEW j \in DOMAIN g, i < j
             PROVE  g[i].payload < g[j].payload
  BY DEF InOrder, g
<1>3. CASE j \in 1..Len(f)
  <2>1. i \in 1..Len(f)
    BY <1>1, <1>2, <1>3
  <2> QED BY <1>1, <1>2, <1>3, <2>1 DEF InOrder
<1>4. CASE j = Len(f) + 1
  <2>1. i \in 1..Len(f)
    BY <1>1, <1>2, <1>4
  <2>2. f[i].payload \in 1..n
    BY <2>1
  <2> QED BY <1>1, <1>4, <2>1, <2>2
<1> QED
  BY <1>1, <1>2, <1>3, <1>4

\* What survives a power cut is in order, and has what was synced if the file has grown.
LEMMA SurvivorsInOrder ==
    ASSUME JournalInv, OrderInv, NEW f \in Survivors
    PROVE  /\ f \in Files /\ InOrder(f)
           /\ acked # <<>> => /\ Len(synced) <= Len(f) /\ Len(synced) <= Len(file)
                              /\ \A i \in 1..Len(synced) : f[i] = file[i]
<1>1. file \in Files /\ synced \in Files /\ Survives(f) /\ f \in Files
  BY SurvivorFacts DEF JournalInv, JournalTypes, Survives
<1>2. /\ DOMAIN f = 1..Len(f) /\ DOMAIN file = 1..Len(file)
      /\ Len(f) \in Nat /\ Len(file) \in Nat
  BY <1>1 DEF Files
<1>3. InOrder(f)
  <2>1. CASE f = synced
    BY <2>1 DEF OrderInv
  <2>2. CASE Len(f) <= Len(file) /\ \A i \in 1..Len(f) : f[i].payload = file[i].payload
    <3>1. \A i \in 1..Len(f) : i \in 1..Len(file)
      BY <1>2, <2>2
    <3> QED BY <1>2, <2>2, <3>1 DEF OrderInv, InOrder
  <2> QED BY <1>1, <2>1, <2>2 DEF Survives
<1> QED
  BY <1>1, <1>3 DEF JournalInv, AckedIsSynced, Survives, Grown

\* An acknowledged record is in the part of the file that is synced.
LEMMA AckedPlace ==
    ASSUME JournalInv, OrderInv, NEW n \in ToSet(acked)
    PROVE  acked # <<>> /\ \E i \in 1..Len(synced) : i \in 1..Len(file) /\ file[i].payload = n
<1>1. file \in Files /\ synced \in Files
  BY DEF JournalInv, JournalTypes
<1>2. Len(file) \in Nat /\ Len(synced) \in Nat
  BY <1>1 DEF Files
<1>3. PICK i \in 1..Len(file) : file[i].payload = n
  BY DEF OrderInv
<1>4. ~(i > Len(synced))
  BY <1>3 DEF JournalInv, AckedIsSynced, IsAcked
<1>5. i \in 1..Len(synced)
  BY <1>2, <1>4
<1> QED
  BY <1>3, <1>5, EmptyFile

\* The order is kept by every step.
LEMMA OrderIsKept ==
    ASSUME JournalInv, OrderInv, [Next]_vars
    PROVE  OrderInv'
<1>t. file \in Files /\ synced \in Files /\ appends \in Nat
  BY DEF JournalInv, JournalTypes
<1>1. CASE AppendWrite
  <2>1. /\ UNCHANGED <<synced, acked>> /\ appends' = appends + 1 /\ pc = "idle"
    BY <1>1 DEF AppendWrite
  <2>2. CASE UNCHANGED <<file, pc>>
    BY <2>1, <2>2 DEF OrderInv, InOrder
  <2>3. CASE \E a \in BOOLEAN : file' = Append(file, Frame(appends + 1, a))
    <3>1. PICK a \in BOOLEAN : file' = Append(file, Frame(appends + 1, a))
      BY <2>3
    <3>2. Frame(appends + 1, a) \in Frames /\ Frame(appends + 1, a).payload = appends + 1
      BY <1>t DEF Frame, Frames, JournalInv, JournalTypes
    <3>3. PICK x \in Frames : x = Frame(appends + 1, a) /\ x.payload = appends + 1
      BY <3>2
    <3>4. /\ file' \in Files /\ Len(file') = Len(file) + 1 /\ Len(file) \in Nat
          /\ \A i \in 1..Len(file) : file'[i] = file[i]
          /\ file'[Len(file) + 1] = x
      BY <1>t, <3>1, <3>3, AppendFacts
    <3>5. \A i \in 1..Len(file) : file[i].payload \in 1..appends
      BY DEF JournalInv, Appended
    <3>6. InOrder(Append(file, x))
      BY <1>t, <3>3, <3>5, AppendKeepsOrder DEF OrderInv
    <3>7. InOrder(file)' /\ InOrder(synced)'
      BY <2>1, <3>1, <3>3, <3>6 DEF OrderInv, InOrder
    <3>8. \A n \in ToSet(acked') : \E i \in 1..Len(file') : file'[i].payload = n
      <4>1. \A i \in 1..Len(file) : i \in 1..Len(file')
        BY <3>4
      <4> QED BY <2>1, <3>4, <4>1 DEF OrderInv
    <3> QED BY <2>1, <3>3, <3>4, <3>7, <3>8 DEF OrderInv
  <2> QED BY <1>1, <2>2, <2>3 DEF AppendWrite
<1>2. CASE AppendFlush
  <2>1. /\ UNCHANGED file /\ pc = "append_flush" /\ pc' = "idle"
        /\ \/ synced' = file /\ acked' = Append(acked, appends)
           \/ UNCHANGED <<synced, acked>>
    BY <1>2 DEF AppendFlush
  <2>2. InOrder(file)' /\ InOrder(synced)'
    BY <2>1 DEF OrderInv, InOrder
  <2>3. \A n \in ToSet(acked') : n \in ToSet(acked) \/ n = appends
    BY <2>1 DEF ToSet, JournalInv, JournalTypes
  <2>4. Len(file) \in 1..Len(file) /\ file[Len(file)].payload = appends
    BY <1>t, <2>1 DEF OrderInv, Files
  <2> QED BY <2>1, <2>2, <2>3, <2>4 DEF OrderInv
<1>3. CASE ReplayBegin \/ ReplayRecord \/ ReplayEnd
  <2>1. UNCHANGED <<file, synced, acked>> /\ pc' # "append_flush"
    BY <1>3 DEF ReplayBegin, ReplayRecord, ReplayEnd, fileVars, ghosts
  <2> QED BY <2>1 DEF OrderInv, InOrder
<1>4. CASE TruncateBegin
  <2>1. acked' = <<>> /\ file' \in {file, <<>>} /\ UNCHANGED synced /\ pc' # "append_flush"
    BY <1>4 DEF TruncateBegin
  <2>2. InOrder(<<>>)
    BY DEF InOrder
  <2>3. InOrder(file)' /\ InOrder(synced)'
    BY <2>1, <2>2 DEF OrderInv, InOrder
  <2> QED BY <2>1, <2>3, EmptyFile DEF OrderInv
<1>5. CASE TruncateFlush
  <2>1. UNCHANGED <<file, acked>> /\ synced' \in {file, synced} /\ pc' # "append_flush"
    BY <1>5 DEF TruncateFlush
  <2> QED BY <2>1 DEF OrderInv, InOrder
<1>6. CASE PowerCut
  <2>1. PICK f \in Survivors : file' = f /\ synced' = f
    BY <1>6 DEF PowerCut
  <2>2. UNCHANGED acked /\ pc' = "idle"
    BY <1>6 DEF PowerCut, NextSession
  <2>3. InOrder(file)' /\ InOrder(synced)'
    BY <2>1, SurvivorsInOrder DEF InOrder
  <2>4. ASSUME NEW n \in ToSet(acked) PROVE \E i \in 1..Len(f) : f[i].payload = n
    <3>1. PICK i \in 1..Len(synced) : file[i].payload = n /\ acked # <<>>
      BY AckedPlace
    <3>2. f \in Files /\ Len(synced) <= Len(f) /\ f[i] = file[i]
      BY <3>1, SurvivorsInOrder
    <3>3. i \in 1..Len(f)
      BY <1>t, <3>2 DEF Files
    <3> QED BY <3>1, <3>2, <3>3
  <2> QED BY <2>1, <2>2, <2>3, <2>4 DEF OrderInv
<1>7. CASE ProcessExit
  <2>1. UNCHANGED <<file, synced, acked>> /\ pc' = "idle"
    BY <1>7 DEF ProcessExit, NextSession, fileVars
  <2> QED BY <2>1 DEF OrderInv, InOrder
<1>8. CASE UNCHANGED vars
  BY <1>8 DEF OrderInv, InOrder, vars, fileVars, ghosts
<1> QED
  BY <1>1, <1>2, <1>3, <1>4, <1>5, <1>6, <1>7, <1>8 DEF Next, AtRest

\* As long as no torn or oversized frame is in the file, a power cut loses no acknowledged
\* record: Replay hands all of them over, none twice and in the order of the Appends,
\* however many writes and flushes failed and sessions ended before.
THEOREM AckedIsReplayed == Spec => []AckedSurvivesUntorn
<1>1. Init => OrderInv
  BY EmptyFile DEF Init, OrderInv, InOrder
<1>2. JournalInv /\ OrderInv /\ [Next]_vars => OrderInv'
  BY OrderIsKept
<1>3. JournalInv /\ OrderInv => AckedSurvivesUntorn
  <2> SUFFICES ASSUME JournalInv, OrderInv, Untorn(file), NEW f \in Survivors
               PROVE  ToSet(acked) \subseteq ToSet(Payloads(Valid(f))) /\ InOrder(Valid(f))
    BY DEF AckedSurvivesUntorn
  <2>0. file \in Files /\ f \in Files /\ InOrder(f)
    BY SurvivorsInOrder DEF JournalInv, JournalTypes
  <2>1. /\ Valid(f) \in Files /\ Len(Valid(f)) <= Len(f)
        /\ \A i \in 1..Len(f) : i \in 1..Len(Valid(f)) <=> Found(f, i)
        /\ \A i \in 1..Len(Valid(f)) : Valid(f)[i] = f[i]
    BY <2>0, ValidFacts
  <2>2. /\ DOMAIN f = 1..Len(f) /\ DOMAIN Valid(f) = 1..Len(Valid(f))
        /\ Len(f) \in Nat /\ Len(Valid(f)) \in Nat /\ DOMAIN file = 1..Len(file)
    BY <2>0, <2>1 DEF Files
  <2>3. InOrder(Valid(f))
    <3>1. \A i \in 1..Len(Valid(f)) : i \in 1..Len(f)
      BY <2>1, <2>2
    <3> QED BY <2>0, <2>1, <2>2, <3>1 DEF InOrder
  <2>4. ASSUME NEW n \in ToSet(acked) PROVE n \in ToSet(Payloads(Valid(f)))
    <3>1. PICK i \in 1..Len(synced) :
              i \in 1..Len(file) /\ file[i].payload = n /\ acked # <<>>
      BY AckedPlace
    <3>2. /\ Len(synced) <= Len(f) /\ Len(synced) <= Len(file)
          /\ \A j \in 1..Len(synced) : f[j] = file[j]
      BY <3>1, SurvivorsInOrder
    <3>3. Len(synced) \in Nat /\ Len(file) \in Nat
      BY <2>0 DEF JournalInv, JournalTypes, Files
    <3>4. i \in 1..Len(f) /\ \A j \in 1..i : j \in 1..Len(synced) /\ j \in 1..Len(file)
      BY <2>2, <3>2, <3>3
    <3>5. Found(f, i)
      BY <2>2, <3>2, <3>4 DEF Found, Untorn
    <3>6. i \in DOMAIN Valid(f) /\ Valid(f)[i].payload = n
      BY <2>1, <2>2, <3>1, <3>2, <3>4, <3>5
    <3> QED BY <3>6 DEF ToSet, Payloads
  <2> QED BY <2>3, <2>4
<1> QED
  BY <1>1, <1>2, <1>3, JournalInvHolds, PTL DEF Spec
=============================================================================
