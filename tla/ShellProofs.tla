---------------------------- MODULE ShellProofs ----------------------------
(***************************************************************************)
(* Proofs about the shell's commands, for every size of name, file, table  *)
(* and scratch buffer, every disk and all lines typed.                     *)
(***************************************************************************)
EXTENDS Shell, WellFoundedInduction, SequenceTheorems, TLAPS

(***************************************************************************)
(* The inductive invariant.                                                *)
(***************************************************************************)

\* The scratch buffer and the files hold characters, and names are C strings.
BufferOK == io_buffer \in Seq(Chars) /\ Len(io_buffer) = IO_MAX
FilesOK ==
  \A name \in DOMAIN files :
       /\ IsText(name) /\ Len(name) < FS_MAX_NAME
       /\ files[name] \in Seq(Chars) /\ Len(files[name]) <= FS_MAX_SIZE

IInv == TypeOK /\ BufferOK /\ FilesOK

(***************************************************************************)
(* Least and greatest elements.                                            *)
(***************************************************************************)

\* What a minimal counterexample rests on.
LEMMA Least ==
  ASSUME NEW S \in SUBSET Nat, S # {}
  PROVE  \E i \in S : \A j \in S : i <= j
<1>1. PICK i \in S : \A j \in S : <<j, i>> \notin OpToRel(<, Nat)
  BY NatLessThanWellFounded, WFMin
<1>2. ASSUME NEW j \in S PROVE i <= j
  <2>1. i \in Nat /\ j \in Nat
    OBVIOUS
  <2>2. j < i => <<j, i>> \in OpToRel(<, Nat)
    BY <2>1 DEF OpToRel
  <2>3. ~(j < i)
    BY <1>1, <2>2, Zenon
  <2>4. QED
    BY <2>1, <2>3
<1>3. QED
  BY <1>2

\* The operator of the community module, on the sets it is used on.
LEMMA MinIsLeast ==
  ASSUME NEW S \in SUBSET Nat, S # {}
  PROVE  Min(S) \in S /\ \A j \in S : Min(S) <= j
BY Least DEF Min

LEMMA MinIs ==
  ASSUME NEW S \in SUBSET Nat, NEW i \in S, \A j \in S : i <= j
  PROVE  Min(S) = i
<1>1. Min(S) \in S /\ Min(S) <= i
  BY MinIsLeast
<1>2. Min(S) \in Nat /\ i \in Nat /\ i <= Min(S)
  BY <1>1
<1>3. QED
  BY <1>1, <1>2

(***************************************************************************)
(* Lines.                                                                  *)
(***************************************************************************)

LEMMA Sizes ==
  /\ FS_MAX_NAME \in Nat \ {0} /\ HEADER \in Nat \ {0} /\ FS_MAX_FILES \in Nat
  /\ IO_MAX \in Nat /\ FS_MAX_SIZE = IO_MAX /\ ListRoom \in Nat /\ 2 <= ListRoom /\ ListRoom <= IO_MAX
<1>1. /\ FS_MAX_NAME \in Nat \ {0} /\ HEADER \in Nat \ {0} /\ FS_MAX_FILES \in Nat
      /\ FS_MAX_SIZE \in Nat /\ FS_MAX_SIZE = IO_MAX /\ ListRoom <= IO_MAX
  BY ShellAssumption
<1>2. FS_MAX_FILES * FS_MAX_NAME \in Nat
  BY <1>1
<1>3. QED
  BY <1>1, <1>2 DEF ListRoom

\* A part of a text is one, and not longer.
LEMMA PartOfText ==
  ASSUME NEW s, IsText(s), NEW m \in Nat \ {0}, NEW n \in Nat, n <= Len(s)
  PROVE  /\ IsText(SubSeq(s, m, n)) /\ Len(SubSeq(s, m, n)) <= Len(s)
         /\ \A i \in DOMAIN SubSeq(s, m, n) : m + i - 1 <= n /\ SubSeq(s, m, n)[i] = s[m + i - 1]
<1>1. s \in Seq(Chars) /\ Len(s) \in Nat /\ DOMAIN s = 1 .. Len(s) /\ \A i \in DOMAIN s : s[i] # NUL
  BY LenProperties DEF IsText
<1>2. PICK part : part = SubSeq(s, m, n)
  OBVIOUS
<1>3. \A i \in m .. n : s[i] \in Chars
  BY <1>1, ElementOfSeq
<1>4. /\ part \in Seq(Chars) /\ Len(part) = IF m <= n THEN n - m + 1 ELSE 0
      /\ \A i \in 1 .. n - m + 1 : part[i] = s[m + i - 1]
  BY <1>2, <1>3, SubSeqProperties
<1>5. DOMAIN part = 1 .. Len(part) /\ Len(part) \in Nat
  BY <1>4, LenProperties
<1>6. ASSUME NEW i \in DOMAIN part
      PROVE  m + i - 1 <= n /\ part[i] = s[m + i - 1] /\ m + i - 1 \in 1 .. Len(s)
  BY <1>1, <1>4, <1>5
<1>7. \A i \in DOMAIN part : part[i] # NUL
  BY <1>1, <1>6
<1>8. Len(part) <= Len(s)
  BY <1>1, <1>4
<1>9. QED
  BY <1>2, <1>4, <1>6, <1>7, <1>8 DEF IsText

\* Leading spaces go, the rest stays.
LEMMA StrippedIsPart ==
  ASSUME NEW s, IsText(s)
  PROVE  IsText(Stripped(s)) /\ Len(Stripped(s)) <= Len(s)
<1> DEFINE starts == {i \in DOMAIN s : s[i] # Space} \cup {Len(s) + 1}
<1>1. Len(s) \in Nat /\ DOMAIN s = 1 .. Len(s)
  BY LenProperties DEF IsText
<1>2. starts \in SUBSET (Nat \ {0}) /\ starts # {}
  BY <1>1
<1>3. PICK first \in Nat \ {0} : first = Min(starts)
  <2>1. starts \in SUBSET Nat
    BY <1>2
  <2>2. Min(starts) \in starts
    BY <1>2, <2>1, MinIsLeast
  <2>3. QED
    BY <1>2, <2>2
<1>4. Stripped(s) = SubSeq(s, first, Len(s))
  BY <1>3 DEF Stripped
<1>5. QED
  BY <1>1, <1>4, PartOfText

\* The argument of a command is a text that is shorter than the line.
LEMMA ArgumentIsText ==
  ASSUME NEW cmd \in Lines
  PROVE  /\ IsText(cmd) /\ IsText(Argument(cmd))
         /\ Len(Argument(cmd)) <= Len(cmd) /\ Len(cmd) <= FS_MAX_SIZE
<1>1. IsText(cmd) /\ Len(cmd) <= FS_MAX_SIZE
  BY ShellAssumption
<1>2. Len(cmd) \in Nat
  BY <1>1, LenProperties DEF IsText
<1>3. IsText(SubSeq(cmd, 3, Len(cmd))) /\ Len(SubSeq(cmd, 3, Len(cmd))) <= Len(cmd)
  BY <1>1, <1>2, PartOfText
<1>4. PICK rest : rest = SubSeq(cmd, 3, Len(cmd))
  OBVIOUS
<1>5. IsText(Stripped(rest)) /\ Len(Stripped(rest)) <= Len(rest)
  BY <1>3, <1>4, StrippedIsPart
<1>6. Len(rest) \in Nat /\ Len(Stripped(rest)) \in Nat
  BY <1>3, <1>4, <1>5, LenProperties DEF IsText
<1>7. QED
  BY <1>1, <1>2, <1>3, <1>4, <1>5, <1>6 DEF Argument

\* write splits its argument at the first space: the name before it has none, and
\* the text behind it fits a file.
NameIn(arg) == SubSeq(arg, 1, NameEnd(arg) - 1)
TextIn(arg) == Stripped(SubSeq(arg, NameEnd(arg) + 1, Len(arg)))

LEMMA WriteSplits ==
  ASSUME NEW arg, IsText(arg), NEW k \in DOMAIN arg, arg[k] = Space
  PROVE  /\ IsText(NameIn(arg)) /\ ~Spaced(NameIn(arg))
         /\ IsText(TextIn(arg)) /\ Len(TextIn(arg)) <= Len(arg)
<1> DEFINE spaces == {i \in DOMAIN arg : arg[i] = Space}
<1>1. Len(arg) \in Nat /\ DOMAIN arg = 1 .. Len(arg)
  BY LenProperties DEF IsText
<1>2. spaces \in SUBSET Nat /\ spaces # {}
  BY <1>1
<1>3. PICK end \in 1 .. Len(arg) : end = NameEnd(arg) /\ \A i \in spaces : end <= i
  <2>1. Min(spaces) \in spaces /\ \A i \in spaces : Min(spaces) <= i
    BY <1>2, MinIsLeast
  <2>2. QED
    BY <1>1, <2>1 DEF NameEnd
<1>4. PICK name : name = SubSeq(arg, 1, end - 1)
  OBVIOUS
<1>5. /\ IsText(name)
      /\ \A i \in DOMAIN name : 1 + i - 1 <= end - 1 /\ name[i] = arg[1 + i - 1]
  <2>1. 1 \in Nat \ {0} /\ end - 1 \in Nat /\ end - 1 <= Len(arg)
    BY <1>1
  <2>2. QED
    BY <1>4, <2>1, PartOfText
<1>6. \A i \in DOMAIN name : name[i] # Space
  <2> SUFFICES ASSUME NEW i \in DOMAIN name, name[i] = Space PROVE FALSE
    OBVIOUS
  <2>1. i \in Nat \ {0}
    BY <1>5, LenProperties DEF IsText
  <2>2. i < end /\ name[i] = arg[i]
    BY <1>5, <2>1
  <2>3. i \in spaces
    BY <1>1, <2>1, <2>2
  <2>4. QED
    BY <1>3, <2>1, <2>2, <2>3
<1>7. PICK rest : rest = SubSeq(arg, end + 1, Len(arg))
  OBVIOUS
<1>8. IsText(rest) /\ Len(rest) <= Len(arg)
  BY <1>1, <1>7, PartOfText
<1>9. IsText(Stripped(rest)) /\ Len(Stripped(rest)) <= Len(rest)
  BY <1>8, StrippedIsPart
<1>10. Len(rest) \in Nat /\ Len(Stripped(rest)) \in Nat
  BY <1>8, <1>9, LenProperties DEF IsText
<1>11. NameIn(arg) = name /\ TextIn(arg) = Stripped(rest)
  BY <1>3, <1>4, <1>7 DEF NameIn, TextIn
<1>12. Len(Stripped(rest)) <= Len(arg)
  BY <1>1, <1>8, <1>9, <1>10
<1>13. QED
  BY <1>5, <1>6, <1>9, <1>11, <1>12 DEF Spaced

(***************************************************************************)
(* The scratch buffer.                                                     *)
(***************************************************************************)

\* The buffer after a text was copied to its start with a NUL behind it.
LEMMA FilledBuffer ==
  ASSUME BufferOK, NEW s \in Seq(Chars), Len(s) < IO_MAX
  PROVE  LET buffer == Filled(Terminated(s))
         IN /\ buffer \in Seq(Chars) /\ Len(buffer) = IO_MAX
            /\ \A i \in 1 .. Len(s) : buffer[i] = s[i]
            /\ buffer[Len(s) + 1] = NUL
<1>1. /\ IO_MAX \in Nat /\ Len(s) \in Nat /\ NUL \in Chars
      /\ DOMAIN io_buffer = 1 .. IO_MAX /\ \A i \in 1 .. IO_MAX : io_buffer[i] \in Chars
  <2>1. io_buffer \in Seq(Chars) /\ Len(io_buffer) = IO_MAX
    BY DEF BufferOK
  <2>2. DOMAIN io_buffer = 1 .. IO_MAX /\ \A i \in 1 .. IO_MAX : io_buffer[i] \in Chars
    BY <2>1, LenProperties, ElementOfSeq
  <2>3. QED
    BY <2>2, Sizes, LenProperties, ShellAssumption
<1>2. PICK t : t = Terminated(s)
  OBVIOUS
<1>3. /\ t \in Seq(Chars) /\ Len(t) = Len(s) + 1
      /\ \A i \in 1 .. Len(s) : t[i] = s[i]
      /\ t[Len(s) + 1] = NUL
  BY <1>1, <1>2, AppendProperties DEF Terminated
<1>4. DOMAIN t = 1 .. Len(s) + 1 /\ \A i \in 1 .. Len(s) + 1 : t[i] \in Chars
  BY <1>3, LenProperties, ElementOfSeq
<1>5. DOMAIN t \cup DOMAIN io_buffer = 1 .. IO_MAX
  BY <1>1, <1>4
<1>6. Filled(t) = [i \in 1 .. IO_MAX |-> IF i \in DOMAIN t THEN t[i] ELSE io_buffer[i]]
  BY <1>5 DEF Filled
<1>7. Filled(t) \in [1 .. IO_MAX -> Chars]
  BY <1>1, <1>4, <1>6
<1>8. /\ \A i \in 1 .. Len(s) : i \in 1 .. IO_MAX /\ i \in DOMAIN t
      /\ Len(s) + 1 \in 1 .. IO_MAX /\ Len(s) + 1 \in DOMAIN t
  BY <1>1, <1>4
<1>9. /\ \A i \in 1 .. Len(s) : Filled(t)[i] = s[i]
      /\ Filled(t)[Len(s) + 1] = NUL
  BY <1>3, <1>6, <1>8
<1>10. Filled(t) \in Seq(Chars) /\ Len(Filled(t)) = IO_MAX
  BY <1>1, <1>7
<1>11. QED
  BY <1>2, <1>9, <1>10

\* A print of a text shows it up to its first NUL.
NulsIn(s) == {j \in DOMAIN s : s[j] = NUL}
Ends(s) == {i - 1 : i \in NulsIn(s)} \cup {Len(s)}

LEMMA TextIsStart ==
  ASSUME NEW s \in Seq(Chars)
  PROVE  /\ Ends(s) \in SUBSET Nat /\ Min(Ends(s)) \in Ends(s)
         /\ \A i \in Ends(s) : Min(Ends(s)) <= i
         /\ Text(s) = SubSeq(s, 1, Min(Ends(s)))
         /\ Len(Text(s)) <= Len(s)
<1>1. Len(s) \in Nat /\ DOMAIN s = 1 .. Len(s)
  BY LenProperties
<1>2. Ends(s) \in SUBSET Nat /\ Len(s) \in Ends(s)
  BY <1>1 DEF Ends, NulsIn
<1>3. Min(Ends(s)) \in Ends(s) /\ \A i \in Ends(s) : Min(Ends(s)) <= i
  BY <1>2, MinIsLeast
<1>4. Text(s) = SubSeq(s, 1, Min(Ends(s)))
  BY DEF Text, Ends, NulsIn
<1>5. PICK end \in Nat : end = Min(Ends(s)) /\ end <= Len(s)
  BY <1>2, <1>3
<1>6. \A i \in 1 .. end : s[i] \in Chars
  BY <1>1, <1>5, ElementOfSeq
<1>7. Len(Text(s)) = end
  BY <1>4, <1>5, <1>6, SubSeqProperties
<1>8. QED
  BY <1>2, <1>3, <1>4, <1>5, <1>7

\* A text copied into a buffer, with its NUL, prints as it would alone.
LEMMA TextShown ==
  ASSUME NEW buffer \in Seq(Chars), NEW s \in Seq(Chars), Len(s) < Len(buffer),
         \A i \in 1 .. Len(s) : buffer[i] = s[i], buffer[Len(s) + 1] = NUL
  PROVE  Text(buffer) = Text(s)
<1>1. /\ Len(s) \in Nat /\ DOMAIN s = 1 .. Len(s)
      /\ Len(buffer) \in Nat /\ DOMAIN buffer = 1 .. Len(buffer)
  BY LenProperties
<1>2. PICK end : end = Min(Ends(s))
  OBVIOUS
<1>3. end \in Nat /\ end \in Ends(s) /\ (\A i \in Ends(s) : end <= i) /\ end <= Len(s)
  BY <1>2, TextIsStart DEF Ends
<1>4. \A i \in 1 .. Len(s) : i \in NulsIn(buffer) <=> i \in NulsIn(s)
  BY <1>1 DEF NulsIn
<1>5. end \in Ends(buffer)
  <2>1. CASE end = Len(s)
    <3>1. Len(s) + 1 \in NulsIn(buffer) /\ end = (Len(s) + 1) - 1
      BY <1>1, <2>1 DEF NulsIn
    <3>2. QED
      BY <3>1 DEF Ends
  <2>2. CASE end # Len(s)
    <3>1. PICK i \in NulsIn(s) : end = i - 1
      BY <1>3, <2>2 DEF Ends
    <3>2. i \in NulsIn(buffer)
      BY <1>1, <1>4, <3>1 DEF NulsIn
    <3>3. QED
      BY <3>1, <3>2 DEF Ends
  <2>3. QED
    BY <2>1, <2>2
<1>6. ASSUME NEW e \in Ends(buffer) PROVE end <= e
  <2>1. CASE e = Len(buffer)
    BY <1>1, <1>3, <2>1
  <2>2. CASE e # Len(buffer)
    <3>1. PICK i \in NulsIn(buffer) : e = i - 1
      BY <2>2 DEF Ends
    <3>2. i \in Nat \ {0}
      BY <1>1, <3>1 DEF NulsIn
    <3>3. CASE i <= Len(s)
      <4>1. i \in NulsIn(s)
        BY <1>1, <1>4, <3>1, <3>2, <3>3
      <4>2. e \in Ends(s)
        BY <3>1, <4>1 DEF Ends
      <4>3. QED
        BY <1>3, <4>2
    <3>4. CASE ~(i <= Len(s))
      BY <1>1, <1>3, <3>1, <3>2, <3>4
    <3>5. QED
      BY <3>3, <3>4
  <2>3. QED
    BY <2>1, <2>2
<1>7. Min(Ends(buffer)) = end
  BY <1>5, <1>6, TextIsStart, MinIs
<1>8. SubSeq(buffer, 1, end) = SubSeq(s, 1, end)
  <2>1. PICK t, u : t = SubSeq(buffer, 1, end) /\ u = SubSeq(s, 1, end)
    OBVIOUS
  <2>2. \A i \in 1 .. end : buffer[i] = s[i] /\ s[i] \in Chars
    BY <1>1, <1>3, ElementOfSeq
  <2>3. /\ t \in Seq(Chars) /\ Len(t) = end /\ \A i \in 1 .. end : t[i] = buffer[i]
        /\ u \in Seq(Chars) /\ Len(u) = end /\ \A i \in 1 .. end : u[i] = s[i]
    <3>1. \A i \in 1 .. end : 1 + i - 1 = i /\ i \in 1 .. end - 1 + 1
      BY <1>3
    <3>2. (IF 1 <= end THEN end - 1 + 1 ELSE 0) = end
      BY <1>3
    <3>3. QED
      BY <1>3, <2>1, <2>2, <3>1, <3>2, SubSeqProperties
  <2>4. t = u
    BY <2>2, <2>3, SeqEqual
  <2>5. QED
    BY <2>1, <2>4
<1>9. QED
  BY <1>2, <1>7, <1>8, TextIsStart

(***************************************************************************)
(* Listings.                                                               *)
(***************************************************************************)

\* A name and a newline behind a text make a longer text.
LEMMA LongerText ==
  ASSUME NEW s, IsText(s), NEW name, IsText(name)
  PROVE  /\ IsText(Append(s \o name, NewLine))
         /\ Len(Append(s \o name, NewLine)) = Len(s) + Len(name) + 1
<1>1. /\ s \in Seq(Chars) /\ Len(s) \in Nat /\ DOMAIN s = 1 .. Len(s)
      /\ name \in Seq(Chars) /\ Len(name) \in Nat /\ DOMAIN name = 1 .. Len(name)
      /\ \A i \in 1 .. Len(s) : s[i] # NUL
      /\ \A i \in 1 .. Len(name) : name[i] # NUL
  BY LenProperties DEF IsText
<1>2. NewLine \in Chars /\ NewLine # NUL
  BY ShellAssumption
<1>3. PICK both : both = s \o name
  OBVIOUS
<1>4. /\ both \in Seq(Chars) /\ Len(both) = Len(s) + Len(name)
      /\ \A i \in 1 .. Len(s) + Len(name) :
           both[i] = IF i <= Len(s) THEN s[i] ELSE name[i - Len(s)]
  BY <1>1, <1>3, ConcatProperties
<1>5. \A i \in 1 .. Len(both) : both[i] # NUL
  <2> SUFFICES ASSUME NEW i \in 1 .. Len(both) PROVE both[i] # NUL
    OBVIOUS
  <2>1. i \in 1 .. Len(s) + Len(name)
    BY <1>4
  <2>2. CASE i <= Len(s)
    <3>1. i \in 1 .. Len(s)
      BY <1>1, <2>1, <2>2
    <3>2. QED
      BY <1>1, <1>4, <2>1, <2>2, <3>1
  <2>3. CASE ~(i <= Len(s))
    <3>1. i - Len(s) \in 1 .. Len(name)
      BY <1>1, <2>1, <2>3
    <3>2. QED
      BY <1>1, <1>4, <2>1, <2>3, <3>1
  <2>4. QED
    BY <2>2, <2>3
<1>6. PICK longer : longer = Append(both, NewLine)
  OBVIOUS
<1>7. /\ longer \in Seq(Chars) /\ Len(longer) = Len(both) + 1
      /\ \A i \in 1 .. Len(both) : longer[i] = both[i]
      /\ longer[Len(both) + 1] = NewLine
  BY <1>2, <1>4, <1>6, AppendProperties
<1>8. DOMAIN longer = 1 .. Len(both) + 1 /\ Len(both) \in Nat
  BY <1>1, <1>4, <1>7, LenProperties
<1>9. \A i \in DOMAIN longer : longer[i] # NUL
  <2> SUFFICES ASSUME NEW i \in DOMAIN longer PROVE longer[i] # NUL
    OBVIOUS
  <2>1. i \in 1 .. Len(both) \/ i = Len(both) + 1
    BY <1>8
  <2>2. QED
    BY <1>2, <1>5, <1>7, <2>1
<1>10. IsText(longer) /\ Len(longer) = Len(s) + Len(name) + 1
  BY <1>4, <1>7, <1>9 DEF IsText
<1>11. QED
  BY <1>3, <1>6, <1>10

\* The listing up to each name: the function that Lay builds.
LaidFrom(names, laid) ==
  [i \in 0 .. Len(names) |->
     IF i = 0 THEN <<>> ELSE Append(laid[i - 1] \o names[i], NewLine)]
Laid(names) == CHOOSE laid : laid = LaidFrom(names, laid)

LEMMA LaidExists ==
  ASSUME NEW names, Len(names) \in Nat
  PROVE  Laid(names) = LaidFrom(names, Laid(names))
<1> DEFINE
    More(laid, i) == Append(laid[i - 1] \o names[i], NewLine)
    Upto(m, laid) == laid = [i \in 0 .. m |-> IF i = 0 THEN <<>> ELSE More(laid, i)]
    Missing == {m \in Nat : ~ \E laid : Upto(m, laid)}
<1>1. Missing = {}
  <2> SUFFICES ASSUME Missing # {} PROVE FALSE
    OBVIOUS
  <2>1. PICK m \in Missing : \A j \in Missing : m <= j
    BY Least
  <2>2. CASE m = 0
    <3>1. Upto(0, [i \in 0 .. 0 |-> <<>>])
      OBVIOUS
    <3>2. QED
      BY <2>2, <3>1
  <2>3. CASE m # 0
    <3>0. m \in Nat /\ m - 1 \in Nat
      BY <2>3
    <3> HIDE DEF Missing
    <3>1. m - 1 \notin Missing
      BY <2>1, <3>0
    <3> USE DEF Missing
    <3>2. PICK laid : Upto(m - 1, laid)
      BY <3>0, <3>1
    <3> HIDE DEF More
    <3> DEFINE longer == [i \in 0 .. m |-> IF i = m THEN More(laid, m) ELSE laid[i]]
    <3>3. \A i \in 0 .. m - 1 : longer[i] = laid[i]
      BY <3>0
    <3>4. \A i \in 1 .. m : More(longer, i) = More(laid, i)
      <4> SUFFICES ASSUME NEW i \in 1 .. m PROVE More(longer, i) = More(laid, i)
        OBVIOUS
      <4>1. longer[i - 1] = laid[i - 1]
        BY <3>0, <3>3
      <4> HIDE DEF longer
      <4>2. QED
        BY <4>1 DEF More
    <3>5. \A i \in 0 .. m : longer[i] = IF i = 0 THEN <<>> ELSE More(longer, i)
      <4> SUFFICES ASSUME NEW i \in 0 .. m
                   PROVE  longer[i] = IF i = 0 THEN <<>> ELSE More(longer, i)
        OBVIOUS
      <4>1. CASE i = m
        <5>1. longer[m] = More(laid, m) /\ More(longer, m) = More(laid, m)
          BY <2>3, <3>0, <3>4
        <5> HIDE DEF longer
        <5>2. QED
          BY <2>3, <4>1, <5>1
      <4>2. CASE i # m
        <5>1. i \in 0 .. m - 1
          BY <3>0, <4>2
        <5>2. laid[i] = IF i = 0 THEN <<>> ELSE More(laid, i)
          BY <3>2, <5>1
        <5>3. i # 0 => More(longer, i) = More(laid, i)
          BY <3>0, <3>4
        <5> HIDE DEF longer
        <5>4. QED
          BY <3>3, <5>1, <5>2, <5>3
      <4>3. QED
        BY <4>1, <4>2
    <3>6. Upto(m, longer)
      <4>1. longer = [i \in 0 .. m |-> longer[i]]
        OBVIOUS
      <4> HIDE DEF longer
      <4>2. QED
        BY <3>5, <4>1
    <3>7. QED
      BY <2>1, <3>6
  <2>4. QED
    BY <2>2, <2>3
<1>2. \E laid : laid = LaidFrom(names, laid)
  <2>1. Len(names) \notin Missing
    BY <1>1
  <2>2. PICK laid : Upto(Len(names), laid)
    BY <2>1
  <2>3. QED
    BY <2>2 DEF LaidFrom
<1>3. QED
  BY <1>2 DEF Laid

\* Each name takes its length and a newline: a listing of the whole table leaves
\* room for its NUL, and one of no name is empty.
LEMMA LayFits ==
  ASSUME FilesOK, NEW k \in 0 .. FS_MAX_FILES, NEW names \in [1 .. k -> DOMAIN files]
  PROVE  /\ IsText(Lay(names)) /\ Len(Lay(names)) + 2 <= ListRoom
         /\ Lay(names) = <<>> <=> k = 0
<1> DEFINE laid == Laid(names)
           Right(i) == /\ IsText(laid[i]) /\ Len(laid[i]) <= i * FS_MAX_NAME
                       /\ Len(laid[i]) = 0 <=> i = 0
           Bad == {i \in Nat : i <= k /\ ~Right(i)}
<1>1. k \in Nat /\ Len(names) = k
  BY Sizes
<1>2. Lay(names) = laid[k]
  <2>1. Lay(names) = laid[Len(names)]
    BY Zenon DEF Lay, Laid, LaidFrom
  <2>2. QED
    BY <1>1, <2>1
<1>3. \A i \in 0 .. k :
        laid[i] = IF i = 0 THEN <<>> ELSE Append(laid[i - 1] \o names[i], NewLine)
  <2>1. laid = LaidFrom(names, laid)
    BY <1>1, LaidExists
  <2> HIDE DEF laid
  <2>2. QED
    BY <1>1, <2>1 DEF LaidFrom
<1> HIDE DEF laid
<1>4. laid[0] = <<>> /\ \A i \in 1 .. k : laid[i] = Append(laid[i - 1] \o names[i], NewLine)
  <2>1. 0 \in 0 .. k /\ \A i \in 1 .. k : i \in 0 .. k /\ i # 0
    BY <1>1
  <2>2. QED
    BY <1>3, <2>1, Zenon
<1>5. Right(0)
  <2>1. laid[0] \in Seq(Chars) /\ Len(laid[0]) = 0 /\ DOMAIN laid[0] = {}
    BY <1>4, EmptySeq
  <2>2. 0 * FS_MAX_NAME = 0
    BY Sizes
  <2>3. QED
    BY <2>1, <2>2 DEF IsText
<1>6. ASSUME NEW i \in 1 .. k, Right(i - 1) PROVE Right(i)
  <2>1. IsText(names[i]) /\ Len(names[i]) < FS_MAX_NAME
    BY DEF FilesOK
  <2>2. PICK s : s = laid[i - 1]
    OBVIOUS
  <2>3. IsText(s) /\ Len(s) <= (i - 1) * FS_MAX_NAME
    BY <1>6, <2>2
  <2>4. IsText(laid[i]) /\ Len(laid[i]) = Len(s) + Len(names[i]) + 1
    BY <1>4, <2>1, <2>2, <2>3, LongerText
  <2>5. PICK m \in Nat, n \in Nat : m = Len(s) /\ n = Len(names[i])
    BY <2>1, <2>3, LenProperties DEF IsText
  <2>6. m + n + 1 <= i * FS_MAX_NAME /\ m + n + 1 # 0
    <3>1. FS_MAX_NAME \in Nat \ {0} /\ i \in Nat \ {0}
      BY Sizes, <1>1
    <3>2. (i - 1) * FS_MAX_NAME + FS_MAX_NAME = i * FS_MAX_NAME
      BY <3>1
    <3>3. (i - 1) * FS_MAX_NAME \in Nat
      BY <3>1
    <3>4. QED
      BY <2>1, <2>3, <2>5, <3>1, <3>2, <3>3
  <2>7. i # 0
    BY <1>1
  <2>8. QED
    BY <2>4, <2>5, <2>6, <2>7
<1>7. Bad = {}
  <2> SUFFICES ASSUME Bad # {} PROVE FALSE
    OBVIOUS
  <2> HIDE DEF Right
  <2>1. PICK i \in Bad : \A j \in Bad : i <= j
    BY Least
  <2>2. i \in Nat /\ i <= k /\ ~Right(i) /\ i # 0
    BY <1>5, <2>1
  <2>3. i - 1 \in Nat /\ i - 1 <= k /\ i \in 1 .. k /\ i - 1 < i
    BY <1>1, <2>2
  <2>4. i - 1 \notin Bad
    <3> HIDE DEF Bad
    <3>1. QED
      BY <2>1, <2>3
  <2>5. Right(i - 1)
    BY <2>3, <2>4
  <2>6. QED
    BY <1>6, <2>2, <2>3, <2>5
<1>8. Right(k)
  <2> HIDE DEF Right
  <2>1. QED
    BY <1>1, <1>7
<1>9. k * FS_MAX_NAME + 2 <= ListRoom
  <2>1. PICK m \in Nat : FS_MAX_FILES = k + m
    <3>1. FS_MAX_FILES - k \in Nat /\ FS_MAX_FILES = k + (FS_MAX_FILES - k)
      BY <1>1, Sizes
    <3>2. QED
      BY <3>1
  <2>2. FS_MAX_FILES * FS_MAX_NAME = k * FS_MAX_NAME + m * FS_MAX_NAME
    BY <1>1, <2>1, Sizes
  <2>3. m * FS_MAX_NAME \in Nat /\ k * FS_MAX_NAME \in Nat
    BY <1>1, Sizes
  <2>4. QED
    BY <2>2, <2>3 DEF ListRoom
<1>10. Len(laid[k]) + 2 <= ListRoom
  <2>1. Len(laid[k]) \in Nat /\ Len(laid[k]) <= k * FS_MAX_NAME
    BY <1>8, LenProperties DEF IsText
  <2>2. k * FS_MAX_NAME \in Nat /\ ListRoom \in Nat
    BY <1>1, Sizes
  <2>3. QED
    BY <1>9, <2>1, <2>2
<1>11. laid[k] = <<>> <=> k = 0
  BY <1>8, EmptySeq DEF IsText
<1>12. QED
  BY <1>2, <1>8, <1>10, <1>11

(***************************************************************************)
(* The system calls.                                                       *)
(***************************************************************************)

\* What FrodFS keeps of a name is a shorter text.
LEMMA ClipIsText ==
  ASSUME NEW name, IsText(name)
  PROVE  IsText(Clip(name)) /\ Len(Clip(name)) < FS_MAX_NAME
<1>1. Len(name) \in Nat /\ FS_MAX_NAME \in Nat \ {0}
  BY Sizes, LenProperties DEF IsText
<1>2. PICK n \in Nat : n = Min({Len(name), FS_MAX_NAME - 1}) /\ n <= Len(name) /\ n < FS_MAX_NAME
  <2> DEFINE S == {Len(name), FS_MAX_NAME - 1}
  <2>1. S \in SUBSET Nat
    BY <1>1
  <2>2. Min(S) \in S /\ \A i \in S : Min(S) <= i
    BY <2>1, MinIsLeast
  <2>3. QED
    BY <1>1, <2>1, <2>2
<1>3. Clip(name) = SubSeq(name, 1, n)
  BY <1>2 DEF Clip
<1>4. IsText(SubSeq(name, 1, n))
  BY <1>2, PartOfText
<1>5. Len(SubSeq(name, 1, n)) = n
  <2>1. \A i \in 1 .. n : name[i] \in Chars
    BY <1>1, <1>2, ElementOfSeq DEF IsText
  <2>2. QED
    BY <1>2, <2>1, SubSeqProperties
<1>6. QED
  BY <1>2, <1>3, <1>4, <1>5

\* A name that fits is kept whole.
LEMMA ClipKeepsShort ==
  ASSUME NEW name, IsText(name), Len(name) < FS_MAX_NAME
  PROVE  Clip(name) = name
<1>1. name \in Seq(Chars) /\ Len(name) \in Nat /\ FS_MAX_NAME \in Nat \ {0}
  BY Sizes, LenProperties DEF IsText
<1>2. Min({Len(name), FS_MAX_NAME - 1}) = Len(name)
  <2> DEFINE S == {Len(name), FS_MAX_NAME - 1}
  <2>1. S \in SUBSET Nat /\ Len(name) \in S /\ \A i \in S : Len(name) <= i
    BY <1>1
  <2>2. Min(S) = Len(name)
    BY <2>1, MinIs
  <2>3. QED
    BY <2>2
<1>3. PICK n, part : n = Len(name) /\ part = SubSeq(name, 1, n)
  OBVIOUS
<1>4. \A i \in 1 .. n : name[i] \in Chars
  BY <1>1, <1>3, ElementOfSeq
<1>5. part \in Seq(Chars) /\ Len(part) = n /\ \A i \in 1 .. n : part[i] = name[i]
  <2>1. \A i \in 1 .. n : 1 + i - 1 = i /\ i \in 1 .. n - 1 + 1
    BY <1>1, <1>3
  <2>2. (IF 1 <= n THEN n - 1 + 1 ELSE 0) = n
    BY <1>1, <1>3
  <2>3. QED
    BY <1>1, <1>3, <1>4, <2>1, <2>2, SubSeqProperties
<1>6. part = name
  BY <1>1, <1>3, <1>5, SeqEqual
<1>7. QED
  BY <1>2, <1>3, <1>6 DEF Clip

LEMMA NotNull ==
  ASSUME NEW s \in Seq(Chars)
  PROVE  s # NUL
BY ShellAssumption

\* A create that succeeds uses up an entry and makes an empty file of that name,
\* unless the name is clipped: then there is no such file.
MakesEntry(name) ==
  /\ spare' = spare - 1
  /\ name \in DOMAIN files' <=> Len(name) < FS_MAX_NAME
  /\ name \in DOMAIN files' => files'[name] = <<>>

LEMMA CreateCall ==
  ASSUME FilesOK, NEW name, IsText(name), name # <<>>, sys_fs_create(name)
  PROVE  /\ FilesOK' /\ reply'.call[2] = name
         /\ \A n \in DOMAIN files' : files'[n] = IF n \in DOMAIN files THEN files[n] ELSE <<>>
         /\ \/ reply'.ret = 0 /\ name \notin DOMAIN files /\ MakesEntry(name)
            \/ reply'.ret = -2 /\ name \in DOMAIN files
            \/ reply'.ret = -3 /\ name \notin DOMAIN files /\ spare = 0
<1>1. CASE Disk!Create(name)
  <2>1. /\ name \notin DOMAIN files /\ reply'.ret = 0 /\ reply'.call[2] = name
        /\ spare' = spare - 1
        /\ files' = [n \in DOMAIN files \cup {Clip(name)} |->
                       IF n \in DOMAIN files THEN files[n] ELSE <<>>]
    BY <1>1 DEF Disk!Create, Disk!Answer
  <2>2. FilesOK'
    <3> SUFFICES ASSUME NEW n \in DOMAIN files'
                 PROVE  /\ IsText(n) /\ Len(n) < FS_MAX_NAME
                        /\ files'[n] \in Seq(Chars) /\ Len(files'[n]) <= FS_MAX_SIZE
      BY DEF FilesOK
    <3>1. CASE n \in DOMAIN files
      BY <2>1, <3>1 DEF FilesOK
    <3>2. CASE n \notin DOMAIN files
      <4>1. n = Clip(name) /\ files'[n] = <<>>
        BY <2>1, <3>2
      <4>2. <<>> \in Seq(Chars) /\ Len(<<>>) = 0 /\ FS_MAX_SIZE \in Nat
        BY EmptySeq, Sizes
      <4>3. QED
        BY <4>1, <4>2, ClipIsText
    <3>3. QED
      BY <3>1, <3>2
  <2>3. MakesEntry(name)
    <3>1. Len(name) < FS_MAX_NAME => Clip(name) = name
      BY ClipKeepsShort
    <3>2. name \in DOMAIN files' => Len(name) < FS_MAX_NAME
      BY <2>2 DEF FilesOK
    <3>3. Len(name) < FS_MAX_NAME => name \in DOMAIN files'
      BY <2>1, <3>1
    <3>4. name \in DOMAIN files' => files'[name] = <<>>
      BY <2>1
    <3>5. QED
      BY <2>1, <3>2, <3>3, <3>4 DEF MakesEntry
  <2>4. QED
    BY <2>1, <2>2, <2>3
<1>2. CASE Disk!RefuseCreate(name)
  <2>1. name # NUL
    BY NotNull DEF IsText
  <2>2. /\ files' = files /\ reply'.call[2] = name
        /\ \/ reply'.ret = -2 /\ name \in DOMAIN files
           \/ reply'.ret = -3 /\ name \notin DOMAIN files /\ spare = 0
    BY <1>2, <2>1 DEF Disk!RefuseCreate, Disk!Fail, Disk!Answer
  <2>3. QED
    BY <2>2 DEF FilesOK
<1>3. QED
  BY <1>1, <1>2 DEF sys_fs_create

LEMMA WriteCall ==
  ASSUME FilesOK, NEW name, IsText(name), NEW text, IsText(text), Len(text) <= FS_MAX_SIZE,
         sys_fs_write(name, text)
  PROVE  /\ FilesOK' /\ reply'.call[2] = name
         /\ DOMAIN files' = DOMAIN files
         /\ \A n \in DOMAIN files : n # name => files'[n] = files[n]
         /\ Succeeds => files' = [files EXCEPT ![name] = reply'.call[3]]
         /\ ~Succeeds => name \notin DOMAIN files
<1>1. CASE Disk!Write(name, text)
  <2>1. /\ reply'.ret = 0 /\ reply'.call[2] = name /\ reply'.call[3] = text
        /\ files' = [files EXCEPT ![name] = text]
    BY <1>1 DEF Disk!Write, Disk!Answer
  <2>2. DOMAIN files' = DOMAIN files
        /\ \A n \in DOMAIN files : files'[n] = IF n = name THEN text ELSE files[n]
    BY <2>1
  <2>3. FilesOK'
    BY <2>2 DEF FilesOK, IsText
  <2>4. QED
    BY <2>1, <2>2, <2>3 DEF Succeeds
<1>2. CASE Disk!RefuseWrite(name, text)
  <2>1. name # NUL /\ text # NUL /\ ~(Len(text) > FS_MAX_SIZE)
    <3>1. Len(text) \in Nat /\ FS_MAX_SIZE \in Nat
      BY Sizes, LenProperties DEF IsText
    <3>2. QED
      BY <3>1, NotNull DEF IsText
  <2>2. files' = files /\ reply'.call[2] = name /\ reply'.ret = -2 /\ name \notin DOMAIN files
    BY <1>2, <2>1 DEF Disk!RefuseWrite, Disk!Fail, Disk!Answer
  <2>3. QED
    BY <2>2 DEF FilesOK, Succeeds
<1>3. QED
  BY <1>1, <1>2 DEF sys_fs_write

LEMMA ReadCall ==
  ASSUME FilesOK, NEW name, IsText(name), NEW max \in Nat, sys_fs_read(name, max)
  PROVE  /\ files' = files /\ reply'.call[2] = name
         /\ ~Succeeds => name \notin DOMAIN files
         /\ Succeeds =>
              LET file == files[name]
                  size == IF Len(file) > max THEN max ELSE Len(file)
              IN /\ name \in DOMAIN files
                 /\ reply'.out = SubSeq(file, 1, size)
                 /\ reply'.out \in Seq(Chars) /\ Len(reply'.out) = size
                 /\ \A i \in 1 .. size : reply'.out[i] = file[i]
<1>1. CASE Disk!Read(name, max)
  <2>1. PICK file, size : file = files[name] /\ size = IF Len(file) > max THEN max ELSE Len(file)
    OBVIOUS
  <2>2. /\ files' = files /\ reply'.call[2] = name /\ reply'.ret = 0 /\ name \in DOMAIN files
        /\ reply'.out = SubSeq(file, 1, size)
    BY <1>1, <2>1 DEF Disk!Read, Disk!Answer
  <2>3. file \in Seq(Chars) /\ Len(file) \in Nat /\ size \in Nat /\ size <= Len(file)
    BY <2>1, <2>2, LenProperties DEF FilesOK
  <2>4. \A i \in 1 .. size : file[i] \in Chars
    BY <2>3, ElementOfSeq
  <2>5. PICK out : out = reply'.out
    OBVIOUS
  <2>6. out \in Seq(Chars) /\ Len(out) = size /\ \A i \in 1 .. size : out[i] = file[i]
    <3>1. /\ out \in Seq(Chars) /\ Len(out) = IF 1 <= size THEN size - 1 + 1 ELSE 0
          /\ \A i \in 1 .. size - 1 + 1 : out[i] = file[1 + i - 1]
      BY <2>2, <2>3, <2>4, <2>5, SubSeqProperties
    <3>2. \A i \in 1 .. size : i \in 1 .. size - 1 + 1 /\ 1 + i - 1 = i
      BY <2>3
    <3>3. QED
      BY <2>3, <3>1, <3>2
  <2>7. QED
    BY <2>1, <2>2, <2>5, <2>6 DEF Succeeds
<1>2. CASE Disk!RefuseRead(name, max)
  <2>1. name # NUL
    BY NotNull DEF IsText
  <2>2. files' = files /\ reply'.call[2] = name /\ reply'.ret = -2 /\ name \notin DOMAIN files
    BY <1>2, <2>1 DEF Disk!RefuseRead, Disk!Fail, Disk!Answer
  <2>3. QED
    BY <2>2 DEF Succeeds
<1>3. QED
  BY <1>1, <1>2 DEF sys_fs_read

\* The scratch buffer is large enough for every listing.
LEMMA ListCall ==
  ASSUME FilesOK, sys_fs_list(IO_MAX)
  PROVE  /\ files' = files
         /\ \E k \in 0 .. FS_MAX_FILES :
              /\ reply'.out \in [1 .. k -> DOMAIN files]
              /\ k = 0 <=> DOMAIN files = {}
<1>1. IO_MAX \in Nat /\ IO_MAX >= ListRoom /\ IO_MAX # 0 /\ FS_MAX_FILES \in Nat
  BY Sizes
<1>2. ~Disk!RefuseList(IO_MAX)
  BY <1>1 DEF Disk!RefuseList
<1>3. Disk!List(IO_MAX)
  BY <1>2 DEF sys_fs_list
<1>4. PICK k \in 0 .. FS_MAX_FILES : \E names \in [1 .. k -> DOMAIN files] :
        {names[i] : i \in 1 .. k} = DOMAIN files /\ reply'.out = names
  <2>1. PICK k \in 0 .. FS_MAX_FILES : \E names \in [1 .. k -> DOMAIN files] :
          /\ IO_MAX >= ListRoom => {names[i] : i \in 1 .. k} = DOMAIN files
          /\ reply' = [call |-> <<"list", IO_MAX>>, ret |-> 0, out |-> names]
    BY <1>3, Zenon DEF Disk!List, Disk!Answer
  <2>2. PICK names \in [1 .. k -> DOMAIN files] :
          /\ IO_MAX >= ListRoom => {names[i] : i \in 1 .. k} = DOMAIN files
          /\ reply' = [call |-> <<"list", IO_MAX>>, ret |-> 0, out |-> names]
    BY <2>1
  <2>3. {names[i] : i \in 1 .. k} = DOMAIN files /\ reply'.out = names
    BY <1>1, <2>2
  <2>4. QED
    BY <2>3
<1>5. PICK names \in [1 .. k -> DOMAIN files] :
        {names[i] : i \in 1 .. k} = DOMAIN files /\ reply'.out = names
  BY <1>4
<1>6. k = 0 <=> DOMAIN files = {}
  <2>1. k = 0 => DOMAIN files = {}
    <3> SUFFICES ASSUME k = 0, NEW n \in DOMAIN files PROVE FALSE
      OBVIOUS
    <3>1. PICK i \in 1 .. k : n = names[i]
      BY <1>5
    <3>2. QED
      BY <3>1
  <2>2. k # 0 => 1 \in 1 .. k
    BY <1>1
  <2>3. k # 0 => DOMAIN files # {}
    BY <1>5, <2>2
  <2>4. QED
    BY <2>1, <2>3
<1>7. files' = files
  BY <1>3 DEF Disk!List
<1>8. QED
  BY <1>5, <1>6, <1>7

(***************************************************************************)
(* The commands.                                                           *)
(***************************************************************************)

\* What a step owes: it keeps the invariant and satisfies the three properties.
Sound ==
  IInv' /\ TrueMessage /\ OnlyThatFile /\ SpacedFilesKept

LEMMA TypesFollow ==
  ASSUME BufferOK', FilesOK', pc' \in {"prompt", "program"}, Len(shown'.text) <= IO_MAX
  PROVE  IInv'
<1>1. DOMAIN io_buffer' = 1 .. IO_MAX
  <2>1. io_buffer' \in Seq(Chars) /\ Len(io_buffer') = IO_MAX
    BY DEF BufferOK
  <2>2. QED
    BY <2>1, LenProperties
<1>2. QED
  BY <1>1 DEF IInv, TypeOK, FilesOK

\* A step that leaves the files alone and says nothing was written.
LEMMA FilesAlone ==
  ASSUME FilesOK, files' = files, shown'.msg # "written"
  PROVE  FilesOK' /\ SpacedFilesKept
BY DEF FilesOK, SpacedFilesKept

\* A step that leaves files and buffer alone and has nothing to say about them.
Silent == {"usage", "done", "welcome", "not_a_program"}

LEMMA Quiet ==
  ASSUME IInv, files' = files, io_buffer' = io_buffer, pc' \in {"prompt", "program"},
         shown'.msg \in Silent, shown'.text = <<>>
  PROVE  Sound
<1>1. FilesOK' /\ SpacedFilesKept
  BY FilesAlone DEF IInv, Silent
<1>2. BufferOK'
  BY DEF IInv, BufferOK
<1>3. Len(shown'.text) <= IO_MAX
  BY Sizes, EmptySeq
<1>4. IInv'
  BY <1>1, <1>2, <1>3, TypesFollow
<1>5. TrueMessage /\ OnlyThatFile
  BY DEF Silent, TrueMessage, OnlyThatFile
<1>6. QED
  BY <1>1, <1>4, <1>5 DEF Sound

LEMMA UsageSound ==
  ASSUME IInv, Usage
  PROVE  Sound
<1>1. /\ files' = files /\ io_buffer' = io_buffer /\ pc' = pc
      /\ shown'.msg = "usage" /\ shown'.text = <<>>
  BY DEF Usage, Say, disk
<1>2. pc' \in {"prompt", "program"} /\ shown'.msg \in Silent
  BY <1>1 DEF IInv, TypeOK, Silent
<1>3. QED
  BY <1>1, <1>2, Quiet

LEMMA LsSound ==
  ASSUME IInv, NEW cmd \in Lines, ls(cmd)
  PROVE  Sound
<1>1. /\ sys_fs_list(IO_MAX) /\ pc' = pc
      /\ io_buffer' = Filled(Terminated(Lay(reply'.out)))
      /\ shown' = [msg |-> IF io_buffer'[1] = NUL THEN "empty" ELSE "list",
                   text |-> Text(io_buffer')]
  BY DEF ls, Say
<1>2. FilesOK /\ BufferOK
  BY DEF IInv
<1>3. PICK k \in 0 .. FS_MAX_FILES :
        reply'.out \in [1 .. k -> DOMAIN files] /\ (k = 0 <=> DOMAIN files = {})
  BY <1>1, <1>2, ListCall
<1>4. PICK laid : laid = Lay(reply'.out)
  OBVIOUS
<1>5. IsText(laid) /\ Len(laid) + 2 <= ListRoom /\ (laid = <<>> <=> k = 0)
  BY <1>2, <1>3, <1>4, LayFits
<1>6. laid \in Seq(Chars) /\ Len(laid) \in Nat /\ Len(laid) < IO_MAX
  BY <1>5, Sizes, LenProperties DEF IsText
<1>7. PICK buffer : buffer = io_buffer'
  OBVIOUS
<1>8. /\ buffer \in Seq(Chars) /\ Len(buffer) = IO_MAX
      /\ \A i \in 1 .. Len(laid) : buffer[i] = laid[i]
      /\ buffer[Len(laid) + 1] = NUL
  BY <1>1, <1>2, <1>4, <1>6, <1>7, FilledBuffer
<1>9. buffer[1] = NUL <=> DOMAIN files = {}
  <2>1. CASE laid = <<>>
    BY <1>3, <1>5, <1>8, <2>1, EmptySeq
  <2>2. CASE laid # <<>>
    <3>1. Len(laid) # 0
      BY <1>6, <2>2, EmptySeq
    <3>2. 1 \in 1 .. Len(laid) /\ 1 \in DOMAIN laid
      BY <1>6, <3>1, LenProperties
    <3>3. buffer[1] # NUL
      BY <1>5, <1>8, <3>2 DEF IsText
    <3>4. QED
      BY <1>3, <1>5, <2>2, <3>3
  <2>3. QED
    BY <2>1, <2>2
<1>10. files' = files
  BY <1>1, <1>2, ListCall
<1>11. FilesOK' /\ SpacedFilesKept
  <2>1. shown'.msg # "written"
    BY <1>1
  <2>2. QED
    BY <1>2, <1>10, <2>1, FilesAlone
<1>12. IInv'
  <2>1. BufferOK'
    BY <1>7, <1>8 DEF BufferOK
  <2>2. Len(shown'.text) <= IO_MAX
    BY <1>1, <1>7, <1>8, TextIsStart
  <2>3. pc' \in {"prompt", "program"}
    BY <1>1 DEF IInv, TypeOK
  <2>4. QED
    BY <1>11, <2>1, <2>2, <2>3, TypesFollow
<1>13. TrueMessage /\ OnlyThatFile
  <2>1. shown'.msg = IF DOMAIN files = {} THEN "empty" ELSE "list"
    BY <1>1, <1>7, <1>9
  <2>2. QED
    BY <2>1 DEF TrueMessage, OnlyThatFile
<1>14. QED
  BY <1>11, <1>12, <1>13 DEF Sound

LEMMA TouchSound ==
  ASSUME IInv, NEW cmd \in Lines, touch(cmd)
  PROVE  Sound
<1>1. PICK filename : filename = Argument(cmd)
  OBVIOUS
<1>2. CASE filename = <<>>
  BY <1>1, <1>2, UsageSound DEF touch
<1>3. CASE filename # <<>>
  <2>1. /\ sys_fs_create(filename) /\ pc' = pc /\ io_buffer' = io_buffer
        /\ shown'.msg = CreateSays(reply'.ret) /\ shown'.text = <<>>
    BY <1>1, <1>3 DEF touch, Say
  <2>2. IsText(filename) /\ FilesOK
    BY <1>1, ArgumentIsText DEF IInv
  <2>3. /\ FilesOK' /\ reply'.call[2] = filename
        /\ \A n \in DOMAIN files' : files'[n] = IF n \in DOMAIN files THEN files[n] ELSE <<>>
        /\ \/ reply'.ret = 0 /\ filename \notin DOMAIN files /\ MakesEntry(filename)
           \/ reply'.ret = -2 /\ filename \in DOMAIN files
           \/ reply'.ret = -3 /\ filename \notin DOMAIN files /\ spare = 0
    BY <1>3, <2>1, <2>2, CreateCall
  <2>4. \/ /\ shown'.msg = "created"
           /\ filename \notin DOMAIN files /\ MakesEntry(filename)
        \/ shown'.msg = "exists" /\ filename \in DOMAIN files
        \/ shown'.msg = "full" /\ filename \notin DOMAIN files /\ spare = 0
    BY <2>1, <2>3 DEF CreateSays
  <2>5. IInv'
    <3>1. BufferOK' /\ pc' \in {"prompt", "program"}
      BY <2>1 DEF IInv, TypeOK, BufferOK
    <3>2. Len(shown'.text) <= IO_MAX
      BY <2>1, EmptySeq, Sizes
    <3>3. QED
      BY <2>3, <3>1, <3>2, TypesFollow
  <2>6. TrueMessage
    BY <2>3, <2>4 DEF TrueMessage, MakesEntry
  <2>7. OnlyThatFile /\ SpacedFilesKept
    BY <2>3, <2>4 DEF OnlyThatFile, SpacedFilesKept
  <2>8. QED
    BY <2>5, <2>6, <2>7 DEF Sound
<1>4. QED
  BY <1>2, <1>3

LEMMA WriteSound ==
  ASSUME IInv, NEW cmd \in Lines, write(cmd)
  PROVE  Sound
<1>1. PICK arg : arg = Argument(cmd)
  OBVIOUS
<1>2. CASE \A i \in DOMAIN arg : arg[i] # Space
  BY <1>1, <1>2, UsageSound DEF write
<1>3. CASE ~ \A i \in DOMAIN arg : arg[i] # Space
  <2>1. PICK name, text : name = NameIn(arg) /\ text = TextIn(arg)
    OBVIOUS
  <2>2. /\ sys_fs_write(name, text) /\ pc' = pc /\ io_buffer' = io_buffer
        /\ shown'.msg = (IF Succeeds THEN "written" ELSE "not_written") /\ shown'.text = <<>>
    <3>1. /\ sys_fs_write(name, text)
          /\ Say(IF Succeeds THEN "written" ELSE "not_written", <<>>)
          /\ UNCHANGED <<pc, io_buffer>>
      BY <1>1, <1>3, <2>1, Zenon DEF write, NameIn, TextIn
    <3>2. QED
      BY <3>1 DEF Say
  <2>3. IsText(arg) /\ Len(arg) <= Len(cmd) /\ Len(cmd) <= FS_MAX_SIZE /\ IsText(cmd)
    BY <1>1, ArgumentIsText
  <2>4. PICK k \in DOMAIN arg : arg[k] = Space
    BY <1>3
  <2>5. IsText(name) /\ ~Spaced(name) /\ IsText(text) /\ Len(text) <= Len(arg)
    BY <2>1, <2>3, <2>4, WriteSplits
  <2>6. Len(text) <= FS_MAX_SIZE
    <3>1. Len(text) \in Nat /\ Len(arg) \in Nat /\ Len(cmd) \in Nat /\ FS_MAX_SIZE \in Nat
      BY <2>3, <2>5, Sizes, LenProperties DEF IsText
    <3>2. QED
      BY <2>3, <2>5, <3>1
  <2>7. /\ FilesOK' /\ reply'.call[2] = name
        /\ DOMAIN files' = DOMAIN files
        /\ \A n \in DOMAIN files : n # name => files'[n] = files[n]
        /\ Succeeds => files' = [files EXCEPT ![name] = reply'.call[3]]
        /\ ~Succeeds => name \notin DOMAIN files
    BY <2>2, <2>5, <2>6, WriteCall DEF IInv
  <2>8. IInv'
    <3>1. BufferOK' /\ pc' \in {"prompt", "program"}
      BY <2>2 DEF IInv, TypeOK, BufferOK
    <3>2. Len(shown'.text) <= IO_MAX
      <4>1. shown'.text = <<>>
        BY <2>2
      <4>2. QED
        BY <4>1, EmptySeq, Sizes
    <3>3. QED
      BY <2>7, <3>1, <3>2, TypesFollow
  <2>9. TrueMessage /\ OnlyThatFile
    <3>1. CASE Succeeds
      BY <2>2, <2>7, <3>1 DEF TrueMessage, OnlyThatFile
    <3>2. CASE ~Succeeds
      BY <2>2, <2>7, <3>2 DEF TrueMessage, OnlyThatFile
    <3>3. QED
      BY <3>1, <3>2
  <2>10. SpacedFilesKept
    <3> SUFFICES ASSUME NEW n \in DOMAIN files', Spaced(n)
                 PROVE  n \in DOMAIN files /\ files'[n] = files[n] /\ reply'.call[2] # n
      BY DEF SpacedFilesKept
    <3>1. n # name
      BY <2>5
    <3>2. QED
      BY <2>7, <3>1
  <2>11. QED
    BY <2>8, <2>9, <2>10 DEF Sound
<1>4. QED
  BY <1>2, <1>3

\* The shorter of two lengths, as the read writes it and as the property does.
LEMMA ShorterLength ==
  ASSUME NEW m \in Nat, NEW n \in Nat
  PROVE  Min({m, n}) = IF m > n THEN n ELSE m
<1> DEFINE S == {m, n}
<1>1. S \in SUBSET Nat
  OBVIOUS
<1>2. CASE m > n
  <2>1. n \in S /\ \A j \in S : n <= j
    BY <1>2
  <2>2. Min(S) = n
    BY <1>1, <2>1, MinIs
  <2>3. QED
    BY <1>2, <2>2
<1>3. CASE ~(m > n)
  <2>1. m \in S /\ \A j \in S : m <= j
    BY <1>3
  <2>2. Min(S) = m
    BY <1>1, <2>1, MinIs
  <2>3. QED
    BY <1>3, <2>2
<1>4. QED
  BY <1>2, <1>3

LEMMA CatSound ==
  ASSUME IInv, NEW cmd \in Lines, cat(cmd)
  PROVE  Sound
<1>1. PICK filename : filename = Argument(cmd)
  OBVIOUS
<1>2. CASE filename = <<>>
  BY <1>1, <1>2, UsageSound DEF cat
<1>3. CASE filename # <<>>
  <2>1. /\ sys_fs_read(filename, ReadSize) /\ pc' = pc
        /\ IF Succeeds THEN /\ io_buffer' = Filled(Terminated(reply'.out))
                            /\ Say("text", Text(io_buffer'))
                       ELSE Say("not_found", <<>>) /\ UNCHANGED io_buffer
    BY <1>1, <1>3, Zenon DEF cat
  <2>2. IsText(filename) /\ FilesOK /\ BufferOK
    BY <1>1, ArgumentIsText DEF IInv
  <2>3. PICK max \in Nat : max = ReadSize /\ max = IO_MAX - 1 /\ max < IO_MAX
    BY Sizes DEF ReadSize
  <2>4. /\ files' = files /\ reply'.call[2] = filename
        /\ ~Succeeds => filename \notin DOMAIN files
    BY <2>1, <2>2, <2>3, ReadCall
  <2>5. pc' \in {"prompt", "program"}
    BY <2>1 DEF IInv, TypeOK
  <2>6. CASE ~Succeeds
    <3>1. io_buffer' = io_buffer /\ shown'.msg = "not_found" /\ shown'.text = <<>>
      BY <2>1, <2>6 DEF Say
    <3>2. FilesOK' /\ SpacedFilesKept
      <4>1. shown'.msg # "written"
        BY <3>1
      <4>2. QED
        BY <2>2, <2>4, <4>1, FilesAlone
    <3>3. IInv'
      <4>1. BufferOK'
        BY <2>2, <3>1 DEF BufferOK
      <4>2. Len(shown'.text) <= IO_MAX
        BY <3>1, EmptySeq, Sizes
      <4>3. QED
        BY <2>5, <3>2, <4>1, <4>2, TypesFollow
    <3>4. TrueMessage /\ OnlyThatFile
      BY <2>4, <2>6, <3>1 DEF TrueMessage, OnlyThatFile
    <3>5. QED
      BY <3>2, <3>3, <3>4 DEF Sound
  <2>7. CASE Succeeds
    <3>1. /\ io_buffer' = Filled(Terminated(reply'.out))
          /\ shown'.msg = "text" /\ shown'.text = Text(io_buffer')
      BY <2>1, <2>7 DEF Say
    <3>2. PICK file, out, buffer : file = files[filename] /\ out = reply'.out /\ buffer = io_buffer'
      OBVIOUS
    <3>3. PICK size : size = IF Len(file) > max THEN max ELSE Len(file)
      OBVIOUS
    <3>4. /\ filename \in DOMAIN files /\ out = SubSeq(file, 1, size)
          /\ out \in Seq(Chars) /\ Len(out) = size
      BY <2>1, <2>2, <2>3, <2>7, <3>2, <3>3, ReadCall
    <3>5. Len(file) \in Nat
      BY <2>2, <3>2, <3>4, LenProperties DEF FilesOK
    <3>6. size <= max /\ Len(out) < IO_MAX
      BY <2>3, <3>3, <3>4, <3>5, Sizes
    <3>7. /\ buffer \in Seq(Chars) /\ Len(buffer) = IO_MAX
          /\ \A i \in 1 .. Len(out) : buffer[i] = out[i]
          /\ buffer[Len(out) + 1] = NUL
      BY <2>2, <3>1, <3>2, <3>4, <3>6, FilledBuffer
    <3>8. Text(buffer) = Text(out)
      BY <3>4, <3>6, <3>7, TextShown
    <3>9. Min({Len(file), IO_MAX - 1}) = size
      <4>1. Min({Len(file), max}) = size
        BY <3>3, <3>5, ShorterLength
      <4>2. QED
        BY <2>3, <4>1
    <3>10. OnlyThatFile
      BY <2>4, <3>1, <3>2, <3>4, <3>8, <3>9 DEF OnlyThatFile
    <3>11. FilesOK' /\ SpacedFilesKept
      <4>1. shown'.msg # "written"
        BY <3>1
      <4>2. QED
        BY <2>2, <2>4, <4>1, FilesAlone
    <3>12. IInv'
      <4>1. BufferOK'
        BY <3>2, <3>7 DEF BufferOK
      <4>2. Len(shown'.text) <= IO_MAX
        BY <3>1, <3>2, <3>7, TextIsStart
      <4>3. QED
        BY <2>5, <3>11, <4>1, <4>2, TypesFollow
    <3>13. TrueMessage
      BY <3>1 DEF TrueMessage
    <3>14. QED
      BY <3>10, <3>11, <3>12, <3>13 DEF Sound
  <2>8. QED
    BY <2>6, <2>7
<1>4. QED
  BY <1>2, <1>3

\* A file of a header's length is read whole, as far as the header goes.
LEMMA ExecSound ==
  ASSUME IInv, NEW cmd \in Lines, pc = "prompt", Exec(cmd)
  PROVE  Sound
<1>1. /\ sys_fs_read(cmd, FS_MAX_SIZE) /\ io_buffer' = io_buffer
      /\ \/ /\ ~Succeeds \/ Len(reply'.out) < HEADER
            /\ shown' = [msg |-> "unknown", text |-> cmd] /\ pc' = pc
         \/ /\ Succeeds /\ Len(reply'.out) >= HEADER
            /\ reply'.out[1] = MAGIC
            /\ shown' = [msg |-> "running", text |-> <<>>] /\ pc' = "program"
         \/ shown' = [msg |-> "not_a_program", text |-> <<>>] /\ pc' = pc
  BY DEF Exec, Say
<1>2. FilesOK /\ BufferOK /\ IsText(cmd) /\ Len(cmd) <= FS_MAX_SIZE /\ FS_MAX_SIZE \in Nat
  BY ArgumentIsText, Sizes DEF IInv
<1>3. /\ files' = files /\ reply'.call[2] = cmd
      /\ ~Succeeds => cmd \notin DOMAIN files
  BY <1>1, <1>2, ReadCall
<1>4. Succeeds => /\ Len(reply'.out) = Len(files[cmd])
                  /\ \A i \in 1 .. Len(files[cmd]) : reply'.out[i] = files[cmd][i]
  <2> SUFFICES ASSUME Succeeds
               PROVE  /\ Len(reply'.out) = Len(files[cmd])
                      /\ \A i \in 1 .. Len(files[cmd]) : reply'.out[i] = files[cmd][i]
    OBVIOUS
  <2>1. PICK file, out : file = files[cmd] /\ out = reply'.out
    OBVIOUS
  <2>2. PICK size : size = IF Len(file) > FS_MAX_SIZE THEN FS_MAX_SIZE ELSE Len(file)
    OBVIOUS
  <2>3. cmd \in DOMAIN files /\ Len(out) = size /\ \A i \in 1 .. size : out[i] = file[i]
    BY <1>1, <1>2, <2>1, <2>2, ReadCall
  <2>4. Len(file) \in Nat /\ Len(file) <= FS_MAX_SIZE
    BY <1>2, <2>1, <2>3, LenProperties DEF FilesOK
  <2>5. size = Len(file)
    BY <1>2, <2>2, <2>4
  <2>6. QED
    BY <2>1, <2>3, <2>5
<1>5. pc' \in {"prompt", "program"}
  BY <1>1 DEF IInv, TypeOK
<1>6. shown'.msg # "written" /\ Len(shown'.text) <= IO_MAX
  <2>1. Len(<<>>) = 0
    BY EmptySeq
  <2>2. (shown'.text = cmd \/ shown'.text = <<>>) /\ shown'.msg # "written"
    BY <1>1
  <2>3. QED
    BY <1>2, <2>1, <2>2, Sizes
<1>7. FilesOK' /\ SpacedFilesKept
  BY <1>2, <1>3, <1>6, FilesAlone
<1>8. IInv'
  <2>1. BufferOK'
    BY <1>1, <1>2 DEF BufferOK
  <2>2. QED
    BY <1>5, <1>6, <1>7, <2>1, TypesFollow
<1>9. OnlyThatFile
  BY <1>1 DEF OnlyThatFile
<1>10. TrueMessage
  <2>1. CASE /\ ~Succeeds \/ Len(reply'.out) < HEADER
             /\ shown' = [msg |-> "unknown", text |-> cmd]
    <3>1. cmd \notin DOMAIN files \/ Len(files[cmd]) < HEADER
      BY <1>3, <1>4, <2>1
    <3>2. shown'.msg = "unknown"
      BY <2>1
    <3>3. QED
      BY <1>3, <3>1, <3>2 DEF TrueMessage
  <2>2. CASE /\ Succeeds /\ Len(reply'.out) >= HEADER
             /\ reply'.out[1] = MAGIC
             /\ shown' = [msg |-> "running", text |-> <<>>]
    <3>1. 1 \in 1 .. Len(files[cmd])
      <4>1. PICK n : n = Len(files[cmd]) /\ n = Len(reply'.out)
        BY <1>4, <2>2
      <4>2. cmd \in DOMAIN files => n \in Nat
        BY <1>2, <4>1, LenProperties DEF FilesOK
      <4>3. cmd \in DOMAIN files
        BY <1>1, <1>2, <2>2, ReadCall
      <4>4. QED
        BY <2>2, <4>1, <4>2, <4>3, Sizes
    <3>2. files[cmd][1] = MAGIC
      BY <1>4, <2>2, <3>1
    <3>3. shown'.msg = "running"
      BY <2>2
    <3>4. QED
      BY <1>3, <3>2, <3>3 DEF TrueMessage
  <2>3. CASE shown' = [msg |-> "not_a_program", text |-> <<>>]
    BY <2>3 DEF TrueMessage
  <2>4. QED
    BY <1>1, <2>1, <2>2, <2>3
<1>11. QED
  BY <1>7, <1>8, <1>9, <1>10 DEF Sound

LEMMA PlainSound ==
  ASSUME IInv, NEW cmd, Plain(cmd)
  PROVE  Sound
<1>1. /\ files' = files /\ io_buffer' = io_buffer /\ pc' = pc
      /\ shown'.msg = "done" /\ shown'.text = <<>>
  BY DEF Plain, Say, disk
<1>2. pc' \in {"prompt", "program"} /\ shown'.msg \in Silent
  BY <1>1 DEF IInv, TypeOK, Silent
<1>3. QED
  BY <1>1, <1>2, Quiet

LEMMA ExitSound ==
  ASSUME IInv, ProgramExits
  PROVE  Sound
<1>1. /\ files' = files /\ io_buffer' = io_buffer /\ pc' = "prompt"
      /\ shown'.msg = "welcome" /\ shown'.text = <<>>
  BY DEF ProgramExits, Say, disk
<1>2. pc' \in {"prompt", "program"} /\ shown'.msg \in Silent
  BY <1>1 DEF Silent
<1>3. QED
  BY <1>1, <1>2, Quiet

(***************************************************************************)
(* The theorems.                                                           *)
(***************************************************************************)

\* Every command the shell runs, and the exit of every program it starts, is sound.
LEMMA StepsAreSound ==
  ASSUME IInv, Next
  PROVE  Sound
<1>1. CASE ProgramExits
  BY <1>1, ExitSound
<1>2. CASE \E cmd \in Lines : run_command(cmd)
  <2>1. PICK cmd \in Lines : run_command(cmd)
    BY <1>2
  <2>2. CASE Plain(cmd)
    BY <2>2, PlainSound
  <2>3. CASE ls(cmd)
    BY <2>3, LsSound
  <2>4. CASE touch(cmd)
    BY <2>4, TouchSound
  <2>5. CASE write(cmd)
    BY <2>5, WriteSound
  <2>6. CASE cat(cmd)
    BY <2>6, CatSound
  <2>7. CASE Exec(cmd)
    BY <2>1, <2>7, ExecSound DEF run_command
  <2>8. QED
    BY <2>1, <2>2, <2>3, <2>4, <2>5, <2>6, <2>7 DEF run_command
<1>3. QED
  BY <1>1, <1>2 DEF Next

LEMMA StartUp == Init => IInv
<1> SUFFICES ASSUME Init PROVE IInv
  OBVIOUS
<1>1. io_buffer \in Seq(Chars) /\ Len(io_buffer) = IO_MAX /\ DOMAIN io_buffer = 1 .. IO_MAX
  <2>1. IO_MAX \in Nat /\ NUL \in Chars /\ io_buffer = [i \in 1 .. IO_MAX |-> NUL]
    BY Sizes, ShellAssumption DEF Init
  <2>2. io_buffer \in [1 .. IO_MAX -> Chars]
    BY <2>1
  <2>3. QED
    BY <2>1, <2>2
<1>2. FilesOK
  BY ShellAssumption DEF Init, FilesOK
<1>3. Len(shown.text) <= IO_MAX /\ pc = "prompt"
  <2>1. shown.text = <<>> /\ pc = "prompt"
    BY DEF Init
  <2>2. QED
    BY <2>1, EmptySeq, Sizes
<1>4. QED
  BY <1>1, <1>2, <1>3 DEF IInv, TypeOK, BufferOK, FilesOK

LEMMA Kept == IInv /\ [Next]_vars => IInv'
<1>1. ASSUME IInv, Next PROVE IInv'
  BY <1>1, StepsAreSound DEF Sound
<1>2. ASSUME IInv, UNCHANGED vars PROVE IInv'
  BY <1>2 DEF IInv, TypeOK, BufferOK, FilesOK, vars, disk
<1>3. QED
  BY <1>1, <1>2

\* The inductive invariant: the buffer and the files hold characters and keep to
\* their sizes, and the files' names are C strings.
THEOREM Invariant == Spec => []IInv
BY StartUp, Kept, PTL DEF Spec

\* No command writes past the scratch buffer of the shell or shows more than it
\* holds (shell.c: run_command), and no call lets a name or a file past its size.
THEOREM TypeCorrect == Spec => []TypeOK
<1>1. IInv => TypeOK
  BY DEF IInv
<1>2. QED
  BY <1>1, Invariant, PTL

\* Whatever a command says of a file is so: that it was created, was there, found
\* no room, was written, is missing, is too short to be a program or is one; but
\* "created" is false of a name too long to be kept whole, and only of such a name.
THEOREM MessagesTellTheTruth == Spec => MessagesAreTrue
<1>1. IInv /\ [Next]_vars => [TrueMessage]_vars
  BY StepsAreSound DEF Sound
<1>2. QED
  BY <1>1, Invariant, PTL DEF Spec, MessagesAreTrue

\* cat prints what the file holds, with room for the NUL it puts behind it, and
\* nothing of what an earlier listing or file left in the scratch buffer.
THEOREM CatShowsTheFile == Spec => CatShowsOnlyThatFile
<1>1. IInv /\ [Next]_vars => [OnlyThatFile]_vars
  BY StepsAreSound DEF Sound
<1>2. QED
  BY <1>1, Invariant, PTL DEF Spec, CatShowsOnlyThatFile

\* write ends the name at the first space: no command ever writes the file that
\* touch made under a name with a space in it.
THEOREM SpacedNamesStay == Spec => SpacedNamesAreNeverWritten
<1>1. IInv /\ [Next]_vars => [SpacedFilesKept]_vars
  BY StepsAreSound DEF Sound
<1>2. QED
  BY <1>1, Invariant, PTL DEF Spec, SpacedNamesAreNeverWritten
=============================================================================
