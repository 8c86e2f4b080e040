----------------------------- MODULE ReaderProofs ----------------------------
(***************************************************************************)
(* Two readers of files that others wrote.  The two readers of a .sha256   *)
(* file agree, for files of any length, any digests and any spelling of    *)
(* them.  The ELF validator stays inside its file, for files and tables of *)
(* any size and any sizes of the structures.                               *)
(***************************************************************************)
EXTENDS ReleaseChecksum, ElfValidation, SequenceTheorems, TLAPS

-----------------------------------------------------------------------------
\* The lines of a file are numbered from 1 to its length.
LEMMA FileFacts ==
    ASSUME NEW f \in File
    PROVE  /\ Len(f.lines) \in Nat
           /\ DOMAIN f.lines = 1..Len(f.lines)
           /\ \A i \in DOMAIN f.lines : f.lines[i] \in Line
           /\ Readable(f) \subseteq DOMAIN f.lines
           /\ f.ended => Readable(f) = DOMAIN f.lines
<1>1. PICK n \in 0..MaxLines : f.lines \in [1..n -> Line]
  BY DEF File
<1>2. n \in Nat
  BY ChecksumAssumption
<1>3. f.lines \in Seq(Line)
  BY <1>1, <1>2, IsASeq
<1> QED BY <1>3, LenProperties DEF Readable

\* Nothing has been seen when the loop starts.
LEMMA InitLoop == Init => LoopInv
<1> SUFFICES ASSUME Init PROVE LoopInv
  OBVIOUS
<1>1. file \in File /\ next = 1 /\ matches = 0 /\ expected = Unset /\ verdict = "reading"
  BY DEF Init
<1>2. Len(file.lines) \in Nat /\ DOMAIN file.lines = 1..Len(file.lines)
  BY <1>1, FileFacts
<1>3. TypeOK
  BY <1>1, <1>2 DEF Init, TypeOK
<1>4. Seen = {}
  BY <1>1, <1>2 DEF Seen
<1> QED BY <1>1, <1>3, <1>4 DEF LoopInv

\* One turn of the loop, or the decision after it, keeps the invariant.
LEMMA LoopStep == LoopInv /\ [Next]_vars => LoopInv'
<1> SUFFICES ASSUME LoopInv, [Next]_vars PROVE LoopInv'
  OBVIOUS
<1>a. TypeOK
  BY DEF LoopInv
<1>b. /\ file \in File /\ Len(file.lines) \in Nat /\ DOMAIN file.lines = 1..Len(file.lines)
      /\ Readable(file) \subseteq DOMAIN file.lines
      /\ next \in Nat /\ matches \in Nat /\ next >= 1
      /\ \A i \in DOMAIN file.lines : Lower[file.lines[i].digest] \in Spellings
  <2>1. file \in File
    BY <1>a DEF TypeOK
  <2>2. \A i \in DOMAIN file.lines : file.lines[i].digest \in Spellings
    BY <2>1, FileFacts DEF Line
  <2> QED BY <1>a, <2>1, <2>2, FileFacts, ChecksumAssumption DEF TypeOK
<1>c. Seen \subseteq DOMAIN file.lines /\ \A i \in Seen : i < next
  BY DEF Seen
<1>1. CASE Skip
  <2>1. file' = file /\ next' = next + 1 /\ next \in DOMAIN file.lines
    BY <1>1, <1>b DEF Skip
  <2>2. Seen' = Seen
    BY <1>1, <1>b, <2>1 DEF Skip, Seen
  <2>3. TypeOK'
    BY <1>1, <1>a, <1>b, <2>1 DEF Skip, TypeOK
  <2> QED BY <1>1, <1>b, <2>2, <2>3 DEF Skip, LoopInv
<1>2. CASE Count
  <2>1. /\ file' = file /\ next' = next + 1 /\ matches' = matches + 1
        /\ next \in DOMAIN file.lines /\ verdict' = verdict /\ verdict = "reading"
        /\ Valid(file.lines[next]) /\ expected' = Lower[file.lines[next].digest]
    BY <1>2, <1>b DEF Count
  <2>2. Seen' = Seen \cup {next} /\ next \notin Seen
    <3>1. next \notin Seen
      BY <1>b, <1>c
    <3>2. Seen' = Seen \cup {next}
      BY <1>2, <1>b, <2>1 DEF Count, Seen
    <3> QED BY <3>1, <3>2
  <2>3. TypeOK'
    <3>1. matches < Len(file.lines)
      BY <1>b, <2>1 DEF LoopInv
    <3> QED BY <1>2, <1>a, <1>b, <2>1, <3>1 DEF Count, TypeOK, Valid
  <2> QED BY <2>1, <2>2, <2>3, <1>b DEF LoopInv
<1>3. CASE DieInvalid
  BY <1>3 DEF DieInvalid, LoopInv, TypeOK, Seen
<1>4. CASE Decide
  BY <1>4 DEF Decide, LoopInv, TypeOK, Seen
<1>5. CASE UNCHANGED vars
  BY <1>5 DEF vars, LoopInv, TypeOK, Seen
<1> QED BY <1>1, <1>2, <1>3, <1>4, <1>5 DEF Next

\* The loop's invariant holds however long the file is.
THEOREM LoopInvariance == Spec => []LoopInv
  BY InitLoop, LoopStep, PTL DEF Spec

\* Every variable of the function keeps its type.
THEOREM TypeCorrect == Spec => []TypeOK
<1>1. LoopInv => TypeOK
  BY DEF LoopInv
<1> QED BY LoopInvariance, <1>1, PTL

\* A line the shell counts is a line Python counts.
LEMMA EntryMatches ==
    ASSUME NEW f \in File, NEW i \in DOMAIN f.lines,
           Named(f.lines[i]), Valid(f.lines[i])
    PROVE  i \in Matches(f)
  BY DEF Named, Valid, Matches

\* When both readers find their one entry it is the same digest, although they
\* differ on stars, carriage returns, further words and unended lines.
THEOREM Agreement == Spec => []ReadersAgree
<1>1. LoopInv => ReadersAgree
  <2> SUFFICES ASSUME LoopInv, verdict \in {"ok", "mismatch"}, Accepts(file)
               PROVE  Listed(file) = {expected}
    BY DEF ReadersAgree
  <2>1. PICK i \in Seen : /\ Valid(file.lines[i])
                          /\ expected = Lower[file.lines[i].digest]
    BY DEF LoopInv
  <2>2. i \in Matches(file)
    BY <2>1, EntryMatches DEF LoopInv, TypeOK, Seen
  <2>3. Matches(file) = {i}
    BY <2>2 DEF Accepts
  <2> QED BY <2>1, <2>3 DEF Listed
<1> QED BY LoopInvariance, <1>1, PTL

\* A file as sha256sum writes it gets the same verdict from both readers, so an
\* archive that was fetched by its digest is accepted when it is used.
THEOREM SameForSha256sum == Spec => []SameVerdict
<1>1. LoopInv => SameVerdict
  <2> SUFFICES ASSUME LoopInv, Sha256sumFormat(file), verdict # "reading"
               PROVE  verdict = "ok" <=> Accepts(file) /\ Listed(file) = {archive}
    BY DEF SameVerdict
  <2>1. /\ file \in File /\ Len(file.lines) \in Nat
        /\ DOMAIN file.lines = 1..Len(file.lines)
        /\ Readable(file) = DOMAIN file.lines
    BY FileFacts DEF LoopInv, TypeOK, Sha256sumFormat
  <2>2. \A i \in DOMAIN file.lines : Valid(file.lines[i])
    BY ChecksumAssumption DEF Sha256sumFormat, Valid
  <2>3. verdict \in {"ok", "mismatch", "count"}
    BY <2>1, <2>2 DEF LoopInv, TypeOK
  <2>4. next = Len(file.lines) + 1
    BY <2>1, <2>3 DEF LoopInv, TypeOK
  <2>5. Seen = Matches(file)
    <3>1. \A i \in DOMAIN file.lines : i < next
      BY <2>1, <2>4
    <3>2. ASSUME NEW i \in DOMAIN file.lines
          PROVE  Named(file.lines[i]) <=> i \in Matches(file)
      BY DEF Sha256sumFormat, Named, Matches
    <3> QED BY <3>1, <3>2 DEF Seen, Matches
  <2>6. CASE verdict = "count"
    <3>1. matches = 0 \/ matches > 1
      BY <2>6 DEF LoopInv, TypeOK
    <3>2. ~ \E i : Matches(file) = {i}
      BY <2>5, <3>1 DEF LoopInv
    <3> QED BY <2>6, <3>2 DEF Accepts
  <2>7. CASE verdict \in {"ok", "mismatch"}
    <3>1. PICK i \in Seen : /\ Seen = {i}
                            /\ Valid(file.lines[i])
                            /\ expected = Lower[file.lines[i].digest]
      BY <2>7 DEF LoopInv
    <3>2. Accepts(file) /\ Listed(file) = {expected}
      BY <2>5, <3>1 DEF Accepts, Listed, Valid
    <3> QED BY <2>7, <3>2 DEF LoopInv
  <2> QED BY <2>3, <2>6, <2>7
<1> QED BY LoopInvariance, <1>1, PTL

-----------------------------------------------------------------------------
\* The structure sizes of elf_validation.py:10-17 and the bounds are numbers.
Bounded ==
    /\ ProgramSize \in Nat /\ SectionSize \in Nat
    /\ MaxSize \in Nat /\ MaxCount \in Nat

\* The table in hand lies in the file, with rows at least as long as what is
\* read of them; what has been accepted of a row lies in the file.
TableInv ==
    /\ size \in Nat /\ index \in Nat /\ valid \in BOOLEAN /\ loaded \in BOOLEAN
    /\ table \in [offset : Nat, entry : Nat, rows : Nat]
    /\ extent \in Row /\ AlignmentFits(extent.align)
    /\ extent.length = 0 \/ extent.offset + extent.length <= size
    /\ pc \in {"program", "nextProgram", "section", "nextSection"} =>
           table.offset + table.entry * table.rows <= size
    /\ pc \in {"program", "nextProgram"} => table.entry >= ProgramSize
    /\ pc \in {"section", "nextSection"} => table.entry >= SectionSize

\* Rows before the end of a table end before it.
LEMMA RowEnd ==
    ASSUME NEW e \in Nat, NEW r \in Nat, NEW i \in Nat, i < r
    PROVE  i * e \in Nat /\ e * r \in Nat /\ i * e + e <= e * r
<1>1. PICK d \in Nat : r = i + 1 + d
  <2>1. r - i - 1 \in Nat /\ r = i + 1 + (r - i - 1)
    OBVIOUS
  <2> QED BY <2>1
<1>2. e * r = i * e + e + d * e
  BY <1>1
<1>3. d * e \in Nat /\ i * e \in Nat /\ e * r \in Nat
  OBVIOUS
<1> QED BY <1>2, <1>3

\* What _range_fits accepts ends in the file.
LEMMA RangeEnd ==
    ASSUME size \in Nat, NEW o \in Int, NEW l \in Int, RangeFits(o, l)
    PROVE  o \in Nat /\ l \in Nat /\ o + l <= size
  BY DEF RangeFits

\* The row that stands for none fits.
LEMMA NoneFits ==
    ASSUME Bounded
    PROVE  None \in Row /\ None.length = 0 /\ AlignmentFits(None.align)
<1>1. 0 \in Field /\ AlignmentFits(0)
  BY DEF Field, Bounded, AlignmentFits
<1> QED BY <1>1 DEF None, Row

\* Every row that the walk accepts, and every table it enters, lies in the file.
LEMMA TableStep ==
    ASSUME Bounded, TableInv, [ElfNext]_elfVars
    PROVE  TableInv'
<1>f. Field \subseteq Nat /\ Rows \subseteq Nat
  BY DEF Field, Rows, Bounded
<1>r. Row \subseteq [offset : Nat, length : Nat, align : Nat]
  BY Zenon, <1>f DEF Row
<1>z. 0 \in Field
  BY DEF Field, Bounded
<1>n. None \in Row /\ None.length = 0 /\ AlignmentFits(None.align)
  BY NoneFits
<1>m. \A e, r \in Nat : e * r \in Nat
  OBVIOUS
<1>1. CASE ReadHeader
  <2>1. CASE Return(FALSE) /\ UNCHANGED table
    <3>1. pc' = "end" /\ valid' = FALSE /\ UNCHANGED <<size, index, loaded, extent, table>>
      BY Zenon, <1>1, <2>1 DEF ReadHeader, Return
    <3> QED BY Zenon, <3>1 DEF TableInv
  <2>2. CASE ~(Return(FALSE) /\ UNCHANGED table)
    <3>1. PICK o \in Field, e \in Field, r \in Rows \ {0} :
              /\ e >= ProgramSize /\ RangeFits(o, e * r)
              /\ table' = [offset |-> o, entry |-> e, rows |-> r]
      BY Zenon, <1>1, <2>2 DEF ReadHeader
    <3>2. pc' = "program" /\ UNCHANGED <<size, index, loaded, extent, valid>>
      BY Zenon, <1>1, <2>2 DEF ReadHeader
    <3>3. o \in Nat /\ e \in Nat /\ r \in Nat /\ e * r \in Int
      BY <1>f, <3>1
    <3>4. o + e * r <= size
      BY <3>1, <3>3, RangeEnd DEF TableInv
    <3>5. /\ table'.offset = o /\ table'.entry = e /\ table'.rows = r
          /\ table' \in [offset : Nat, entry : Nat, rows : Nat]
      BY <3>1, <3>3
    <3> QED BY Zenon, <3>1, <3>2, <3>4, <3>5 DEF TableInv
  <2> QED BY Zenon, <2>1, <2>2
<1>2. ASSUME NEW from, NEW to, NEW fits, NEW row \in Row,
             ReadRow(from, to, fits, row), loaded' \in BOOLEAN,
             fits => row.length = 0 \/ row.offset + row.length <= size,
             fits => AlignmentFits(row.align),
             <<from, to>> \in {<<"program", "nextProgram">>, <<"section", "nextSection">>}
      PROVE  TableInv'
  <2>1. pc = from /\ UNCHANGED <<size, table, index>>
    BY Zenon, <1>2 DEF ReadRow
  <2>2. CASE fits /\ pc' = to /\ extent' = row /\ UNCHANGED valid
    BY Zenon, <1>2, <2>1, <2>2 DEF TableInv
  <2>3. CASE pc' = "end" /\ valid' = FALSE /\ UNCHANGED extent
    BY Zenon, <1>2, <2>1, <2>3 DEF TableInv
  <2> QED BY Zenon, <1>2, <2>2, <2>3 DEF ReadRow, Return
<1>3. CASE ReadProgram
  <2>1. PICK load \in BOOLEAN, shorter \in BOOLEAN, congruent \in BOOLEAN, row \in Row :
          LET fits == /\ RangeFits(row.offset, row.length)
                      /\ ~shorter
                      /\ AlignmentFits(row.align)
                      /\ load /\ row.align > 1 => congruent
          IN  /\ ReadRow("program", "nextProgram", fits, row)
              /\ loaded' = (loaded \/ (fits /\ load))
    BY Zenon, <1>3 DEF ReadProgram
  <2> DEFINE fits == /\ RangeFits(row.offset, row.length)
                     /\ ~shorter
                     /\ AlignmentFits(row.align)
                     /\ load /\ row.align > 1 => congruent
  <2>2. row \in [offset : Nat, length : Nat, align : Nat]
    BY Zenon, <1>r
  <2>3. fits => row.length = 0 \/ row.offset + row.length <= size
    BY <2>2, RangeEnd DEF TableInv
  <2>4. loaded' \in BOOLEAN
    BY Zenon, <2>1 DEF TableInv
  <2>5. fits => AlignmentFits(row.align)
    OBVIOUS
  <2> QED BY Zenon, <1>2, <2>1, <2>3, <2>4, <2>5
<1>4. CASE ReadSection
  <2>1. PICK nobits \in BOOLEAN, row \in Row :
          LET fits == (nobits \/ RangeFits(row.offset, row.length)) /\ AlignmentFits(row.align)
          IN  /\ ReadRow("section", "nextSection", fits,
                             IF nobits THEN [row EXCEPT !.length = 0] ELSE row)
              /\ UNCHANGED loaded
    BY Zenon, <1>4 DEF ReadSection
  <2> DEFINE fits == (nobits \/ RangeFits(row.offset, row.length)) /\ AlignmentFits(row.align)
             held == IF nobits THEN [row EXCEPT !.length = 0] ELSE row
  <2>2. row \in [offset : Nat, length : Nat, align : Nat]
    BY Zenon, <1>r
  <2>3. held \in Row /\ held.align = row.align
    BY <1>z DEF Row
  <2>4. fits => held.length = 0 \/ held.offset + held.length <= size
    <3>1. CASE nobits
      BY <2>2, <3>1
    <3>2. CASE ~nobits
      BY <2>2, <3>2, RangeEnd DEF TableInv
    <3> QED BY Zenon, <3>1, <3>2
  <2>5. loaded' \in BOOLEAN
    BY Zenon, <2>1 DEF TableInv
  <2>6. fits => AlignmentFits(held.align)
    BY Zenon, <2>3
  <2> QED BY Zenon, <1>2, <2>1, <2>3, <2>4, <2>5, <2>6
<1>5. CASE NextRow
  BY <1>5, <1>n DEF NextRow, TableInv
<1>6. CASE ReadSectionTable
  <2>0. pc = "program" /\ UNCHANGED <<size, loaded, extent>>
    BY Zenon, <1>6 DEF ReadSectionTable
  <2>p. PICK o, e \in Field, c, z \in Rows, n \in Rows \cup {Special} :
          LET rows == IF c = 0 THEN z ELSE c
          IN  IF loaded /\ SectionsFit(o, e, c, rows, n)
              THEN /\ table' = [offset |-> o, entry |-> e, rows |-> rows]
                   /\ index' = 0
                   /\ pc' = "section"
                   /\ UNCHANGED valid
              ELSE /\ Return(loaded /\ o = 0 /\ c = 0 /\ n = 0)
                   /\ UNCHANGED <<table, index>>
    BY Zenon, <1>6 DEF ReadSectionTable
  <2> DEFINE r == IF c = 0 THEN z ELSE c
  <2>1. \/ /\ pc' = "section" /\ index' = 0 /\ UNCHANGED valid
           /\ SectionsFit(o, e, c, r, n)
           /\ table' = [offset |-> o, entry |-> e, rows |-> r]
        \/ pc' = "end" /\ valid' \in BOOLEAN /\ UNCHANGED <<table, index>>
    BY Zenon, <2>p DEF Return
  <2>2. CASE pc' = "end" /\ valid' \in BOOLEAN /\ UNCHANGED <<table, index>>
    BY Zenon, <2>0, <2>2 DEF TableInv
  <2>3. CASE /\ pc' = "section" /\ index' = 0 /\ UNCHANGED valid
             /\ SectionsFit(o, e, c, r, n)
             /\ table' = [offset |-> o, entry |-> e, rows |-> r]
    <3>1. o \in Nat /\ e \in Nat /\ r \in Nat /\ e * r \in Int /\ index' \in Nat
      BY <1>f, <2>3
    <3>2. e >= SectionSize /\ RangeFits(o, e * r)
      BY Zenon, <2>3 DEF SectionsFit
    <3> HIDE DEF r
    <3>3. o + e * r <= size
      BY <3>1, <3>2, RangeEnd DEF TableInv
    <3>4. /\ table'.offset = o /\ table'.entry = e /\ table'.rows = r
          /\ table' \in [offset : Nat, entry : Nat, rows : Nat]
      BY <2>3, <3>1
    <3> QED BY Zenon, <2>0, <2>3, <3>1, <3>2, <3>3, <3>4 DEF TableInv
  <2> QED BY Zenon, <2>1, <2>2, <2>3
<1>7. CASE Accept
  BY <1>7 DEF Accept, Return, TableInv
<1>8. CASE UNCHANGED elfVars
  BY <1>8 DEF elfVars, TableInv
<1> QED BY Zenon, <1>1, <1>3, <1>4, <1>5, <1>6, <1>7, <1>8 DEF ElfNext

\* The invariant holds from the start.
LEMMA TableHolds ==
    ASSUME Bounded
    PROVE  ElfSpec => []TableInv
<1>1. ElfInit => TableInv
  <2> SUFFICES ASSUME ElfInit PROVE TableInv
    OBVIOUS
  <2>1. /\ size \in Nat /\ pc = "header" /\ table = [offset |-> 0, entry |-> 0, rows |-> 0]
        /\ index = 0 /\ loaded = FALSE /\ valid = FALSE /\ extent = None
    BY DEF ElfInit
  <2>2. table \in [offset : Nat, entry : Nat, rows : Nat] /\ index \in Nat
    BY <2>1
  <2> QED BY Zenon, <2>1, <2>2, NoneFits DEF TableInv
<1>2. TableInv /\ [ElfNext]_elfVars => TableInv'
  BY TableStep
<1> QED BY <1>1, <1>2, PTL DEF ElfSpec

\* elf_validation.py reads no row past the end of the file, whatever the header
\* and the rows say: a short read never decides a verdict.
THEOREM NoShortRow ==
    ASSUME Bounded
    PROVE  ElfSpec => []RowsInside
<1>1. TableInv => RowsInside
  <2> SUFFICES ASSUME TableInv PROVE RowsInside
    OBVIOUS
  <2>1. ASSUME NEW n \in Nat, index < table.rows, table.entry >= n,
               table.offset + table.entry * table.rows <= size
        PROVE  Within(table.offset + index * table.entry, n)
    <3>1. table.offset \in Nat /\ table.entry \in Nat /\ table.rows \in Nat /\ index \in Nat /\ size \in Nat
      BY DEF TableInv
    <3>2. /\ index * table.entry \in Nat /\ table.entry * table.rows \in Nat
          /\ index * table.entry + table.entry <= table.entry * table.rows
      BY <2>1, <3>1, RowEnd
    <3> QED BY <2>1, <3>1, <3>2 DEF Within
  <2>2. ASSUME pc = "program", index < table.rows
        PROVE  Within(table.offset + index * table.entry, ProgramSize)
    BY Zenon, <2>1, <2>2 DEF TableInv, Bounded
  <2>3. ASSUME pc = "section", index < table.rows
        PROVE  Within(table.offset + index * table.entry, SectionSize)
    BY Zenon, <2>1, <2>3 DEF TableInv, Bounded
  <2> QED BY Zenon, <2>2, <2>3 DEF RowsInside
<1> QED BY <1>1, TableHolds, PTL

\* Every byte of an accepted segment or section is a byte of the file.
LEMMA ExtentInside ==
    ASSUME Bounded, TableInv
    PROVE  Within(extent.offset, extent.length)
<1>1. extent.offset \in Nat /\ extent.length \in Nat /\ size \in Nat
  BY DEF TableInv, Row, Field, Bounded
<1>2. extent.length = 0 \/ extent.offset + extent.length <= size
  BY DEF TableInv
<1> QED BY <1>1, <1>2 DEF Within

\* What elf_validation.py accepts of a segment or section is sound: its bytes are
\* bytes of the file and, as far as the test a & (a - 1) = 0 finds the powers of
\* two among the numbers a field holds, its alignment is 0 or a power of two.
THEOREM AcceptedExtents ==
    ASSUME Bounded, PowersFound
    PROVE  ElfSpec => []AcceptedIsSound
<1>1. TableInv => AcceptedIsSound
  <2> SUFFICES ASSUME TableInv PROVE AcceptedIsSound
    OBVIOUS
  <2>1. extent.align \in Field /\ AlignmentFits(extent.align)
    BY DEF TableInv, Row
  <2> QED BY Zenon, <2>1, ExtentInside DEF AcceptedIsSound, PowersFound
<1> QED BY <1>1, TableHolds, PTL
=============================================================================
