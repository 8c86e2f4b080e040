---------------------------- MODULE ElfValidation ----------------------------
(***************************************************************************)
(* is_valid_elf_machine of scripts/elf_validation.py: the walk over the    *)
(* program headers and the section headers of a file that need not be an   *)
(* ELF file.  What the file holds is chosen when it is read.  The sizes of *)
(* the three structures are constants, to scale the file down; the values  *)
(* of a 16-bit field that have a meaning of their own are Special.         *)
(***************************************************************************)
EXTENDS Integers

CONSTANTS
    HeaderSize,   \* ELF_HEADER_SIZE
    ProgramSize,  \* PROGRAM_HEADER_SIZE
    SectionSize,  \* SECTION_HEADER_SIZE
    Special,      \* PN_XNUM, SHN_XINDEX
    MaxSize,      \* bound: bytes of the file
    MaxCount      \* bound: rows of a table

VARIABLES
    size,     \* file_size
    pc,       \* what is read next, or "end"
    table,    \* the table being walked: its place and its number of rows
    index,    \* index
    loaded,   \* has_load_segment
    extent,   \* auxiliary: the row just accepted
    valid     \* the value returned

elfVars == <<size, pc, table, index, loaded, extent, valid>>

Field == 0..(MaxSize + 1)
Rows  == 0..MaxCount
Row   == [offset : Field, length : Field, align : Field]
None  == [offset |-> 0, length |-> 0, align |-> 0]

RangeFits(offset, length) ==
    0 <= offset /\ offset <= size /\ 0 <= length /\ length <= size - offset

\* a & b is not 0: bit k is set in both.
CommonBit(a, b) == \E k \in 0..MaxSize : (a \div 2 ^ k) % 2 = 1 /\ (b \div 2 ^ k) % 2 = 1

AlignmentFits(a) == a \in {0, 1} \/ ~CommonBit(a, a - 1)

ElfInit ==
    /\ size \in 0..MaxSize
    /\ pc = "header"
    /\ table = [offset |-> 0, entry |-> 0, rows |-> 0]
    /\ index = 0
    /\ loaded = FALSE
    /\ extent = None
    /\ valid = FALSE

Return(result) == pc' = "end" /\ valid' = result

\* Mutant: the rows are taken to have the size of what is read of them.
ReadHeaderPacked ==
    /\ pc = "header"
    /\ size >= HeaderSize
    /\ \E offset, entry \in Field, rows \in Rows \ {0} :
          /\ entry >= ProgramSize
          /\ offset >= HeaderSize
          /\ RangeFits(offset, ProgramSize * rows)
          /\ table' = [offset |-> offset, entry |-> entry, rows |-> rows]
    /\ pc' = "program"
    /\ UNCHANGED <<size, index, loaded, extent, valid>>

\* The fixed fields, read together, are right or not.
ReadHeader ==
    /\ pc = "header"
    /\ \/ Return(FALSE) /\ UNCHANGED table
       \/ /\ size >= HeaderSize
          /\ \E offset, entry \in Field, rows \in Rows \ {0} :
                /\ entry >= ProgramSize
                /\ offset >= HeaderSize
                /\ RangeFits(offset, entry * rows)
                /\ table' = [offset |-> offset, entry |-> entry, rows |-> rows]
          /\ pc' = "program"
          /\ UNCHANGED valid
    /\ UNCHANGED <<size, index, loaded, extent>>

\* A row is refused, or accepted as extent.
ReadRow(from, to, fits, row) ==
    /\ pc = from
    /\ index < table.rows
    /\ IF fits THEN pc' = to /\ extent' = row /\ UNCHANGED valid
               ELSE Return(FALSE) /\ UNCHANGED extent
    /\ UNCHANGED <<size, table, index>>

ReadProgram ==
    \E load, shorter, congruent \in BOOLEAN, row \in Row :
        LET fits == /\ RangeFits(row.offset, row.length)
                    /\ ~shorter                           \* memory_length < file_length
                    /\ AlignmentFits(row.align)
                    /\ load /\ row.align > 1 => congruent
        IN  /\ ReadRow("program", "nextProgram", fits, row)
            /\ loaded' = (loaded \/ (fits /\ load))

\* Mutant: the exception is made for every other type.
ReadSectionSwapped ==
    \E nobits \in BOOLEAN, row \in Row :
        LET fits == (~nobits \/ RangeFits(row.offset, row.length)) /\ AlignmentFits(row.align)
        IN  /\ ReadRow("section", "nextSection", fits, IF nobits THEN [row EXCEPT !.length = 0] ELSE row)
            /\ UNCHANGED loaded

\* A section of type SHT_NOBITS has no bytes in the file.
ReadSection ==
    \E nobits \in BOOLEAN, row \in Row :
        LET fits == (nobits \/ RangeFits(row.offset, row.length)) /\ AlignmentFits(row.align)
        IN  /\ ReadRow("section", "nextSection", fits, IF nobits THEN [row EXCEPT !.length = 0] ELSE row)
            /\ UNCHANGED loaded

NextRow ==
    /\ \/ pc = "nextProgram" /\ pc' = "program"
       \/ pc = "nextSection" /\ pc' = "section"
    /\ index' = index + 1
    /\ extent' = None
    /\ UNCHANGED <<size, table, loaded, valid>>

\* The table of section headers is well formed and lies in the file.
SectionsFit(offset, entry, count, rows, names) ==
    /\ offset >= HeaderSize
    /\ entry >= SectionSize
    /\ count = 0 => RangeFits(offset, SectionSize)
    /\ rows # 0
    /\ RangeFits(offset, entry * rows)
    /\ names \in {0, Special} \/ names < rows

\* The table is absent, malformed, or has its number of rows in the header or,
\* when that says zero, in the size field of the first row.
ReadSectionTable ==
    /\ pc = "program"
    /\ index = table.rows
    /\ \E offset, entry \in Field, count, zero \in Rows, names \in Rows \cup {Special} :
          LET rows == IF count = 0 THEN zero ELSE count
          IN  IF loaded /\ SectionsFit(offset, entry, count, rows, names)
              THEN /\ table' = [offset |-> offset, entry |-> entry, rows |-> rows]
                   /\ index' = 0
                   /\ pc' = "section"
                   /\ UNCHANGED valid
              ELSE /\ Return(loaded /\ offset = 0 /\ count = 0 /\ names = 0)
                   /\ UNCHANGED <<table, index>>
    /\ UNCHANGED <<size, loaded, extent>>

Accept ==
    /\ pc = "section"
    /\ index = table.rows
    /\ Return(TRUE)
    /\ UNCHANGED <<size, table, index, loaded, extent>>

ElfNext ==
    \/ ReadHeader \/ ReadProgram \/ ReadSectionTable \/ ReadSection
    \/ NextRow \/ Accept

ElfSpec == ElfInit /\ [][ElfNext]_elfVars

-----------------------------------------------------------------------------
Within(offset, length) == \A i \in 0..(length - 1) : offset + i \in 0..(size - 1)

ElfTypeOK ==
    /\ size \in 0..MaxSize
    /\ pc \in {"header", "program", "nextProgram", "section", "nextSection", "end"}
    /\ table \in [offset : Field, entry : Field, rows : Rows]
    /\ index \in 0..table.rows
    /\ loaded \in BOOLEAN
    /\ extent \in Row
    /\ valid \in BOOLEAN

\* elf_validation.py:64-68 and 115-119: every byte that an accepted segment or
\* section claims is a byte of the file, also at its end and for empty ranges,
\* and its alignment is 0 or a power of two.
AcceptedIsSound ==
    /\ Within(extent.offset, extent.length)
    /\ extent.align = 0 \/ \E k \in 0..MaxSize : extent.align = 2 ^ k

\* The test of elf_validation.py:68 passes 0 and powers of two only: what the
\* proofs take from arithmetic, checked for the fields of the instance.
PowersFound == \A a \in Field : AlignmentFits(a) => a = 0 \/ \E k \in 0..MaxSize : a = 2 ^ k

\* elf_validation.py:48-59 and 95-111: no row that is read reaches past the end
\* of the file, so the walk never sees a short row.
RowsInside ==
    /\ pc = "program" /\ index < table.rows => Within(table.offset + index * table.entry, ProgramSize)
    /\ pc = "section" /\ index < table.rows => Within(table.offset + index * table.entry, SectionSize)
=============================================================================
