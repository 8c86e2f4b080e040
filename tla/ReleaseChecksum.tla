--------------------------- MODULE ReleaseChecksum ---------------------------
(***************************************************************************)
(* The two readers of a producer's .sha256 file in scripts/common.sh.      *)
(* download_latest_github_release_asset reads it with a Python program to  *)
(* learn the digest of the archive to download; later, preflight-ndk.sh    *)
(* and validate-sdk.sh have verify_cached_release_archive read it again    *)
(* with a loop of the shell, one line at a time.  Modules FetchSources and *)
(* SdkBuild take both readings for one; here they are told apart.          *)
(*                                                                         *)
(* A line is the number of its words, the first word and the second word.  *)
(* A first word is a digest in some spelling or no digest at all.          *)
(***************************************************************************)
EXTENDS Naturals, Sequences

CONSTANTS
    Digests,    \* the digests, in lower case
    Spellings,  \* first words
    Lower,      \* Lower[w]: w in lower case
    Unset,      \* the empty value of a shell variable
    MaxLines    \* bound: lines of a file

ASSUME ChecksumAssumption ==
    /\ Lower \in [Spellings -> Spellings]
    /\ Digests \subseteq Spellings
    /\ \A d \in Digests : Lower[d] = d
    /\ Unset \notin Spellings
    /\ MaxLines \in Nat

(***************************************************************************)
(* Second words: the asset's name, with the marker of binary mode, with    *)
(* two of them, with the carriage return of a CRLF line, another name.     *)
(***************************************************************************)
Word == {"asset", "*asset", "**asset", "asset^M", "other"}

\* A line of one word stands for every line with fewer than two.
Line == {l \in [words : 1..3, digest : Spellings, name : Word] :
             l.name = "asset^M" => l.words = 2}

\* The last line may lack its newline.
File == {f \in [lines : UNION {[1..n -> Line] : n \in 0..MaxLines}, ended : BOOLEAN] :
             f.lines = <<>> => f.ended}

VARIABLES
    file,      \* the checksum file
    archive,   \* the digest of the archive
    next,      \* the line that the loop reads next
    matches,   \* matches
    expected,  \* expected
    verdict    \* "reading", or how the function ended

vars == <<file, archive, next, matches, expected, verdict>>

-----------------------------------------------------------------------------
(* The Python reader. *)

\* str.split() drops the carriage return, lstrip("*") every star.
Matches(f) == {i \in DOMAIN f.lines :
                   /\ f.lines[i].words = 2
                   /\ f.lines[i].name \in {"asset", "*asset", "**asset", "asset^M"}}

Listed(f) == {Lower[f.lines[i].digest] : i \in Matches(f)}

\* len(matches) == 1 and the digest has 64 hexadecimal digits.
Accepts(f) == \E i \in Matches(f) : Matches(f) = {i} /\ Lower[f.lines[i].digest] \in Digests

-----------------------------------------------------------------------------
(* verify_cached_release_archive, once it has found that both files exist. *)
Init ==
    /\ file \in File
    /\ archive \in Digests
    /\ next = 1
    /\ matches = 0
    /\ expected = Unset
    /\ verdict = "reading"

\* read returns false at a last line without a newline: the body of the loop
\* never sees that line.
Readable(f) == {i \in DOMAIN f.lines : f.ended \/ i < Len(f.lines)}

\* Mutant: the star of binary mode is not taken off.
NamedVerbatim(l) == l.words >= 2 /\ l.name = "asset"

\* ${filename#\*} takes one star off.
Named(l) == l.words >= 2 /\ l.name \in {"asset", "*asset"}

\* Mutant: what follows the name is not looked at.
ValidUnbounded(l) == Lower[l.digest] \in Digests

Valid(l) == Lower[l.digest] \in Digests /\ l.words = 2

Skip ==
    /\ verdict = "reading"
    /\ next \in Readable(file)
    /\ ~Named(file.lines[next])
    /\ next' = next + 1
    /\ UNCHANGED <<file, archive, matches, expected, verdict>>

Count ==
    /\ verdict = "reading"
    /\ next \in Readable(file)
    /\ Named(file.lines[next])
    /\ Valid(file.lines[next])
    /\ expected' = Lower[file.lines[next].digest]
    /\ matches' = matches + 1
    /\ next' = next + 1
    /\ UNCHANGED <<file, archive, verdict>>

DieInvalid ==
    /\ verdict = "reading"
    /\ next \in Readable(file)
    /\ Named(file.lines[next])
    /\ ~Valid(file.lines[next])
    /\ verdict' = "invalid"
    /\ UNCHANGED <<file, archive, next, matches, expected>>

Decide ==
    /\ verdict = "reading"
    /\ next \notin Readable(file)
    /\ verdict' = IF matches # 1 THEN "count"
                  ELSE IF archive # expected THEN "mismatch" ELSE "ok"
    /\ UNCHANGED <<file, archive, next, matches, expected>>

Next == Skip \/ Count \/ DieInvalid \/ Decide

Spec == Init /\ [][Next]_vars

-----------------------------------------------------------------------------
TypeOK ==
    /\ file \in File
    /\ archive \in Digests
    /\ next \in 1..(Len(file.lines) + 1)
    /\ matches \in 0..Len(file.lines)
    /\ expected \in Digests \cup {Unset}
    /\ verdict \in {"reading", "ok", "invalid", "count", "mismatch"}

\* common.sh:81 against common.sh:221-228.  Two programs with different ideas
\* of a line and of an entry read one file: if both find their one entry, it is
\* the same digest.  The archive is never verified against another digest than
\* the one it was downloaded for.
ReadersAgree ==
    verdict \in {"ok", "mismatch"} /\ Accepts(file) => Listed(file) = {expected}

\* A file as sha256sum writes it: every line has a digest and a name, plain or
\* with the marker of binary mode, and ends with a newline.
Sha256sumFormat(f) ==
    /\ f.ended
    /\ \A i \in DOMAIN f.lines :
           /\ f.lines[i].words = 2
           /\ f.lines[i].digest \in Digests
           /\ f.lines[i].name \in {"asset", "*asset", "other"}

\* For such files the readers are one: the function accepts exactly the archive
\* that the fetch was told to download, and refuses the file when the fetch did.
SameVerdict ==
    Sha256sumFormat(file) /\ verdict # "reading" =>
        (verdict = "ok" <=> Accepts(file) /\ Listed(file) = {archive})

(***************************************************************************)
(* The inductive invariant behind these properties.                        *)
(***************************************************************************)
Seen == {i \in DOMAIN file.lines : i < next /\ Named(file.lines[i])}

\* The loop's two variables say what has been seen so far, and a verdict was
\* reached for the reason it names.
LoopInv ==
    /\ TypeOK
    /\ matches < next
    /\ matches = 0 => Seen = {}
    /\ matches = 1 => \E i \in Seen :
           /\ Seen = {i}
           /\ Valid(file.lines[i])
           /\ expected = Lower[file.lines[i].digest]
    /\ matches > 1 => \E i, j \in Seen : i # j
    /\ verdict \in {"ok", "mismatch", "count"} => next \notin Readable(file)
    /\ verdict = "count" => matches # 1
    /\ verdict \in {"ok", "mismatch"} => matches = 1
    /\ verdict \in {"ok", "mismatch"} => (verdict = "ok" <=> archive = expected)
    /\ verdict = "invalid" => /\ next \in Readable(file)
                             /\ Named(file.lines[next])
                             /\ ~Valid(file.lines[next])

\* common.sh:79, "$checksum must contain exactly one SHA-256 entry for $asset":
\* the function ends with this message only when the file has none or several.
OneEntryIsEnough ==
    verdict = "count" =>
        ~ \E i \in DOMAIN file.lines :
              /\ Named(file.lines[i]) /\ Valid(file.lines[i])
              /\ \A j \in DOMAIN file.lines : Named(file.lines[j]) => j = i
=============================================================================
