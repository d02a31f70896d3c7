------------------------------ MODULE Strings ------------------------------
(***************************************************************************)
(* The pure functions of utilities/string.cpp.  A string is a sequence of  *)
(* characters; only the ones the functions ask for have names.             *)
(***************************************************************************)
EXTENDS Integers, SequencesExt

CONSTANTS Characters, CR, LF, NUL, Space,   \* '\r', '\n', '\0' and ' '
          Code,      \* the byte of a character
          Keys,      \* what a text is split at
          MaxText    \* bound on the length of a text

ASSUME TextAssumption ==
  /\ Keys \subseteq Seq(Characters) \ {<<>>}
  /\ Code \in [Characters -> 0..255]
  /\ Space \notin 0..15   \* no digit
  /\ MaxText \in Nat

VARIABLE text   \* the text that the functions are called for

\* value.substr over [first, last]
Sub(value, first, last) == SubSeq(value, first, last)

\* Trim(value, group): nothing of group is left at either end.
Trim(value, group) ==
  LET kept == {i \in DOMAIN value : value[i] \notin group}
  IN  IF kept = {} THEN <<>> ELSE Sub(value, Min(kept), Max(kept))

\* std::search from beg on: where key begins, or the end of value.
Search(value, key, beg) ==
  Min({i \in beg..(Len(value) - Len(key) + 1) : Sub(value, i, i + Len(key) - 1) = key}
      \union {Len(value) + 1})

\* Mutant: the key is taken for one character.
SplitOne(value, key, keepEmpty) ==
  LET from[beg \in 1..(Len(value) + 1)] ==
        LET end == Search(value, key, beg)
            str == Trim(Sub(value, beg, end - 1), {CR, LF})
            field == IF beg # end /\ (keepEmpty \/ str # <<>>) THEN <<str>> ELSE <<>>
        IN  IF end = Len(value) + 1 THEN field ELSE field \o from[end + 1]
  IN  IF key = <<>> THEN <<value>> ELSE from[1]

\* Split: the fields between the keys.  A field without a character is skipped
\* whatever keepEmpty says; keepEmpty keeps those that Trim empties.
Split(value, key, keepEmpty) ==
  LET from[beg \in 1..(Len(value) + 1)] ==
        LET end == Search(value, key, beg)
            str == Trim(Sub(value, beg, end - 1), {CR, LF})
            field == IF beg # end /\ (keepEmpty \/ str # <<>>) THEN <<str>> ELSE <<>>
        IN  IF end = Len(value) + 1 THEN field ELSE field \o from[end + Len(key)]
  IN  IF key = <<>> THEN <<value>> ELSE from[1]

\* SplitString: chunks of chunkSize characters, the last one what is left.
SplitString(value, chunkSize) ==
  [i \in 1..((Len(value) + chunkSize - 1) \div chunkSize) |->
     Sub(value, (i - 1) * chunkSize + 1, Min({i * chunkSize, Len(value)}))]

Enter == {CR, LF, NUL}

\* Mutant: the bound of the look at the second character is dropped by one.
EnterAtEnd(value, i) ==
  IF i > Len(value) THEN 0
  ELSE IF value[i] = CR /\ i + 1 < Len(value) /\ value[i + 1] = LF THEN 2 ELSE 1

\* The characters of the line end at i: CR LF is one.
EnterAt(value, i) ==
  IF i > Len(value) THEN 0
  ELSE IF value[i] = CR /\ i < Len(value) /\ value[i + 1] = LF THEN 2 ELSE 1

\* SplitLines: every line up to its end, with the end if keepEnter.
SplitLines(value, keepEnter) ==
  LET from[j \in 1..(Len(value) + 1)] ==
        LET eol == Min({i \in j..Len(value) : value[i] \in Enter} \union {Len(value) + 1})
            next == eol + EnterAt(value, eol)
        IN  IF j > Len(value) THEN <<>>
            ELSE <<Sub(value, j, IF keepEnter THEN next - 1 ELSE eol - 1)>> \o from[next]
  IN  from[1]

\* AsByte2HexString: two digits and a space for each byte.
AsByte2HexString(bytes) ==
  FlattenSeq([i \in DOMAIN bytes |-> <<bytes[i] \div 16, bytes[i] % 16, Space>>])

\* AsHexString2Byte: spaces between the pairs of digits are skipped, those inside a
\* pair are not.  For texts whose digits come in pairs; the code reads beyond
\* the text if the last pair is cut.
AsHexString2Byte(value) ==
  LET from[index \in 1..(Len(value) + 1)] ==
        IF index > Len(value) THEN <<>>
        ELSE IF value[index] = Space THEN from[index + 1]
        ELSE <<16 * value[index] + value[index + 1]>> \o from[index + 2]
  IN  from[1]

-----------------------------------------------------------------------------
TextInit == text = <<>>

Typed == \E c \in Characters : Len(text) < MaxText /\ text' = Append(text, c)

TextSpec == TextInit /\ [][Typed]_text

\* The places where the key is taken: from the left, an occurrence that begins outside
\* those taken before it.
Taken(value, key) ==
  LET found == {i \in 1..(Len(value) - Len(key) + 1) : Sub(value, i, i + Len(key) - 1) = key}
  IN  CHOOSE taken \in SUBSET found :
        \A i \in found : i \in taken <=> \A t \in taken : t < i => t + Len(key) <= i

\* What no key covers.
Free(value, key) ==
  DOMAIN value \ UNION {t..(t + Len(key) - 1) : t \in Taken(value, key)}

\* Whatever the key, one that overlaps itself or holds a line end included, Split returns
\* the longest runs of text outside the keys, trimmed, in order; without keepEmpty those of
\* them that are not empty then.
SplitAgrees ==
  \A key \in Keys, keepEmpty \in BOOLEAN :
    LET fields == Split(text, key, keepEmpty)
        free == Free(text, key)
        EndOf(i) == Max({j \in free : i..j \subseteq free})
        Field(i) == Trim(Sub(text, i, EndOf(i)), {CR, LF})
        starts == {i \in free : i - 1 \notin free /\ (keepEmpty \/ Field(i) # <<>>)}
    IN  \E order \in [DOMAIN fields -> starts] :
          /\ \A m, n \in DOMAIN fields : m < n => order[m] < order[n]
          /\ starts = {order[n] : n \in DOMAIN fields}
          /\ \A n \in DOMAIN fields : fields[n] = Field(order[n])

\* SplitLines and SplitString lose nothing: the lines with their ends are the text and each
\* holds one end, CR LF counting as one; those without are as many and hold none; the chunks
\* are the text again and only the last may be short.
LinesKeepText ==
  LET kept == SplitLines(text, TRUE)
      bare == SplitLines(text, FALSE)
  IN  /\ FlattenSeq(kept) = text
      /\ Len(bare) = Len(kept)
      /\ \A i \in DOMAIN kept :
           LET end == Sub(kept[i], Len(bare[i]) + 1, Len(kept[i]))
           IN  /\ kept[i] = bare[i] \o end
               /\ end \in {<<CR>>, <<LF>>, <<NUL>>, <<CR, LF>>} \/ (end = <<>> /\ i = Len(kept))
               /\ \A j \in DOMAIN bare[i] : bare[i][j] \notin Enter
               \* a CR at the end of a line means that no LF follows
               /\ end = <<CR>> /\ i < Len(kept) => Head(kept[i + 1]) # LF
      /\ \A chunk \in 1..MaxText :
           LET chunks == SplitString(text, chunk)
           IN  /\ FlattenSeq(chunks) = text
               /\ \A i \in DOMAIN chunks :
                    Len(chunks[i]) = chunk \/ (i = Len(chunks) /\ Len(chunks[i]) \in 1..chunk)

\* The bytes come back from their hexadecimal digits, with spaces between the pairs.
HexKeepsText ==
  LET bytes == [i \in DOMAIN text |-> Code[text[i]]]
  IN  AsHexString2Byte(<<Space>> \o AsByte2HexString(bytes)) = bytes

\* TextKept: for every text, Split agrees with what its keys leave free, SplitLines and
\* SplitString lose nothing, and bytes come back from their digits.
TextKept == SplitAgrees /\ LinesKeepText /\ HexKeepsText
=============================================================================
