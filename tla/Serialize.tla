----------------------------- MODULE Serialize -----------------------------
(***************************************************************************)
(* Serialize and Deserialize of utilities/serialize.h.  A writer appends   *)
(* items of different widths to one buffer, a reader walks the buffer with *)
(* an offset and must ask for the same types.  Base and Width stand for    *)
(* the 256 values of a char and for sizeof.  The buffer is large enough:   *)
(* nothing in the code compares size_ with the reserve.                    *)
(***************************************************************************)
EXTENDS Integers, SequencesExt

CONSTANTS Base,      \* the values of one char
          Width,     \* sizeof, by type: "bool", "uint32", "uint64"; "int" is signed
          Items,     \* the items written: records of a type and a value
          MaxItems   \* bound on the items of one buffer

\* What an item of each type may be: the overloads of operator<<.
ItemOf(type) ==
  [type : {type},
   value : CASE type = "bool" -> {0, 1}
             [] type = "int" -> {v \in Int : -(Base^Width["int"]) <= 2 * v /\ 2 * v < Base^Width["int"]}
             [] type = "string" -> {s \in Seq(0..Base - 1) : Len(s) < Base^Width["uint32"]}
             [] OTHER -> 0..Base^Width[type] - 1]

ASSUME ItemsAssumption ==
  /\ Base \in Nat /\ Base >= 2
  /\ Width \in [{"bool", "int", "uint32", "uint64"} -> Nat \ {0}]
  /\ \A item \in Items : item.type \in DOMAIN Width \union {"string"} /\ item \in ItemOf(item.type)

VARIABLES buffer,    \* buffer_[0 .. size_), so that size_ is its length
          written,   \* the items given to operator<<
          read,      \* the items operator>> returned
          offset     \* offset_ of the reader

serialize == <<buffer, written, read, offset>>

\* memcpy of an integer: its chars, the low one first; a negative one is stored
\* modulo its width.
Chars(value, width) ==
  LET unsigned == IF value < 0 THEN value + Base^width ELSE value
  IN  [i \in 1..width |-> (unsigned \div Base^(i - 1)) % Base]

\* The unsigned number that is stored in chars.
Number(chars) ==
  LET low[n \in 0..Len(chars)] == IF n = 0 THEN 0 ELSE low[n - 1] + chars[n] * Base^(n - 1)
  IN  low[Len(chars)]

Value(type, chars) ==
  IF type = "int" /\ 2 * Number(chars) >= Base^Len(chars) THEN Number(chars) - Base^Len(chars)
  ELSE Number(chars)

\* Mutant: the number of characters is stored as a size_t.
AppendWide(item) ==
  IF item.type = "string" THEN Chars(Len(item.value), Width["uint64"]) \o item.value
  ELSE Chars(item.value, Width[item.type])

\* Append: the value, or the length and the characters of a string.
Appended(item) ==
  IF item.type = "string" THEN Chars(Len(item.value), Width["uint32"]) \o item.value
  ELSE Chars(item.value, Width[item.type])

SerialInit == buffer = <<>> /\ written = <<>> /\ read = <<>> /\ offset = 0

\* operator<<
Write(item) ==
  /\ Len(written) < MaxItems
  /\ buffer' = buffer \o Appended(item)
  /\ written' = Append(written, item)
  /\ UNCHANGED <<read, offset>>

\* operator>> for a type, at the place where an item of that type was written.
Extract(type) ==
  LET at(width) == SubSeq(buffer, offset + 1, offset + width)
      len == Value("uint32", at(Width["uint32"]))
      first == offset + Width["uint32"]
  IN  IF type = "string"
      THEN /\ read' = Append(read, [type |-> type, value |-> SubSeq(buffer, first + 1, first + len)])
           /\ offset' = first + len
      ELSE /\ read' = Append(read, [type |-> type, value |-> Value(type, at(Width[type]))])
           /\ offset' = offset + Width[type]

Read ==
  /\ Len(read) < Len(written)
  /\ Extract(written[Len(read) + 1].type)
  /\ UNCHANGED <<buffer, written>>

SerialNext == (\E item \in Items : Write(item)) \/ Read

SerialSpec == SerialInit /\ [][SerialNext]_serialize

\* RoundTrip: a reader that asks for the types in the order they were written gets
\* the items, negative ones and empty strings among them, and has consumed the
\* whole buffer when it has got them all.
RoundTrip ==
  /\ IsPrefix(read, written)
  /\ read = written => offset = Len(buffer)
=============================================================================
