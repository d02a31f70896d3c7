-------------------------------- MODULE Net --------------------------------
(***************************************************************************)
(* The address ranges of utilities/net.cpp.  An address is a sequence of   *)
(* Octets octets of OctetBits bits, the code's 4 and 8; the host is little *)
(* endian, so that htonl and inet_pton reverse the octets.                 *)
(***************************************************************************)
EXTENDS Integers, SequencesExt

CONSTANTS Octets, OctetBits

ASSUME NetAssumption == Octets \in Nat \ {0} /\ OctetBits \in Nat \ {0}

VARIABLE address   \* the address that the functions are called for; <<>> before that

AddressBits == Octets * OctetBits

AddressSpace == 2^AddressBits

OctetValues == 0..(2^OctetBits - 1)

\* AsHostByte(const char*): the first octet is the highest.
HostByte(octets) ==
  LET byte[n \in 0..Octets] == IF n = 0 THEN 0 ELSE byte[n - 1] * 2^OctetBits + octets[n]
  IN  byte[Octets]

\* AsNetByte(const char*)
NetByte(octets) == HostByte(Reverse(octets))

\* AsString shows the octets of a number of the host.
AsString(num) == [i \in 1..Octets |-> (num \div 2^(OctetBits * (Octets - i))) % 2^OctetBits]

htonl(num) == NetByte(AsString(num))

\* 0xFFFFFFFF << (32 - mask); the code asks for mask = 0 first, since a shift by the
\* width of the operand is undefined.
Shifted(mask) == ((AddressSpace - 1) * 2^(AddressBits - mask)) % AddressSpace

Complement(num) == AddressSpace - 1 - num

\* The places of the ones in a number, and the operator | on them.
Ones(num) == {k \in 0..AddressBits - 1 : (num \div 2^k) % 2 = 1}

Or(a, b) == CHOOSE n \in 0..AddressSpace - 1 : Ones(n) = Ones(a) \union Ones(b)

Span(head, tail) == [head |-> head, tail |-> tail, status |-> head <= tail]

Refused == [head |-> 0, tail |-> 0, status |-> FALSE]

\* Mutant: the shift is by the mask, not by what it leaves.
AsHostBlockShort(octets, mask) ==
  IF mask \notin 0..AddressBits THEN Refused
  ELSE LET head == HostByte(octets)
       IN  Span(head, Or(head, Complement(IF mask = 0 THEN 0 ELSE Shifted(AddressBits - mask))))

\* The form a.b.c.d/e of AsHostByte and of AsNetByte.
AsHostBlock(octets, mask) ==
  IF mask \notin 0..AddressBits THEN Refused
  ELSE LET head == HostByte(octets)
       IN  Span(head, Or(head, Complement(IF mask = 0 THEN 0 ELSE Shifted(mask))))

AsNetBlock(octets, mask) ==
  IF mask \notin 0..AddressBits THEN Refused
  ELSE LET head == NetByte(octets)
       IN  Span(head, Or(head, Complement(IF mask = 0 THEN 0 ELSE htonl(Shifted(mask)))))

\* The forms a.b.c.d, a.b.c.d-a.b.c.d and a.b.c.d/a.b.c.d; the two ends of the first are
\* the same address.
AsHostRange(first, last) == Span(HostByte(first), HostByte(last))

AsNetRange(first, last) == Span(NetByte(first), NetByte(last))

\* The functions are called for one address.
NetInit == address = <<>>

Choose == address = <<>> /\ address' \in [1..Octets -> OctetValues]

NetSpec == NetInit /\ [][Choose]_address

\* Two addresses in the order of their octets, the first one or the last one before the
\* others.
FirstOctetFirst(first, last) ==
  \/ first = last
  \/ \E i \in 1..Octets : first[i] < last[i] /\ \A j \in 1..(i - 1) : first[j] = last[j]

LastOctetFirst(first, last) ==
  \/ first = last
  \/ \E i \in 1..Octets : first[i] < last[i] /\ \A j \in (i + 1)..Octets : first[j] = last[j]

\* BlockAgrees: for every address and every mask, 0 and the width included, the
\* host form of a.b.c.d/e begins at the address given, which is not masked, and ends at
\* the last address that shares its first e bits; the net form is the same two ends with
\* their octets swapped, both are accepted, and a mask outside the width is refused.
\* Two ends written out are accepted by the order of the numbers: in host form by the
\* first octet that differs, in net form by the last one, so that a range of several
\* blocks may be refused there and one that runs backwards accepted.  AsString undoes
\* AsHostByte.
BlockAgrees ==
  address # <<>> =>
  /\ AsString(HostByte(address)) = address
  /\ \A mask \in -1..(AddressBits + 1) :
       LET host == AsHostBlock(address, mask)
           net == AsNetBlock(address, mask)
           head == HostByte(address)
       IN  IF mask \in 0..AddressBits
           THEN /\ host.head = head /\ host.status
                /\ host.tail = Max({n \in 0..(AddressSpace - 1) :
                                      n \div 2^(AddressBits - mask) = head \div 2^(AddressBits - mask)})
                /\ net = [head |-> htonl(host.head), tail |-> htonl(host.tail), status |-> TRUE]
           ELSE host = Refused /\ net = Refused
  /\ \A last \in [1..Octets -> OctetValues] :
       LET host == AsHostRange(address, last)
           net == AsNetRange(address, last)
       IN  /\ host.status <=> FirstOctetFirst(address, last)
           /\ net.status <=> LastOctetFirst(address, last)
           /\ net.head = htonl(host.head) /\ net.tail = htonl(host.tail)
=============================================================================
