------------------------------ MODULE Words32 -------------------------------
(***************************************************************************)
(* The 32-bit words of the hash functions: a word is the set of the        *)
(* positions of its one bits, 0 the least significant.                     *)
(***************************************************************************)
EXTENDS Naturals, Sequences
Bits(n) == {i \in 0..15 : (n \div 2^i) % 2 = 1}
FromHalves(h) == {i + 16 : i \in Bits(h[1])} \cup Bits(h[2])

XorWords(a, b) == (a \ b) \cup (b \ a)
SHR(x, n) == {i - n : i \in {j \in x : j >= n}}
ROTR(x, n) == {(i + 32 - n) % 32 : i \in x}
\* A carry comes into place i from the last place below where both words have a
\* one, if every place in between has one in either.
Carries(a, b) ==
  LET both == a \cap b
      either == a \cup b
  IN  {i \in 1..31 : \E j \in {k \in both : k < i} : \A k \in (j + 1)..(i - 1) : k \in either}
Add(a, b) == XorWords(XorWords(a, b), Carries(a, b))
Add4(a, b, c, e) == Add(Add(a, b), Add(c, e))

\* Four bytes, the most or the least significant one first.
be32dec(p) == FromHalves(<<p[1] * 256 + p[2], p[3] * 256 + p[4]>>)
le32dec(p) == FromHalves(<<p[4] * 256 + p[3], p[2] * 256 + p[1]>>)
be32dec_vect(bytes) == [i \in 1..(Len(bytes) \div 4) |-> be32dec(SubSeq(bytes, 4 * i - 3, 4 * i))] \o << >>
=============================================================================
