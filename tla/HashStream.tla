----------------------------- MODULE HashStream -----------------------------
(***************************************************************************)
(* The buffering around the compression, in the dispatcher's scrypt.c      *)
(* (SHA256_Init, _Update, _Pad, _Final) and in the pool's md_helper.c      *)
(* (sph_sha256, addbits_and_close).  A block has BlockBytes bytes (64) and *)
(* ends in LengthBytes = 2 digits of base CountSize (the code has two      *)
(* 32-bit counters, or a 64-bit one, written in 8 bytes).  The state of    *)
(* the compression is the concatenation of the blocks it was given; a byte *)
(* of the message is its position, and 0 is a byte never written.          *)
(***************************************************************************)
EXTENDS Integers, Sequences
CONSTANTS BlockBytes, LengthBytes, CountSize,
          MaxBytes      \* bytes of a call, and of a message, in the runs
\* Where a counter of bits wraps around, a block ends.
ASSUME StreamAssumption ==
  /\ LengthBytes = 2 /\ BlockBytes \in Nat /\ LengthBytes < BlockBytes
  /\ CountSize \in Nat \ {0} /\ CountSize % (8 * BlockBytes) = 0
  /\ MaxBytes \in Nat
VARIABLES library,      \* "dispatcher" or "sph"
          context,      \* [state, count, buf] of SHA256_CTX, or of sph_sha256_context
          pending,      \* the bytes a call of sha224_short has still to take
          message, digest
streamVars == <<library, context, pending, message, digest>>

Junk == -1
EmptyBuf == [i \in 1..BlockBytes |-> Junk] \o << >>
\* memcpy of data into buf from offset r.
Copy(buf, r, data) ==
  SubSeq(buf, 1, r) \o data \o SubSeq(buf, r + Len(data) + 1, BlockBytes)
Zeros(n) == [i \in 1..n |-> 0] \o << >>
Rest(data, n) == SubSeq(data, n + 1, Len(data))
WholeBlocks(data) == SubSeq(data, 1, Len(data) - (Len(data) % BlockBytes))

\* count is <<high, low>>, in bits; the low word carries into the high one.
AddCount(count, len) ==
  LET bitlen == <<(8 * len) \div CountSize, (8 * len) % CountSize>>
      low == (count[2] + bitlen[2]) % CountSize
  IN  <<(count[1] + (IF low < bitlen[2] THEN 1 ELSE 0) + bitlen[1]) % CountSize, low>>
SHA256_Init == [state |-> << >>, count |-> <<0, 0>>, buf |-> EmptyBuf]
SHA256_Update(ctx, data) ==
  LET r == (ctx.count[2] \div 8) % BlockBytes
      count == AddCount(ctx.count, Len(data))
      rest == Rest(data, BlockBytes - r)
  IN  IF Len(data) < BlockBytes - r
      THEN [ctx EXCEPT !.count = count, !.buf = Copy(ctx.buf, r, data)]
      ELSE LET full == Copy(ctx.buf, r, SubSeq(data, 1, BlockBytes - r))
           IN  [state |-> ctx.state \o full \o WholeBlocks(rest), count |-> count,
                buf |-> Copy(full, 0, Rest(rest, Len(WholeBlocks(rest))))]
SHA256_Pad(ctx) ==
  LET r == (ctx.count[2] \div 8) % BlockBytes
      fill == BlockBytes - LengthBytes
      plen == IF r < fill THEN fill - r ELSE BlockBytes + fill - r
  IN  SHA256_Update(SHA256_Update(ctx, <<128>> \o Zeros(plen - 1)), ctx.count)
SHA256_Final(ctx) == SHA256_Pad(ctx).state

\* count is a 64-bit number of bytes.
CountModulus == CountSize * CountSize
sph_sha256_init == [state |-> << >>, count |-> 0, buf |-> EmptyBuf]
\* One iteration of sha224_short takes clen bytes of its data.
TakenLen(sc, data) ==
  LET room == BlockBytes - (sc.count % BlockBytes)
  IN  IF room > Len(data) THEN Len(data) ELSE room
sha224_short(sc, data) ==
  LET current == sc.count % BlockBytes
      clen == TakenLen(sc, data)
      buf == Copy(sc.buf, current, SubSeq(data, 1, clen))
  IN  [state |-> IF current + clen = BlockBytes THEN sc.state \o buf ELSE sc.state,
       count |-> (sc.count + clen) % CountModulus, buf |-> buf]

\* A long input is compressed in place when the machine can read it there: the
\* block in the buffer is completed, and what is left of the last one copied.
InPlace(n, unalignedRead) == n >= 2 * BlockBytes /\ unalignedRead
sph_sha256(sc, data) ==
  LET t == (BlockBytes - (sc.count % BlockBytes)) % BlockBytes
      filled == IF t = 0 THEN sc ELSE sha224_short(sc, SubSeq(data, 1, t))
      left == Rest(data, t)
      whole == WholeBlocks(left)
  IN  [state |-> filled.state \o whole, count |-> (filled.count + Len(left)) % CountModulus,
       buf |-> Copy(filled.buf, 0, Rest(left, Len(whole)))]
\* Mutant: no second block for a one bit that leaves no room for the length.
sha224_closeOneBlock(sc) ==
  LET current == (sc.count % BlockBytes) + 1
      maxpad == BlockBytes - LengthBytes
      bits == (8 * sc.count) % CountModulus
  IN  sc.state \o Copy(Copy(sc.buf, current - 1, <<128>>), maxpad, <<bits \div CountSize, bits % CountSize>>)

\* The length goes where the zeros end; a late one bit costs a block more.
sha224_close(sc) ==
  LET current == (sc.count % BlockBytes) + 1
      maxpad == BlockBytes - LengthBytes
      marked == Copy(sc.buf, current - 1, <<128>>)
      bits == (8 * sc.count) % CountModulus
      length == <<bits \div CountSize, bits % CountSize>>
  IN  IF current > maxpad
      THEN sc.state \o Copy(marked, current, Zeros(BlockBytes - current)) \o Zeros(maxpad) \o length
      ELSE sc.state \o Copy(Copy(marked, current, Zeros(maxpad - current)), maxpad, length)

-----------------------------------------------------------------------------
StreamStart ==
  /\ library \in {"dispatcher", "sph"}
  /\ context = IF library = "sph" THEN sph_sha256_init ELSE SHA256_Init
  /\ pending = << >> /\ message = << >> /\ digest = << >>
NewBytes(n) == [i \in 1..n |-> Len(message) + i] \o << >>
\* A call that ends at once; a call of sha224_short begins.
Update(n, unalignedRead) ==
  /\ digest = << >> /\ pending = << >> /\ Len(message) + n <= MaxBytes
  /\ library = "sph" => InPlace(n, unalignedRead)
  /\ message' = message \o NewBytes(n)
  /\ context' = IF library = "sph" THEN sph_sha256(context, NewBytes(n))
                ELSE SHA256_Update(context, NewBytes(n))
  /\ UNCHANGED <<library, pending, digest>>
BeginShort(n, unalignedRead) ==
  /\ library = "sph" /\ digest = << >> /\ pending = << >> /\ Len(message) + n <= MaxBytes
  /\ ~InPlace(n, unalignedRead)
  /\ pending' = NewBytes(n)
  /\ UNCHANGED <<library, context, message, digest>>
TakeShort ==
  LET clen == TakenLen(context, pending)
  IN  /\ pending # << >>
      /\ context' = sha224_short(context, pending)
      /\ message' = message \o SubSeq(pending, 1, clen)
      /\ pending' = Rest(pending, clen)
      /\ UNCHANGED <<library, digest>>
\* SHA256_Final clears the context, sph_sha256_close initialises it again.
Final ==
  /\ digest = << >> /\ pending = << >>
  /\ digest' = IF library = "sph" THEN sha224_close(context) ELSE SHA256_Final(context)
  /\ context' = IF library = "sph" THEN sph_sha256_init
                ELSE [state |-> << >>, count |-> <<0, 0>>, buf |-> Zeros(BlockBytes)]
  /\ UNCHANGED <<library, pending, message>>
StreamNext ==
  \/ Final \/ TakeShort
  \/ \E n \in 0..MaxBytes, unalignedRead \in BOOLEAN :
       Update(n, unalignedRead) \/ BeginShort(n, unalignedRead)
StreamSpecification == StreamStart /\ [][StreamNext]_streamVars

\* The calls are forgotten; the message and its digest are what they are.
Abstract == INSTANCE HashSpec WITH message <- message, digest <- digest
\* Both libraries implement the abstract hash: however the bytes are cut into
\* calls, and however they are read, the digest is that of the padded message.
StreamImplementsHash == Abstract!HashSpecification

\* The bytes that are neither compressed nor in the buffer are none: what the
\* context holds is the message, and the counter knows how much of it.
ContextHoldsMessage ==
  digest = << >> =>
    LET used == Len(message) % BlockBytes
    IN  /\ context.state \o SubSeq(context.buf, 1, used) = message
        /\ IF library = "sph" THEN context.count = Len(message) % CountModulus
           ELSE context.count = Abstract!LengthOf(Len(message))
=============================================================================
