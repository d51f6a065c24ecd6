--------------------------- MODULE KeyDerivation ----------------------------
(***************************************************************************)
(* HMAC_SHA256 and PBKDF2_SHA256 of scrypt.c, over the streaming hash of   *)
(* HashStream.  A digest is a sequence of DigestBytes bytes (32), each a   *)
(* term that names the padded message it is of: two digests are equal only *)
(* when the same bytes were hashed.  A byte xored with a pad is a term     *)
(* too, and 0 is the byte that is only padding.  One step is one block of  *)
(* the key.                                                                *)
(***************************************************************************)
EXTENDS HashStream
CONSTANTS DigestBytes,
          PasswordLengths, SaltLengths, KeyLengths \* lengths the runs derive with
ASSUME DerivationAssumption ==
  /\ DigestBytes \in Nat \ {0}
  /\ PasswordLengths \subseteq Nat /\ SaltLengths \subseteq Nat /\ KeyLengths \subseteq Nat
VARIABLES derivation,   \* [password, salt, dkLen] of PBKDF2_SHA256, their lengths
          PShctx,       \* the context after password and salt
          made, derived \* blocks made, bytes of the key
derivationVars == <<derivation, PShctx, made, derived>>

DigestOf(padded) == [i \in 1..DigestBytes |-> <<"digest", i, padded>>] \o << >>
Xored(pad, byte) == <<"xor", pad, byte>>
BytesOf(name, n) == [i \in 1..n |-> <<name, i>>] \o << >>

\* The pad is a block of 0x36 or 0x5c with the key over its first bytes.
PadBlock(pad, key) ==
  [i \in 1..BlockBytes |-> Xored(pad, IF i <= Len(key) THEN key[i] ELSE <<"zero", 0>>)] \o << >>

HMAC_SHA256_Init(key) ==
  LET short == IF Len(key) > BlockBytes THEN DigestOf(SHA256_Final(SHA256_Update(SHA256_Init, key)))
               ELSE key
  IN  [ictx |-> SHA256_Update(SHA256_Init, PadBlock(54, short)),
       octx |-> SHA256_Update(SHA256_Init, PadBlock(92, short))]
HMAC_SHA256_Update(ctx, data) == [ctx EXCEPT !.ictx = SHA256_Update(@, data)]
HMAC_SHA256_Final(ctx) ==
  DigestOf(SHA256_Final(SHA256_Update(ctx.octx, DigestOf(SHA256_Final(ctx.ictx)))))

\* PBKDF2_SHA256.  Every caller passes c = 1: T is U_1, and the last one is cut
\* to size.
DerivationStart(c) ==
  /\ derivation = c /\ made = 0 /\ derived = << >>
  /\ PShctx = HMAC_SHA256_Update(HMAC_SHA256_Init(BytesOf("p", c.password)), BytesOf("s", c.salt))
DeriveBlock ==
  LET ivec == <<<<"int", made + 1>>>>
      T == HMAC_SHA256_Final(HMAC_SHA256_Update(PShctx, ivec))
      left == derivation.dkLen - made * DigestBytes
      clen == IF left > DigestBytes THEN DigestBytes ELSE left
  IN  /\ made * DigestBytes < derivation.dkLen
      /\ derived' = derived \o SubSeq(T, 1, clen)
      /\ made' = made + 1
      /\ UNCHANGED <<derivation, PShctx>>

-----------------------------------------------------------------------------
\* The standards: the hash of a whole message, HMAC and PBKDF2 by their formulas.
Hash(m) == DigestOf(Abstract!Padded(m))
Hmac(key, m) ==
  LET k == IF Len(key) > BlockBytes THEN Hash(key) ELSE key
  IN  Hash(PadBlock(92, k) \o Hash(PadBlock(54, k) \o m))
DerivedKey(passwd, salt, dkLen) ==
  [n \in 1..dkLen |->
     Hmac(passwd, salt \o <<<<"int", ((n - 1) \div DigestBytes) + 1>>>>)[((n - 1) % DigestBytes) + 1]] \o << >>

Derivations == [password : PasswordLengths, salt : SaltLengths, dkLen : KeyLengths]

\* The key derived is PBKDF2's: a password longer than a block is hashed first,
\* the context after password and salt can be used again for every block, and
\* no block runs over the bytes asked for.
DerivesAsStandard ==
  LET key == DerivedKey(BytesOf("p", derivation.password), BytesOf("s", derivation.salt),
                        derivation.dkLen)
  IN  /\ Len(derived) <= derivation.dkLen /\ \A n \in 1..Len(derived) : derived[n] = key[n]
      /\ made * DigestBytes >= derivation.dkLen => Len(derived) = derivation.dkLen
=============================================================================
