---------------------------------- MODULE Ocb ----------------------------------
(***************************************************************************)
(* Sealing a datagram: OCB3 (internal/ocb) and the nonce around it         *)
(* (internal/crypto/session.go).  Texts and blocks are sequences of bytes. *)
(* A block has BlockSize bytes (16 in the code), and so has the tag; the   *)
(* nonce has three quarters of that and the nonce value half of it.  AES   *)
(* is any permutation of the blocks.                                       *)
(***************************************************************************)
EXTENDS Integers, Sequences, SequencesExt, FiniteSetsExt

CONSTANTS BlockSize, Poly,   \* 16 and 0x87: the field's polynomial
          TableSize,         \* length of the table l (32)
          AES(_), UnAES(_)   \* the block cipher under the session's key

ASSUME OcbAssumption == BlockSize % 4 = 0 /\ Poly \in 1..255 /\ TableSize \in Nat \ {0}

TagLen   == BlockSize
NonceLen == (3 * BlockSize) \div 4
ValLen   == BlockSize \div 2

-----------------------------------------------------------------------------
(* ocb.go *)

XorOf == [a \in 0..15, b \in 0..15 |->
             MapThenSumSet(LAMBDA k : (((a \div 2 ^ k) + (b \div 2 ^ k)) % 2) * 2 ^ k, 0..3)]
XorByte(a, b) == 16 * XorOf[a \div 16, b \div 16] + XorOf[a % 16, b % 16]

\* xorBlock, also where the loops combine a last, shorter block with its pad.
xorBlock(a, b) == [i \in 1..Len(a) |-> XorByte(a[i], b[i])]

Zeros(n) == [i \in 1..n |-> 0]

double(src) ==
    LET shifted == [i \in 1..BlockSize |->
                        ((2 * src[i]) % 256) + (IF i < BlockSize THEN src[i + 1] \div 128 ELSE 0)]
    IN  [shifted EXCEPT ![BlockSize] = XorByte(@, (src[1] \div 128) * Poly)]

lStar   == AES(Zeros(BlockSize))
lDollar == double(lStar)
l[i \in 0..(TableSize - 1)] == IF i = 0 THEN double(lDollar) ELSE double(l[i - 1])

\* initialOffset: a block cut out of the stretched ktop after as many bits as
\* the last bits of the nonce say.
Bottom(nonce) == Last(nonce) % (4 * BlockSize)
Ktop(nonce)   == AES([Zeros(BlockSize - 1 - Len(nonce)) \o <<1>> \o nonce
                      EXCEPT ![BlockSize] = @ - Bottom(nonce)])
Stretch(ktop) == ktop \o [i \in 1..(BlockSize \div 2) |-> XorByte(ktop[i], ktop[i + 1])]
Cut(stretch, byteOff, bitOff) ==
    IF bitOff = 0 THEN SubSeq(stretch, byteOff + 1, byteOff + BlockSize)
    ELSE [i \in 1..BlockSize |-> ((stretch[byteOff + i] * 2 ^ bitOff) % 256)
                                 + (stretch[byteOff + i + 1] \div 2 ^ (8 - bitOff))]
initialOffset(nonce) == Cut(Stretch(Ktop(nonce)), Bottom(nonce) \div 8, Bottom(nonce) % 8)

TrailingZeros(i) == Max({k \in 0..(TableSize - 1) : i % 2 ^ k = 0})

\* Slip: no mark where the text ends.
PaddedWithZeros(rest) == rest \o Zeros(BlockSize - Len(rest))

\* The last, shorter block as it enters the checksum.
Padded(rest) == rest \o <<128>> \o Zeros(BlockSize - 1 - Len(rest))

\* One more piece: its offset, its other form, and its share of the checksum.
Add(s, offset, other, plain) ==
    [offset |-> offset, out |-> s.out \o other, checksum |-> xorBlock(s.checksum, plain)]

\* A full block, and a last, shorter one.  The checksum is taken of the
\* plaintext, which Open has once it decrypted.
AddBlock(s, b, offset, sealing) ==
    LET other == xorBlock(IF sealing THEN AES(xorBlock(b, offset)) ELSE UnAES(xorBlock(b, offset)), offset)
    IN  Add(s, offset, other, IF sealing THEN b ELSE other)
AddRest(s, rest, offset, sealing) ==
    LET other == xorBlock(rest, AES(offset))
    IN  IF rest = << >> THEN s ELSE Add(s, offset, other, Padded(IF sealing THEN rest ELSE other))

Finish(s) == [out |-> s.out, tag |-> AES(xorBlock(xorBlock(s.checksum, s.offset), lDollar))]

\* The loop of Seal, or of Open, over the full blocks; then the rest and the tag.
Pass(nonce, in, sealing) ==
    LET full        == Len(in) \div BlockSize
        Block(s, i) == AddBlock(s, SubSeq(in, (i - 1) * BlockSize + 1, i * BlockSize),
                                xorBlock(s.offset, l[TrailingZeros(i)]), sealing)
        Rest(s)     == AddRest(s, SubSeq(in, full * BlockSize + 1, Len(in)),
                               xorBlock(s.offset, lStar), sealing)
    IN  Finish(Rest(FoldLeft(Block, [offset |-> initialOffset(nonce), out |-> << >>,
                                     checksum |-> Zeros(BlockSize)], [i \in 1..full |-> i])))

Seal(nonce, plaintext) == LET p == Pass(nonce, plaintext, TRUE) IN p.out \o p.tag

Failed == [ok |-> FALSE]

Open(nonce, ciphertext) ==
    LET len == Len(ciphertext) - TagLen
        p   == Pass(nonce, SubSeq(ciphertext, 1, len), FALSE)
    IN  IF len < 0 \/ p.tag # SubSeq(ciphertext, len + 1, Len(ciphertext)) THEN Failed
        ELSE [ok |-> TRUE, text |-> p.out]

-----------------------------------------------------------------------------
(* session.go *)

nonceBytes(val) ==
    Zeros(NonceLen - ValLen) \o [i \in 1..ValLen |-> (val \div 256 ^ (ValLen - i)) % 256]

Encrypt(val, text) ==
    LET n == nonceBytes(val) IN SubSeq(n, NonceLen - ValLen + 1, NonceLen) \o Seal(n, text)

Decrypt(b) ==
    LET val == FoldLeft(LAMBDA v, x : 256 * v + x, 0, SubSeq(b, 1, ValLen))
        got == Open(nonceBytes(val), SubSeq(b, ValLen + 1, Len(b)))
    IN  IF Len(b) < ValLen + TagLen \/ ~got.ok THEN Failed
        ELSE [ok |-> TRUE, val |-> val, text |-> got.text]

-----------------------------------------------------------------------------
(* OCB3 as RFC 7253 defines it, on strings of bits, without associated data *)

BlockBits == 8 * BlockSize

Bits(b)   == [i \in 1..(8 * Len(b)) |-> (b[((i - 1) \div 8) + 1] \div 2 ^ (7 - ((i - 1) % 8))) % 2]
Bytes8(s) == [i \in 1..(Len(s) \div 8) |->
                 FoldLeft(LAMBDA v, x : 2 * v + x, 0, SubSeq(s, 8 * i - 7, 8 * i))]

XorBits(s, t) == [i \in 1..Len(s) |-> (s[i] + t[i]) % 2]
E(s)          == Bits(AES(Bytes8(s)))

RefDouble(s) ==
    LET shifted == Append(Tail(s), 0)
    IN  IF s[1] = 0 THEN shifted
        ELSE XorBits(shifted, Zeros(BlockBits - 8) \o Bits(<<Poly>>))

RefLStar   == E(Zeros(BlockBits))
RefLDollar == RefDouble(RefLStar)
RefL[i \in 0..(TableSize - 1)] == RefDouble(IF i = 0 THEN RefLDollar ELSE RefL[i - 1])

\* Offset_0: the block of the stretched Ktop that begins after `bottom` bits,
\* the number in the nonce's last bits.
RefOffset(nonce) ==
    LET n      == Zeros(BlockBits - 1 - 8 * Len(nonce)) \o <<1>> \o Bits(nonce)
        half   == BlockBits \div 2
        low    == CHOOSE k \in 1..8 : 2 ^ k = half
        bottom == FoldLeft(LAMBDA v, x : 2 * v + x, 0, SubSeq(n, BlockBits - low + 1, BlockBits))
        ktop   == E(SubSeq(n, 1, BlockBits - low) \o Zeros(low))
        stretch == ktop \o XorBits(SubSeq(ktop, 1, half), SubSeq(ktop, 9, half + 8))
    IN  SubSeq(stretch, 1 + bottom, BlockBits + bottom)

\* The xor of a set's strings, one for each index.
SumBits(is, F(_)) == FoldSet(LAMBDA i, acc : XorBits(acc, F(i)), Zeros(BlockBits), is)

RefSeal(nonce, plaintext) ==
    LET p == Bits(plaintext)
        m == Len(p) \div BlockBits
        P(i)      == SubSeq(p, (i - 1) * BlockBits + 1, i * BlockBits)
        Offset(i) == XorBits(RefOffset(nonce), SumBits(1..i, LAMBDA j : RefL[TrailingZeros(j)]))
        C(i)      == XorBits(Offset(i), E(XorBits(P(i), Offset(i))))
        last      == SubSeq(p, m * BlockBits + 1, Len(p))
        star      == XorBits(Offset(m), RefLStar)
        final     == IF last = << >> THEN Offset(m) ELSE star
        padded    == IF last = << >> THEN Zeros(BlockBits)
                     ELSE Append(last, 1) \o Zeros(BlockBits - 1 - Len(last))
        checksum  == XorBits(SumBits(1..m, P), padded)
        tag       == E(XorBits(XorBits(checksum, final), RefLDollar))
    IN  Bytes8(FlattenSeq([i \in 1..m |-> C(i)]) \o XorBits(last, E(star)) \o tag)

=============================================================================
