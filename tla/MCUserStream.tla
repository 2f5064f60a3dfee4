----------------------------- MODULE MCUserStream -----------------------------
(***************************************************************************)
(* Takes the diff of every stream of at most MaxEvents events, at every    *)
(* point of its history, through the codec and the cipher.  Keys are       *)
(* bytes; a size s is s columns and s % 100 lines.                         *)
(***************************************************************************)
EXTENDS StreamHistory, Wire, Ocb

\* The events of a diff, as they are handed to the codec.
Events(msg) ==
    [i \in 1..Len(msg) |-> IF msg[i].resize THEN ResizeEvent(msg[i].size, msg[i].size % 100)
                           ELSE BytesEvent(msg[i].keys)]

\* Numbers around the lengths of varints, up to the shutdown number.
Numbers == {0, 127, 128, 128 * 128 - 1, 128 * 128, Width - 1}

\* Fields from a newer protocol: a varint, bytes, and both fixed widths.
Unknown == { Uint64Field(9, Width - 1), BytesField(200, <<8, 1>>),
             Tag(9, wireI64) \o [i \in 1..8 |-> 255], Tag(9, wireI32) \o [i \in 1..4 |-> 8] }

FirstOf(got, events) == got.ok => IsPrefix(got.events, events)

\* The message comes out of the server's and the client's decoder, each passing
\* over what it does not know, and an instruction comes out as it went in, at
\* every boundary of the encoding; cut short, a message is an error or the
\* first of its events.
Carried(events) ==
    LET b == MarshalUserMessage(events)
    IN  /\ UnmarshalUserMessage(b)
               = [ok |-> TRUE, events |-> SelectSeq(events, LAMBDA ev : ev.kind # "echo")]
        /\ \A n \in Numbers :
               LET in == [version |-> n % (MaxVersion + 1), old |-> n, new |-> Width - 1 - n,
                          ack |-> n, throwaway |-> 0, diff |-> b, chaff |-> <<n % 256>>]
               IN  UnmarshalInstruction(MarshalInstruction(in)) = [ok |-> TRUE, in |-> in]
        /\ \A x \in Unknown, k \in 0..Len(events) :
               UnmarshalHostMessage(MarshalUserMessage(SubSeq(events, 1, k)) \o x
                                    \o MarshalUserMessage(SubSeq(events, k + 1, Len(events))))
                   = [ok |-> TRUE, events |-> events]
        /\ \A k \in 1..Len(b) : FirstOf(UnmarshalHostMessage(SubSeq(b, 1, k)), events)

\* Whatever diff is to be sent next, an instruction carries it to the
\* peer unchanged, the shutdown number included, and "unknown fields never
\* break decoding" (wire.go:70) wherever a newer peer puts them; a message cut
\* short never yields events it did not have.
CodecFaithful == Carried(Append(Events(DiffFrom(u, existing)), EchoAckEvent(Width - 1)))

\* A stand-in for AES: three rounds of a Feistel network.
Round(b) ==
    LET x == SubSeq(b, 1, 2)
        y == SubSeq(b, 3, 4)
    IN  y \o xorBlock(x, <<(5 * y[2] + 17) % 256, (y[1] * y[1] + 3 * y[2] + 91) % 256>>)
Swap(b)    == SubSeq(b, 3, 4) \o SubSeq(b, 1, 2)
MCAES(b)   == Round(Round(Round(b)))
MCUnAES(b) == Swap(Round(Round(Round(Swap(b)))))

\* Nonce values whose last bits are 1, a byte and the most there can be (the
\* offset then begins at either end of a byte), in both directions.
NonceVals == {1, 8, 15 + 32768}

\* What goes out is OCB3 as RFC 7253 has it; it opens again to the same text,
\* and not when a byte was damaged on the way.
Sealed(val, text, sealed) ==
    /\ sealed = SubSeq(nonceBytes(val), 2, 3) \o RefSeal(nonceBytes(val), text)
    /\ Decrypt(sealed) = [ok |-> TRUE, val |-> val, text |-> text]
    /\ \A i \in {ValLen + 1, Len(sealed) - TagLen, Len(sealed)} \ {ValLen} :
           ~Decrypt([sealed EXCEPT ![i] = (@ + 128) % 256]).ok

\* Whatever diff is to be sent next, Encrypt seals it in the way the
\* server opens it, for every length of the message and shift of the offset
\* (ocb.go:107, 148, 210), whatever the block cipher.
SealFaithful ==
    LET text == MarshalUserMessage(Events(DiffFrom(u, existing)))
    IN  \A val \in NonceVals : Sealed(val, text, Encrypt(val, text))

=============================================================================
