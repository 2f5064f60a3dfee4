---------------------------------- MODULE Wire ----------------------------------
(***************************************************************************)
(* The hand-written protobuf codec (internal/wire).  A message is a        *)
(* sequence of bytes.  Integers have width Width and a varint at most      *)
(* MaxBytes bytes: 2^64 and 10 in the code, where, as in any instance      *)
(* here, the last byte has room for bits that do not fit and are dropped.  *)
(***************************************************************************)
EXTENDS Integers, Sequences, SequencesExt, FiniteSetsExt

CONSTANTS Width,      \* integers are taken modulo this
          MaxBytes,   \* the longest varint
          MaxVersion  \* math.MaxUint32

\* So many integers have a varint of at most n bytes.
Encodable(n) == LET upTo[k \in 0..n] == IF k = 0 THEN 1 ELSE 128 * upTo[k - 1] IN upTo[n]

ASSUME WireAssumption ==
    /\ Width \in Nat /\ MaxBytes \in Nat \ {0, 1} /\ MaxVersion \in 1..(Width - 1)
    /\ Encodable(MaxBytes - 1) < Width /\ Width < Encodable(MaxBytes)

wireVarint == 0
wireI64 == 1
wireBytes == 2
wireI32 == 5

-----------------------------------------------------------------------------
(* Encoding *)

Varint(v) ==
    LET from[x \in 0..v] == IF x >= 128 THEN <<128 + (x % 128)>> \o from[x \div 128] ELSE <<x>>
    IN  from[v]

Tag(num, typ) == Varint(num * 8 + typ)

BytesField(num, v) == Tag(num, wireBytes) \o Varint(Len(v)) \o v

Uint64Field(num, v) == Tag(num, wireVarint) \o Varint(v)

-----------------------------------------------------------------------------
(* Decoding: a result is [ok, ...], with ok = FALSE for an error *)

Malformed == [ok |-> FALSE]

\* Slip: the tenth byte is too much.
OverflowsAtLast(n) == n >= MaxBytes

\* A varint of n bytes is an error.
Overflows(n) == n > MaxBytes

\* The integer in a varint of n bytes, whose last ones carry most.
VarintValue(b, n) ==
    LET ofLast[k \in 0..n] == IF k = 0 THEN 0 ELSE (b[n - k + 1] % 128) + 128 * ofLast[k - 1]
    IN  ofLast[n]

\* readVarint: the value and its length; truncated or too long is an error.
VarintOf(b, n) ==
    IF Overflows(n) THEN Malformed ELSE [ok |-> TRUE, n |-> n, v |-> VarintValue(b, n) % Width]
ReadVarint(b) ==
    IF \A i \in 1..Len(b) : b[i] >= 128 THEN Malformed
    ELSE VarintOf(b, Min({i \in 1..Len(b) : b[i] < 128}))

Drop(b, n) == SubSeq(b, n + 1, Len(b))

\* A value of l bytes, kept or skipped.
Bytes(b, l, kept) ==
    IF l > Len(b) THEN Malformed
    ELSE [ok |-> TRUE, varix |-> 0, data |-> IF kept THEN SubSeq(b, 1, l) ELSE << >>, rest |-> Drop(b, l)]

\* A value that begins with the varint r: that is all of it, or its length.
AfterVarint(typ, r, b) ==
    IF ~r.ok THEN r
    ELSE IF typ = wireBytes THEN Bytes(Drop(b, r.n), r.v, TRUE)
         ELSE [ok |-> TRUE, varix |-> r.v, data |-> << >>, rest |-> Drop(b, r.n)]

\* A field's value and what follows it.  Fixed-width values are skipped.
FieldValue(typ, b) ==
    CASE typ \in {wireVarint, wireBytes} -> AfterVarint(typ, ReadVarint(b), b)
      [] typ = wireI64 -> Bytes(b, 8, FALSE)
      [] typ = wireI32 -> Bytes(b, 4, FALSE)
      [] OTHER -> Malformed

\* The body of parseFields' loop: the field at the front of b, which begins
\* with the varint key, and the rest.  No field has number 0.
Keyed(key, value) ==
    IF ~value.ok THEN value
    ELSE [ok |-> TRUE, num |-> key.v \div 8, typ |-> key.v % 8,
          varix |-> value.varix, data |-> value.data, rest |-> value.rest]
ReadField(key, b) ==
    IF ~key.ok \/ key.v < 8 THEN Malformed
    ELSE Keyed(key, FieldValue(key.v % 8, Drop(b, key.n)))

\* The loop: a field and those of what follows it, a shorter end of the message,
\* up to the end or the first malformed one.
FieldsOf(b) ==
    LET last[n \in 0..Len(b)] ==   \* of the last n bytes
            LET Then(f) == <<f>> \o last[IF f.ok THEN Len(f.rest) ELSE 0]
                end     == Drop(b, Len(b) - n)
            IN  IF n = 0 THEN << >> ELSE Then(ReadField(ReadVarint(end), end))
    IN  last[Len(b)]

\* parseFields: all fields, or an error if any of them is malformed.
Parsed(fields) == [ok |-> \A i \in 1..Len(fields) : fields[i].ok, fields |-> fields]
ParseFields(b) == Parsed(FieldsOf(b))

-----------------------------------------------------------------------------
(* TransportBuffers.Instruction *)

MarshalInstruction(in) ==
    Uint64Field(1, in.version) \o Uint64Field(2, in.old) \o Uint64Field(3, in.new)
    \o Uint64Field(4, in.ack) \o Uint64Field(5, in.throwaway)
    \o BytesField(6, in.diff) \o BytesField(7, in.chaff)

\* The last field of number num decides, of whatever type it is.
LastOf(fields, num, absent) ==
    LET those == {i \in 1..Len(fields) : fields[i].num = num}
    IN  IF those = {} THEN absent ELSE fields[Max(those)]

InstructionOf(r) ==
    LET f(num) == LastOf(r.fields, num, [varix |-> 0, data |-> << >>])
    IN  IF ~r.ok \/ \E i \in DOMAIN r.fields : r.fields[i].num = 1 /\ r.fields[i].varix > MaxVersion
        THEN Malformed
        ELSE [ok |-> TRUE,
              in |-> [version |-> f(1).varix, old |-> f(2).varix, new |-> f(3).varix,
                      ack |-> f(4).varix, throwaway |-> f(5).varix,
                      diff |-> f(6).data, chaff |-> f(7).data]]
UnmarshalInstruction(b) == InstructionOf(ParseFields(b))

-----------------------------------------------------------------------------
(* ClientBuffers.UserMessage and HostBuffers.HostMessage *)

\* An event: bytes (keys, or output of the host), a resize or an echo
\* acknowledgment.
BytesEvent(bytes) == [kind |-> "bytes", bytes |-> bytes, width |-> 0, height |-> 0, num |-> 0]
ResizeEvent(w, h) == [kind |-> "resize", bytes |-> << >>, width |-> w, height |-> h, num |-> 0]
EchoAckEvent(num) == [kind |-> "echo", bytes |-> << >>, width |-> 0, height |-> 0, num |-> num]

\* MarshalUserMessage on one event; the echo acknowledgments, which only the
\* server sends, are encoded in the same way.
MarshalEvent(ev) ==
    BytesField(1, CASE ev.kind = "bytes"  -> BytesField(2, BytesField(4, ev.bytes))
                    [] ev.kind = "resize" -> BytesField(3, Uint64Field(5, ev.width)
                                                           \o Uint64Field(6, ev.height))
                    [] ev.kind = "echo"   -> BytesField(7, Uint64Field(8, ev.num)))

MarshalUserMessage(events) ==
    FlattenSeq([i \in 1..Len(events) |-> MarshalEvent(events[i])])

\* The events of one extension, by its number.
ExtensionEvents(ext, fields) ==
    LET f(num) == LastOf(fields, num, [varix |-> 0, data |-> << >>]).varix
        runs   == SelectSeq(fields, LAMBDA k : k.num = 4 /\ k.typ = wireBytes)
    IN  CASE ext.num = 2 -> [i \in 1..Len(runs) |-> BytesEvent(runs[i].data)]
          [] ext.num = 3 -> <<ResizeEvent(f(5), f(6))>>
          [] ext.num = 7 -> <<EchoAckEvent(f(8))>>

\* The embedded messages among the fields, by number, and what they parse to.
Submessages(fields, nums) == SelectSeq(fields, LAMBDA f : f.num \in nums /\ f.typ = wireBytes)
ParseAll(fields) == [i \in 1..Len(fields) |-> ParseFields(fields[i].data)]
AllOk(parsed)    == \A i \in DOMAIN parsed : parsed[i].ok

\* The visitor of a message with the given extensions, level by level; fields
\* and extensions it does not know are passed over, and an error at any level
\* is an error of the message.
VisitBodies(exts, bodies) ==
    IF ~AllOk(bodies) THEN Malformed
    ELSE [ok |-> TRUE, events |-> FlattenSeq([i \in 1..Len(exts) |->
                                                 ExtensionEvents(exts[i], bodies[i].fields)])]
VisitExtensions(exts) == VisitBodies(exts, ParseAll(exts))
VisitInstructions(insts, extensions) ==
    IF ~AllOk(insts) THEN Malformed
    ELSE VisitExtensions(Submessages(FlattenSeq([i \in 1..Len(insts) |-> insts[i].fields]), extensions))
VisitMessage(top, extensions) ==
    IF ~top.ok THEN Malformed
    ELSE VisitInstructions(ParseAll(Submessages(top.fields, {1})), extensions)

UnmarshalMessage(b, extensions) == VisitMessage(ParseFields(b), extensions)
UnmarshalUserMessage(b) == UnmarshalMessage(b, {2, 3})
UnmarshalHostMessage(b) == UnmarshalMessage(b, {2, 3, 7})

=============================================================================
