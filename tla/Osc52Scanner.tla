---------------------------- MODULE Osc52Scanner -----------------------------
(***************************************************************************)
(* The scanner of the clipboard filter (internal/osc52/osc52.go): the      *)
(* operators its two uses share, Filter and FilterChunk, and what either   *)
(* is to hand on, read off the whole input.                                *)
(*                                                                         *)
(* Bytes are model bytes: ESC, BEL, CAN (for CAN and SUB), SEP (for ';'),  *)
(* the other characters the scanner tells apart, and "x" for the rest.     *)
(* The OSC number and the limits are constants, so that short inputs reach *)
(* them.                                                                   *)
(***************************************************************************)
EXTENDS Integers, Sequences, SequencesExt, FiniteSetsExt

CONSTANTS oscNumber,    \* the command number claimed (code: 52)
          NumberText,   \* its canonical digits, as written by appendSequence
          maxDigits,    \* digits read before giving up (8)
          maxSequence   \* bytes held before dropping (65536)

ASSUME ScannerAssumption ==
    /\ maxDigits \in Nat \ {0}
    /\ maxSequence \in Nat /\ maxSequence > maxDigits + 3
    /\ NumberText \in Seq(STRING)

Digits == {"0", "1", "2", "3", "4", "5", "6", "7", "8", "9"}
DigitValue(c) ==
    CASE c = "0" -> 0 [] c = "1" -> 1 [] c = "2" -> 2 [] c = "3" -> 3 [] c = "4" -> 4
      [] c = "5" -> 5 [] c = "6" -> 6 [] c = "7" -> 7 [] c = "8" -> 8 [] c = "9" -> 9

Policy == {"Write", "Full", "Off"}

New(policy) == [policy |-> policy, state |-> "stText", buf |-> << >>, num |-> 0, digits |-> 0,
                dropping |-> FALSE]

-----------------------------------------------------------------------------
(* The scanner.  Each step maps [f: the filter, dst: the output of the call]*)
(* and a byte to the next such pair.                                        *)

\* reset (release and discard end with it); num and digits are set on "]".
Reset(f) == [f EXCEPT !.state = "stText", !.buf = << >>, !.dropping = FALSE]

Release(s) == [f |-> Reset(s.f), dst |-> s.dst \o s.f.buf]

Discard(s) == [s EXCEPT !.f = Reset(s.f)]

\* appendSequence: the canonical form, with or without a Pc part.
AppendSequence(dst, pc, pd, term) ==
    dst \o (<<"ESC", "]">> \o NumberText \o <<"SEP">> \o pc \o pd
                \o (IF term = "ESC" THEN <<"ESC", "\\">> ELSE <<"BEL">>))

IndexOf(seq, c) == Min({i \in 1..Len(seq) : seq[i] = c})

\* The payload: what follows the first separator of the body.
PdOf(body) == SubSeq(body, IndexOf(body, "SEP") + 1, Len(body))

\* emit's policy: what becomes of a complete, held sequence.
Emit(s, term) ==
    LET whole == s.f.buf
        body  == SubSeq(whole, IndexOf(whole, "SEP") + 1, Len(whole))
        pd    == PdOf(body)
        pc    == SubSeq(body, 1, IndexOf(body, "SEP") - 1)
        named == IF pc = << >> /\ pd # <<"?">> THEN <<"c">> ELSE pc
        dst   == IF s.f.dropping \/ s.f.policy = "Off" THEN s.dst
                 ELSE IF ~Contains(body, "SEP") THEN AppendSequence(s.dst, << >>, body, term)
                 ELSE IF pd = <<"?">> /\ s.f.policy # "Full" THEN s.dst
                 ELSE AppendSequence(s.dst, named \o <<"SEP">>, pd, term)
    IN  [f |-> Reset(s.f), dst |-> dst]

\* An ESC, held until the byte after it is known.
HoldEsc(f) == [f EXCEPT !.state = "stEsc", !.buf = <<"ESC">>]

Text(s, c) ==
    IF c = "ESC" THEN [s EXCEPT !.f = HoldEsc(@)]
    ELSE [s EXCEPT !.dst = Append(@, c)]

\* "ESC ]" introduces a number.
Introduce(f, c) ==
    [f EXCEPT !.buf = Append(@, c), !.num = 0, !.digits = 0, !.state = "stPrefix"]

\* Anything but "]" releases the ESC and is read again as text.
Esc(s, c) == IF c = "]" THEN [s EXCEPT !.f = Introduce(@, c)] ELSE Text(Release(s), c)

AddDigit(f, c) ==
    [f EXCEPT !.num = 10 * @ + DigitValue(c), !.digits = @ + 1, !.buf = Append(@, c)]

\* The number is this filter's: from here on the sequence is its own.
Claim(f, c) == [f EXCEPT !.buf = Append(@, c), !.state = "stBody"]

Prefix(s, c) ==
    CASE c \in Digits /\ s.f.digits < maxDigits ->
           [s EXCEPT !.f = AddDigit(@, c)]
      [] c = "SEP" /\ s.f.digits > 0 /\ s.f.num = oscNumber ->
           [s EXCEPT !.f = Claim(@, c)]
      [] OTHER -> Text(Release(s), c)

\* An ordinary body byte: held, unless the sequence is at its limit.
Hold(f, c) ==
    IF f.dropping THEN f
    ELSE IF Len(f.buf) >= maxSequence THEN [f EXCEPT !.dropping = TRUE, !.buf = << >>]
    ELSE [f EXCEPT !.buf = Append(@, c)]

Body(s, c) ==
    CASE c = "BEL" -> Emit(s, "BEL")
      [] c = "ESC" -> [s EXCEPT !.f.state = "stBodyEsc"]
      [] c = "CAN" -> Discard(s)
      [] OTHER     -> [s EXCEPT !.f = Hold(@, c)]

\* Slip: the byte after the ESC is read as text.
BodyEscAsText(s, c) == IF c = "\\" THEN Emit(s, "ESC") ELSE Text(Discard(s), c)

\* ESC ended the string: ST completes it, anything else drops it and the ESC
\* may introduce the next one.
BodyEsc(s, c) ==
    IF c = "\\" THEN Emit(s, "ESC")
    ELSE Esc([Discard(s) EXCEPT !.f = HoldEsc(@)], c)

ScanByte(s, c) ==
    CASE s.f.state = "stText"    -> Text(s, c)
      [] s.f.state = "stEsc"     -> Esc(s, c)
      [] s.f.state = "stPrefix"  -> Prefix(s, c)
      [] s.f.state = "stBody"    -> Body(s, c)
      [] s.f.state = "stBodyEsc" -> BodyEsc(s, c)

Scan(f, src) ==
    LET after[i \in 0..Len(src)] ==
            IF i = 0 THEN [f |-> f, dst |-> << >>] ELSE ScanByte(after[i - 1], src[i])
    IN  after[Len(src)]

\* Slip: forgets the half-seen ST.
FlushWithoutEsc(s) ==
    IF s.f.state = "stText" THEN s
    ELSE IF s.f.dropping THEN Discard(s)
    ELSE Release(s)

Flush(s) ==
    IF s.f.state = "stText" THEN s
    ELSE IF s.f.dropping THEN Discard(s)
    ELSE IF s.f.state = "stBodyEsc" THEN Release([s EXCEPT !.f.buf = Append(@, "ESC")])
    ELSE Release(s)

\* FilterChunk: the scan of one chunk by itself, and what is held at its end.
FilteredChunk(f, src) == Flush(Scan(f, src))

-----------------------------------------------------------------------------
(* What the filter promises, read off the whole input *)

\* The number that digits stand for.
Value(ds) ==
    LET v[i \in 0..Len(ds)] == IF i = 0 THEN 0 ELSE 10 * v[i - 1] + DigitValue(ds[i])
    IN  v[Len(ds)]

\* An OSC of this number begins at p and its body at b: ESC ] digits ; with the
\* right value.
Header(s, p, b) ==
    /\ b <= p + 3 + maxDigits
    /\ s[p] = "ESC" /\ s[p + 1] = "]" /\ s[b - 1] = "SEP"
    /\ \A i \in p + 2..b - 2 : s[i] \in Digits
    /\ Value(SubSeq(s, p + 2, b - 2)) = oscNumber

\* Where the body begins if one does: at most one place.
BodyStarts(s, p) == {b \in p + 4..Len(s) + 1 : Header(s, p, b)}

\* The rest of s from p on may still become such a header.
MayBeHeader(s, p) ==
    /\ s[p] = "ESC"
    /\ p + 1 <= Len(s) => s[p + 1] = "]"
    /\ Len(s) - (p + 1) <= maxDigits
    /\ \A i \in p + 2..Len(s) : s[i] \in Digits

\* Where the string whose body begins at b stops, 0 if it has not.
Stop(s, b) ==
    LET stops == {i \in b..Len(s) : s[i] \in {"BEL", "ESC", "CAN"}}
    IN  IF stops = {} THEN 0 ELSE Min(stops)

\* The policy on a sequence with this body: a query goes only under Full, a
\* write without a selection is a write to the system clipboard.
Allowed(policy, body, term) ==
    LET seps  == {i \in 1..Len(body) : body[i] = "SEP"}
        query == \E i \in seps : i = Len(body) - 1 /\ body[i + 1] = "?" /\ Cardinality(seps) = 1
        fixed == IF 1 \in seps /\ ~query THEN <<"c">> \o body ELSE body
        ended == IF term = "ESC" THEN <<"ESC", "\\">> ELSE <<"BEL">>
    IN  IF policy = "Off" \/ (query /\ policy = "Write") THEN << >>
        ELSE <<"ESC", "]">> \o NumberText \o <<"SEP">> \o fixed \o ended

\* The item at position p of input s: the output for it, and where the next one
\* begins.  An item is a byte of text, a sequence up to its end, or what is
\* incomplete at the end of s; `rest` says whether that is handed on or withheld.
Item(policy, s, p, rest) ==
    LET b        == Min(BodyStarts(s, p))
        e        == Stop(s, b)
        short(i) == i - p <= maxSequence
        open(i)  == [out  |-> IF rest /\ short(i) THEN SubSeq(s, p, Len(s)) ELSE << >>,
                     next |-> Len(s) + 1]
        whole(i) == [out  |-> IF short(e) THEN Allowed(policy, SubSeq(s, b, e - 1), s[e]) ELSE << >>,
                     next |-> i]
    IN  IF BodyStarts(s, p) = {}
        THEN IF MayBeHeader(s, p) THEN open(p) ELSE [out |-> <<s[p]>>, next |-> p + 1]
        ELSE IF e = 0 THEN open(Len(s) + 1)
        ELSE IF s[e] = "BEL" THEN whole(e + 1)
        ELSE IF s[e] = "CAN" THEN [out |-> << >>, next |-> e + 1]
        ELSE IF e = Len(s) THEN open(e)
        ELSE IF s[e + 1] = "\\" THEN whole(e + 2)
        ELSE [out |-> << >>, next |-> e]

\* The output for input s from position p on, by what is left of s.
Expected(policy, s, p, rest) ==
    LET x[k \in 0..Len(s)] ==
            IF k = 0 THEN << >>
            ELSE LET item == Item(policy, s, Len(s) + 1 - k, rest)
                 IN  item.out \o x[Len(s) + 1 - item.next]
    IN  x[Len(s) + 1 - p]

=============================================================================
