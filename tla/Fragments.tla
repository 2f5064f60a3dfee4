------------------------------- MODULE Fragments -------------------------------
(***************************************************************************)
(* Fragmentation and reassembly (internal/transport/fragment.go): the      *)
(* fragmenter splits a compressed instruction into MTU-sized fragments,    *)
(* the network loses, duplicates and reorders them, the assembly puts them *)
(* together again.                                                         *)
(*                                                                         *)
(* A compressed instruction is a non-empty sequence of units, a chunk is   *)
(* the number of units that fit a fragment beside its header.  Chaff makes *)
(* two transmissions of one instruction differ, so they are two payloads   *)
(* unless the chaff happens to agree.  zlib is lossless and left out.      *)
(***************************************************************************)
EXTENDS Integers, Sequences, FiniteSets, SequencesExt

CONSTANTS Payload,     \* the compressed instructions that are sent
          Chunk,       \* the fragment capacities (mtu - fragHeaderLen) in use
          FinalBit,    \* the header's mark of a final fragment (2^15 in the code)
          MaxID,       \* bound: how many ids the fragmenter assigns
          MaxInjected  \* bound: fragments no fragmenter made ("garbage")

ASSUME FragmentsAssumption ==
    /\ \A p \in Payload : p \in Seq(ToSet(p)) /\ Len(p) > 0
    /\ Chunk \subseteq Nat \ {0} /\ FinalBit \in Nat \ {0}
    /\ \A p \in Payload, c \in Chunk : Len(p) <= c * FinalBit
    /\ MaxID \in Nat /\ MaxInjected \in Nat

VARIABLES
    nextID, lastPayload, lastChunk,   \* fragmenter
    wire,      \* every fragment handed to the network
    assembly,  \* haveID, currentID, frags with the table's length (size), arrived, total
    output,    \* the payload add returned last, << >> if it returned none
    made,      \* ghost: id -> the payload it was assigned to, and the chunk
    injected   \* ghost: number of garbage fragments received

fragmenterVars == <<nextID, lastPayload, lastChunk, wire, made>>
vars == <<fragmenterVars, assembly, output, injected>>

Init ==
    /\ nextID = 0 /\ lastPayload = << >> /\ lastChunk = 0
    /\ assembly = [haveID |-> FALSE, currentID |-> 0, frags |-> << >>, size |-> 0,
                   arrived |-> 0, total |-> 0]
    /\ wire = {} /\ made = << >> /\ output = << >> /\ injected = 0

-----------------------------------------------------------------------------
(* Fragmenter *)

\* Slip: a change of the MTU alone keeps the id.
NeedsFreshIDIgnoringMTU(p, chunk) == p # lastPayload

\* A fresh id whenever the bytes or the MTU differ from the last call's.
NeedsFreshID(p, chunk) == p # lastPayload \/ chunk # lastChunk

\* The number of fragments: at least one, and no empty last one.
FragCount(p, chunk) == (Len(p) + chunk - 1) \div chunk

\* Fragment number n (from 0) of a payload.
Fragment(id, p, chunk, n) ==
    [id |-> id, num |-> n, final |-> Len(p) <= chunk * (n + 1),
     contents |-> SubSeq(p, chunk * n + 1, IF chunk * (n + 1) < Len(p) THEN chunk * (n + 1) ELSE Len(p))]

\* marshal and parseFragment: number and final mark share a field.
Marshal(f) == [id |-> f.id, combined |-> f.num + (IF f.final THEN FinalBit ELSE 0),
               contents |-> f.contents]

ParseFragment(w) == [id |-> w.id, num |-> w.combined % FinalBit, final |-> w.combined >= FinalBit,
                     contents |-> w.contents]

\* makeFragments, and sendInFragments handing the result to the network, of
\* which only the first n may go out: the budget ends or a send fails.
SendInFragments(p, chunk, n) ==
    LET id == IF NeedsFreshID(p, chunk) THEN nextID + 1 ELSE nextID
    IN  /\ id <= MaxID
        /\ nextID' = id
        /\ lastPayload' = p /\ lastChunk' = chunk
        /\ wire' = wire \cup {Marshal(Fragment(id, p, chunk, i)) : i \in 0..(n - 1)}
        /\ made' = IF id > Len(made) THEN Append(made, [payload |-> p, chunk |-> chunk]) ELSE made
        /\ UNCHANGED <<assembly, output, injected>>

-----------------------------------------------------------------------------
(* Assembly *)

Longer(a, b) == IF a > b THEN a ELSE b

\* The fragments in store form a table indexed from 0: frags maps the places
\* in use, size is the table's length.
Store(table, f) == [n \in DOMAIN table \cup {f.num} |-> IF n = f.num THEN f ELSE table[n]]

\* The counter after storing f: a duplicate is ignored.
ArrivedAfter(table, count, f) == IF f.num \in DOMAIN table THEN count ELSE count + 1

\* A fragment that starts a new instruction abandons the partial one.
Fresh(a, f) == ~a.haveID \/ a.currentID # f.id

\* Slip: the counter still includes what was cut.
HaveUncounted(kept, count, cut) == count

\* The counter after the cut: what is left is counted anew.
Have(kept, count, cut) == IF cut THEN Cardinality(DOMAIN kept) ELSE count

\* add: the assembly a after it has ingested fragment f, and the payload that
\* completes, if any.  A final fragment pins the total and cuts what was stored
\* beyond it.
Add(a, f) ==
    LET fresh  == Fresh(a, f)
        table  == IF fresh THEN << >> ELSE a.frags
        stored == IF f.num \in DOMAIN table THEN table ELSE Store(table, f)
        count  == IF fresh THEN 1 ELSE ArrivedAfter(table, a.arrived, f)
        len    == IF fresh THEN f.num + 1 ELSE Longer(a.size, f.num + 1)
        pinned == IF f.final THEN f.num + 1 ELSE IF fresh THEN -1 ELSE a.total
        cut    == f.final /\ len > pinned
        kept   == IF cut THEN [n \in {x \in DOMAIN stored : x < pinned} |-> stored[n]] ELSE stored
        inTab  == IF cut THEN pinned ELSE len
        have   == Have(kept, count, cut)
        whole  == pinned # -1 /\ have = pinned /\ DOMAIN kept = 0..(inTab - 1)
    IN  [assembly |-> [haveID |-> ~whole, currentID |-> f.id, frags |-> kept, size |-> inTab,
                       arrived |-> have, total |-> pinned],
         output   |-> IF whole THEN FlattenSeq([i \in 1..inTab |-> kept[i - 1].contents])
                      ELSE << >>]

Ingest(f) ==
    /\ assembly' = Add(assembly, f).assembly
    /\ output' = Add(assembly, f).output

Receive(w) == w \in wire /\ Ingest(ParseFragment(w)) /\ UNCHANGED <<fragmenterVars, injected>>

\* A fragment of no fragmenter, under any id, with any number and mark.
ReceiveGarbage ==
    /\ injected < MaxInjected
    /\ injected' = injected + 1
    /\ \E id \in 1..MaxID, n \in 0..FinalBit - 1, last \in BOOLEAN :
           Ingest([id |-> id, num |-> n, final |-> last, contents |-> <<"garbage">>])
    /\ UNCHANGED fragmenterVars

Next ==
    \/ \E p \in Payload, c \in Chunk :
          \E n \in 0..FragCount(p, c) : SendInFragments(p, c, n)
    \/ \E w \in wire : Receive(w)
    \/ ReceiveGarbage

Spec == Init /\ [][Next]_vars

-----------------------------------------------------------------------------
(* Properties *)

\* What add returns is one instruction that was sent, whole: never a mixture of
\* two instructions, of two fragmentations of the same one, or of an old and a
\* new transmission (the id is fresh "whenever the instruction bytes (or MTU)
\* change", fragment.go:78-80).
NoMixing ==
    injected = 0 /\ output # << >>
    => assembly.currentID <= Len(made) /\ output = made[assembly.currentID].payload

\* Fragment n of transmission id reaches an assembly; outputs collects what
\* add returned so far.
Taking(r, id, n) ==
    LET m == made[id]
        a == Add(r.assembly, ParseFragment(Marshal(Fragment(id, m.payload, m.chunk, n))))
    IN  [assembly |-> a.assembly, outputs |-> r.outputs \cup {a.output}]

\* What the assembly makes of the fragments of a transmission, in order.
Delivered(id) ==
    LET count == FragCount(made[id].payload, made[id].chunk)
        run[i \in 0..count] ==
            IF i = 0 THEN [assembly |-> assembly, outputs |-> {}] ELSE Taking(run[i - 1], id, i - 1)
    IN  run[count].outputs

\* Garbage spoils the transmission of an id only by standing in the place of one
\* of its fragments, or by moving the end of an instruction whose final fragment
\* has arrived.  Garbage beyond the final fragment, marked final itself or not,
\* leaves it unspoilt.
Unspoilt(id) ==
    LET m     == made[id]
        count == FragCount(m.payload, m.chunk)
    IN  /\ \A n \in DOMAIN assembly.frags :
               n < count => assembly.frags[n] = Fragment(id, m.payload, m.chunk, n)
        /\ \/ assembly.total \in {-1, count}
           \/ assembly.total > count /\ count - 1 \notin DOMAIN assembly.frags

\* "Leave the rest for the next retransmission" (sender.go:337): whatever was
\* cut short, lost, duplicated or overtaken before, a transmission that comes
\* through whole delivers its instruction, an old one or one already partly
\* received included.  Nothing left in the assembly blocks it: no fragment of
\* another id, genuine or not, and no garbage under its own id beyond its final
\* fragment, which that one cuts and counts out (fragment.go:143-155).
RetransmissionCompletes ==
    \A id \in 1..Len(made) :
        \/ injected = 0
        \/ ~assembly.haveID \/ assembly.currentID # id
        \/ Unspoilt(id)
        => made[id].payload \in Delivered(id)

=============================================================================
