---------------------------- MODULE StreamHistory ----------------------------
(***************************************************************************)
(* Drives the operations of UserStream the way the sender does: the user   *)
(* pushes events, sending takes a snapshot, an acknowledgment subtracts    *)
(* the snapshot from everything.                                           *)
(***************************************************************************)
EXTENDS UserStream

CONSTANTS MaxEvents,  \* bound: how many events the user produces
          MaxRead     \* bound: how many bytes one read from the terminal delivers

ASSUME BoundAssumption == MaxEvents \in Nat \ {0} /\ MaxRead \in Nat \ {0}

-----------------------------------------------------------------------------
(* A stream, a snapshot taken of it earlier (a sent state), and two ghosts: *)
(* every event pushed, and every event whose snapshot was subtracted.      *)

VARIABLES u, existing, pushed, acked

streamVars == <<u, existing, pushed, acked>>

StreamInit == u = << >> /\ existing = << >> /\ pushed = << >> /\ acked = << >>

Push(es) ==
    /\ Len(pushed) + Len(es) <= MaxEvents
    /\ u' = u \o es
    /\ pushed' = pushed \o es
    /\ UNCHANGED <<existing, acked>>

\* One read from the terminal may deliver several bytes.
PushKeys   == \E n \in 1..MaxRead : \E b \in [1..n -> Key] : Push(b)
PushResize == \E s \in Size : Push(<<s>>)

\* Sending records a Clone of the current stream.
CloneState == existing' = u /\ UNCHANGED <<u, pushed, acked>>

\* rationalizeStates on the acknowledged snapshot: subtract it from the
\* stream and from itself.
SubtractExisting ==
    /\ u' = Subtract(u, existing)
    /\ existing' = Subtract(existing, existing)
    /\ acked' = acked \o existing
    /\ UNCHANGED pushed

StreamNext == PushKeys \/ PushResize \/ CloneState \/ SubtractExisting

StreamSpec == StreamInit /\ [][StreamNext]_streamVars

-----------------------------------------------------------------------------
(* Properties *)

\* A peer that holds the snapshot and applies the diff (DiffFrom) holds the
\* current stream: coalescing neither reorders keys around a resize nor drops
\* a byte, also after any number of Subtracts, which together with what
\* remains are all the user did.  No two keystroke runs are adjacent
\* (PushKeys' "coalesced exactly like mosh").
DiffRebuildsStream ==
    LET msg == DiffFrom(u, existing)
    IN  /\ existing \o Expand(msg) = u
        /\ \A i \in 1..(Len(msg) - 1) : msg[i].resize \/ msg[i + 1].resize
        /\ pushed = acked \o u /\ IsPrefix(existing, u)

=============================================================================
