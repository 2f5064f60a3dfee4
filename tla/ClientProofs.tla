---------------------------- MODULE ClientProofs -----------------------------
(***************************************************************************)
(* The client process: getting to a server (Bootstrap), the session with   *)
(* it (Session) and the filter on what passes through it (Osc52), for any  *)
(* servers, files, agents, input and timing.                               *)
(*                                                                         *)
(* Bootstrap: a host key announced as added is on known_hosts or lost in   *)
(* one of two named ways, and what a process read covers what was          *)
(* announced and not lost before; the terminal is raw only while its       *)
(* restore is owed; without an identity file, an agent key that the server *)
(* takes is still to be offered. An order of algorithms matters only by    *)
(* which one of those the server has comes first (Leads), and filtering    *)
(* and concatenation keep that, so the preference for recorded types is    *)
(* followed from the default order to the key.                             *)
(*                                                                         *)
(* Osc52: what was handed on is the output for everything before what is   *)
(* held, whatever follows it; what is held begins at one place, and the    *)
(* state of the scanner says which part of a sequence it is. So no chunk   *)
(* boundary can show.                                                      *)
(*                                                                         *)
(* Session: the closing handshake is bounded by relating the clock to the  *)
(* number of transmissions so far. Escapes are followed byte by byte: the  *)
(* scanner is in its escape state exactly when the run of escape keys that *)
(* ends the input is odd, whatever chunks the input came in. The filter is *)
(* at rest between reads, so what it makes of one is what it is to hand    *)
(* on.                                                                     *)
(***************************************************************************)
EXTENDS Bootstrap, Session, Osc52, Foundations, SequenceTheorems, TLAPS

-----------------------------------------------------------------------------
(***** Bootstrap                                                          *****)

(* known_hosts *)

\* The processes and the file keep their fields.
Fields == {"pc", "policy", "known", "before", "seen", "server", "key", "left", "conns", "tries",
           "tty", "hand", "takes"}
Shape ==
    /\ DOMAIN proc = Gosh
    /\ \A g \in Gosh : DOMAIN proc[g] = Fields
    /\ DOMAIN file = {"exists", "sound", "lines", "newline"}

\* A file that was there from the start is there and keeps its lines: no process
\* is about to truncate it.
FileKept ==
    ~mishaps.absent =>
        file.exists /\ mishaps.truncated = {} /\ \A g \in Gosh : proc[g].pc # "create"

\* What was announced is on file or lost, and what was announced and not lost
\* before a process read the file is in what that process read.
RecordInv ==
    /\ Shape /\ DOMAIN mishaps = {"absent", "truncated", "swallowed"}
    /\ announced \subseteq file.lines \cup Lost
    /\ \A g \in Gosh : proc[g].before \subseteq proc[g].known
    /\ FileKept

\* A process that goes on with what it read, or with nothing, and creates a file
\* only if there is none.
Keeps(p, q) == /\ DOMAIN q = Fields
               /\ (q.before \subseteq q.known) \/ (q.before = p.before /\ q.known = p.known)
               /\ q.pc = "create" => ~file.exists

\* A process that has just begun or has ended has read nothing.
LEMMA BlankFields ==
    DOMAIN Blank = Fields /\ Blank.before = {} /\ Blank.known = {} /\ Blank.pc = "stat"
  BY DEF Blank, Fields

\* A step of g that leaves the file alone preserves the invariant.
LEMMA QuietStep ==
    ASSUME RecordInv, NEW g \in Gosh, NEW q, Keeps(proc[g], q), Go(g, q),
           UNCHANGED <<file, announced, mishaps>>
    PROVE  RecordInv'
  <1>1. \A h \in Gosh : proc'[h] = IF h = g THEN q ELSE proc[h]
        BY DEF RecordInv, Shape, Go
  <1>2. Shape' /\ \A h \in Gosh : proc'[h].before \subseteq proc'[h].known
        BY <1>1 DEF RecordInv, Shape, Keeps, Go
  <1>3. FileKept'
        BY <1>1 DEF RecordInv, FileKept, Keeps
  <1> QED BY <1>2, <1>3 DEF RecordInv, Lost

\* Every step preserves the invariant.
LEMMA RecordStep == RecordInv /\ [Next]_vars => RecordInv'
  <1> SUFFICES ASSUME RecordInv, [Next]_vars PROVE RecordInv'
      OBVIOUS
  <1>1. CASE UNCHANGED vars
        BY <1>1 DEF RecordInv, Shape, FileKept, Lost, vars
  <1>2. ASSUME NEW g \in Gosh, Step(g) PROVE RecordInv'
    <2> DEFINE Quiet == (\E q : Keeps(proc[g], q) /\ Go(g, q))
                        /\ UNCHANGED <<file, announced, mishaps>>
    <2>0. Quiet => RecordInv'
          BY QuietStep
    <2> DOMAIN proc[g] = Fields
        BY DEF RecordInv, Shape
    <2> USE BlankFields
    <2>a. \A to : to # "create" /\ Exit(g, to) => \E q : Keeps(proc[g], q) /\ Go(g, q)
          BY DEF Exit, Keeps, Fields
    <2>b. Fail(g) => Quiet
          BY <2>a DEF Fail
    <2>1. CASE Stat(g)
          BY <2>0, <2>1, <2>b DEF Stat, Keeps, Fields
    <2>2. CASE CreateFile(g)
      <3>1. CASE Fail(g)
            BY <3>1, <2>0, <2>b
      <3>2. CASE ~Fail(g)
        <4> DEFINE q == [proc[g] EXCEPT !.pc = "read"]
        <4>1. /\ proc[g].pc = "create" /\ proc' = [proc EXCEPT ![g] = q] /\ announced' = announced
              /\ file' = [exists |-> TRUE, sound |-> TRUE, lines |-> {}, newline |-> TRUE]
              /\ mishaps' = [mishaps EXCEPT !.truncated = @ \cup file.lines]
              BY <3>2, <2>2 DEF CreateFile, Go
        <4>2. DOMAIN q = Fields /\ q.before = proc[g].before /\ q.known = proc[g].known
              BY DEF Fields
        <4> HIDE DEF q
        <4>3. \A h \in Gosh : proc'[h] = IF h = g THEN q ELSE proc[h]
              BY <4>1 DEF RecordInv, Shape
        <4>4. Shape' /\ \A h \in Gosh : proc'[h].before \subseteq proc'[h].known
              BY <4>1, <4>2, <4>3 DEF RecordInv, Shape
        <4>5. /\ DOMAIN mishaps' = {"absent", "truncated", "swallowed"} /\ mishaps'.absent = mishaps.absent
              /\ Lost' = Lost \cup file.lines
              BY <4>1 DEF RecordInv, Lost
        <4>6. announced' \subseteq file'.lines \cup Lost'
              BY <4>1, <4>5 DEF RecordInv
        <4>7. FileKept'
              BY <4>1, <4>5 DEF RecordInv, FileKept
        <4> QED BY <4>4, <4>5, <4>6, <4>7 DEF RecordInv
      <3> QED BY <3>1, <3>2
    <2>3. CASE ReadKnownHosts(g)
      <3>1. CASE Fail(g)
            BY <3>1, <2>0, <2>b
      <3>2. CASE ~Fail(g)
        <4> DEFINE q == [proc[g] EXCEPT !.pc = "auth methods", !.known = file.lines,
                                        !.before = announced \ Lost]
        <4>1. Go(g, q) /\ UNCHANGED <<file, announced, mishaps>>
              BY <3>2, <2>3 DEF ReadKnownHosts
        <4>2. DOMAIN q = Fields /\ q.before = announced \ Lost /\ q.known = file.lines
              /\ q.pc = "auth methods"
              BY DEF Fields
        <4> HIDE DEF q
        <4>3. Keeps(proc[g], q)
              BY <4>2 DEF Keeps, RecordInv
        <4> QED BY <4>1, <4>3, <2>0
      <3> QED BY <3>1, <3>2
    <2>4. CASE AuthMethods(g)
          BY <2>0, <2>4, <2>b DEF AuthMethods, Keeps, Fields
    <2>5. CASE AskPassphrase(g)
          BY <2>0, <2>5 DEF AskPassphrase, Keeps, Fields
    <2>6. CASE PassphraseTyped(g)
          BY <2>0, <2>6 DEF PassphraseTyped, Keeps, Fields
    <2>7. CASE Dial(g)
          BY <2>0, <2>7, <2>b DEF Dial, Keeps, Fields
    <2>8. CASE VerifyHostKey(g)
      <3>1. \/ AppendKey(g)
            \/ Fail(g)
            \/ ((Authenticate(g) \/ Exit(g, "refused")) /\ UNCHANGED <<file, announced, mishaps>>)
            BY <2>8 DEF VerifyHostKey
      <3>2. Authenticate(g) => \E q : Keeps(proc[g], q) /\ Go(g, q)
            BY DEF Authenticate, Keeps, Fields
      <3>3. CASE AppendKey(g)
        <4> DEFINE l == [type |-> proc[g].key[1].type, id |-> proc[g].key[1].id, ca |-> FALSE]
        <4>1. PICK q : Fail(g) \/ (Keeps(proc[g], q) /\ Go(g, q))
              BY <3>3, <3>2, <2>a DEF AppendKey
        <4>2. \/ Fail(g)
              \/ /\ file.lines \subseteq file'.lines
                 /\ DOMAIN file' = DOMAIN file /\ file'.exists = file.exists
                 /\ UNCHANGED <<announced, mishaps>>
              \/ /\ file.lines \subseteq file'.lines
                 /\ DOMAIN file' = DOMAIN file /\ file'.exists = file.exists
                 /\ announced' = announced \cup {l}
                 /\ DOMAIN mishaps' = DOMAIN mishaps /\ mishaps'.absent = mishaps.absent
                 /\ mishaps'.truncated = mishaps.truncated
                 /\ Lost \subseteq Lost' /\ l \in file'.lines \cup Lost'
          <5>1. {"lines", "exists"} \subseteq DOMAIN file
                BY DEF RecordInv, Shape
          <5>2. ASSUME NEW sound, file' = [file EXCEPT !.sound = sound, !.newline = FALSE]
                PROVE  /\ file'.lines = file.lines /\ DOMAIN file' = DOMAIN file
                       /\ file'.exists = file.exists
                BY <5>1, <5>2
          <5>3. ASSUME file' = [file EXCEPT !.lines = @ \cup {l}, !.newline = FALSE]
                PROVE  /\ file.lines \subseteq file'.lines /\ DOMAIN file' = DOMAIN file
                       /\ file'.exists = file.exists
                BY <5>1, <5>3
          <5>4. ASSUME AppendLine(g, l)
                PROVE  /\ file.lines \subseteq file'.lines /\ DOMAIN file' = DOMAIN file
                       /\ file'.exists = file.exists
                       /\ file.newline => l \in file'.lines
                BY <5>1, <5>4 DEF AppendLine
          <5>5. ASSUME mishaps' = [mishaps EXCEPT !.swallowed = @ \cup
                                                      (IF file.newline THEN {} ELSE {l})]
                PROVE  /\ DOMAIN mishaps' = DOMAIN mishaps /\ mishaps'.absent = mishaps.absent
                       /\ mishaps'.truncated = mishaps.truncated
                       /\ Lost \subseteq Lost' /\ (~file.newline => l \in Lost')
                BY <5>5 DEF RecordInv, Lost
          <5> HIDE DEF l
          <5>6. \/ Fail(g)
                \/ /\ \/ \E sound \in BOOLEAN : file' = [file EXCEPT !.sound = sound, !.newline = FALSE]
                      \/ file' = [file EXCEPT !.lines = @ \cup {l}, !.newline = FALSE]
                   /\ UNCHANGED <<announced, mishaps>>
                \/ /\ AppendLine(g, l) /\ announced' = announced \cup {l}
                   /\ mishaps' = [mishaps EXCEPT !.swallowed = @ \cup
                                                      (IF file.newline THEN {} ELSE {l})]
                BY <3>3 DEF AppendKey, l
          <5> QED BY <5>2, <5>3, <5>4, <5>5, <5>6
        <4>3. CASE Fail(g)
              BY <4>3, <2>0, <2>b
        <4>4. CASE ~Fail(g)
          <5>1. \A h \in Gosh : proc'[h] = IF h = g THEN q ELSE proc[h]
                BY <4>1, <4>4 DEF Go, RecordInv, Shape
          <5>2. Shape' /\ \A h \in Gosh : proc'[h].before \subseteq proc'[h].known
                BY <4>1, <4>2, <4>4, <5>1 DEF Keeps, Go, RecordInv, Shape
          <5>3. FileKept'
                BY <4>1, <4>2, <4>4, <5>1 DEF Keeps, RecordInv, FileKept
          <5> HIDE DEF l
          <5>4. DOMAIN mishaps' = DOMAIN mishaps /\ announced' \subseteq file'.lines \cup Lost'
            <6>1. CASE UNCHANGED <<announced, mishaps>>
                  BY <4>2, <4>4, <6>1 DEF RecordInv, Lost
            <6>2. CASE ~UNCHANGED <<announced, mishaps>>
                  BY <4>2, <4>4, <6>2 DEF RecordInv
            <6> QED BY <6>1, <6>2
          <5> QED BY <5>2, <5>3, <5>4 DEF RecordInv
        <4> QED BY <4>3, <4>4
      <3> QED BY <3>1, <3>2, <3>3, <2>0, <2>a, <2>b
    <2>9. CASE NoneAuth(g)
          BY <2>0, <2>9 DEF NoneAuth, Keeps, Fields
    <2>10. CASE OfferKeys(g)
          BY <2>0, <2>10 DEF OfferKeys, Deny, Keeps, Fields
    <2>11. CASE AskPassword(g)
          BY <2>0, <2>11 DEF AskPassword, Keeps, Fields
    <2>12. CASE PasswordTyped(g)
          BY <2>0, <2>12 DEF PasswordTyped, Deny, Keeps, Fields
    <2>13. CASE ExecServer(g)
          BY <2>0, <2>13, <2>b DEF ExecServer, Keeps, Fields
    <2>14. CASE Connect(g)
          BY <2>0, <2>14, <2>b DEF Connect, Keeps, Fields
    <2>15. CASE MakeRaw(g)
          BY <2>0, <2>15 DEF MakeRaw, Keeps, Fields
    <2>16. CASE EndClient(g)
          BY <2>0, <2>16 DEF EndClient, Keeps, Fields
    <2>17. CASE Kill(g)
          BY <2>0, <2>17, <2>a DEF Kill
    <2> QED BY <1>2, <2>1, <2>2, <2>3, <2>4, <2>5, <2>6, <2>7, <2>8, <2>9, <2>10, <2>11,
               <2>12, <2>13, <2>14, <2>15, <2>16, <2>17 DEF Step
  <1> QED BY <1>1, <1>2 DEF Next

\* The invariant holds.
LEMMA RecordInvHolds == Spec => []RecordInv
  <1>1. Init => RecordInv
    <2> SUFFICES ASSUME Init PROVE RecordInv
        OBVIOUS
    <2>1. DOMAIN file = {"exists", "sound", "lines", "newline"}
          BY DEF Init
    <2>2. ASSUME NEW g \in Gosh
          PROVE  /\ DOMAIN proc[g] = Fields /\ proc[g].before = {} /\ proc[g].known = {}
                 /\ proc[g].pc = "stat"
      <3>1. PICK p \in Policies : proc[g] = [Blank EXCEPT !.policy = p]
            BY DEF Init
      <3> QED BY <3>1, BlankFields DEF Fields
    <2>3. DOMAIN proc = Gosh /\ announced = {}
          BY DEF Init
    <2>4. mishaps = [absent |-> ~file.exists, truncated |-> {}, swallowed |-> {}]
          BY DEF Init
    <2> QED BY <2>1, <2>2, <2>3, <2>4 DEF RecordInv, Shape, FileKept
  <1> QED BY <1>1, RecordStep, PTL DEF Spec

\* Whatever any number of processes do to known_hosts at the same time and
\* whichever writes fail, cut short or not, a host key announced as permanently
\* added stays a line of the file, unless it was truncated by a process that saw no
\* file, and then there was none at the start, or was appended to an unfinished line.
THEOREM AddedStays == Spec => []AddedForGood
  <1>1. RecordInv => AddedForGood
        BY DEF RecordInv, FileKept, AddedForGood
  <1> QED BY <1>1, RecordInvHolds, PTL

\* A process that has read known_hosts after a key was announced, and not lost
\* before it read, adds no other, whatever happens to the file meanwhile.
THEOREM FirstUseOnce == Spec => NoSecondFirstUse
  <1>1. RecordInv /\ [Next]_vars
        => [\A g \in Gosh : announced' # announced /\ proc'[g] # proc[g]
                            => proc[g].before = {}]_vars
    <2> SUFFICES ASSUME RecordInv, Next, NEW g \in Gosh,
                        announced' # announced, proc'[g] # proc[g]
                 PROVE  proc[g].before = {}
        BY DEF vars
    <2>1. PICK h \in Gosh : Step(h)
          BY DEF Next
    <2>2. VerifyHostKey(h) /\ AppendKey(h) /\ IsUnknown(proc[h].known, proc[h].key[1])
      <3>1. ~Fail(h) /\ ~UNCHANGED <<file, announced, mishaps>>
            BY DEF Fail
      <3>2. VerifyHostKey(h)
            BY <2>1, <3>1 DEF Step, Stat, CreateFile, ReadKnownHosts, AuthMethods, AskPassphrase,
               PassphraseTyped, Dial, NoneAuth, OfferKeys, AskPassword, PasswordTyped, ExecServer,
               Connect, MakeRaw, EndClient, Kill
      <3> QED BY <3>1, <3>2 DEF VerifyHostKey
    <2>3. g = h
          BY <2>2 DEF AppendKey, Fail, Exit, Authenticate, Go, RecordInv, Shape
    <2>4. proc[h].known = {}
          BY <2>2 DEF IsUnknown, Verify
    <2> QED BY <2>3, <2>4 DEF RecordInv
  <1> QED BY <1>1, RecordInvHolds, PTL DEF Spec, NoSecondFirstUse

-----------------------------------------------------------------------------
(* The terminal *)

\* What may be changed about the terminal of a process, by where it stands.
MayChange(to) ==
    CASE to \in {"passphrase", "password", "killed"} -> {"no echo"}
      [] to = "running" -> {"vt", "raw"}
      [] OTHER -> {}

\* Only a prompt, a running client and a process killed at a prompt have it
\* changed.
TerminalInv == Shape /\ \A g \in Gosh : proc[g].tty \subseteq MayChange(proc[g].pc)

\* A process in its first or last state has not touched the terminal.
LEMMA BlankTerminal == Blank.tty = {} /\ Blank.pc = "stat"
  BY DEF Blank

\* A step of g to q, which has its terminal as q's place allows.
LEMMA TerminalGoes ==
    ASSUME TerminalInv, Shape', NEW g \in Gosh, NEW q, Go(g, q),
           q.tty \subseteq MayChange(q.pc)
    PROVE  TerminalInv'
  <1>1. \A h \in Gosh : proc'[h] = IF h = g THEN q ELSE proc[h]
        BY DEF TerminalInv, Shape, Go
  <1> QED BY <1>1 DEF TerminalInv

\* Every step preserves the invariant.
LEMMA TerminalStep == TerminalInv /\ Shape' /\ [Next]_vars => TerminalInv'
  <1> SUFFICES ASSUME TerminalInv, Shape', [Next]_vars PROVE TerminalInv'
      OBVIOUS
  <1>1. CASE UNCHANGED vars
        BY <1>1 DEF TerminalInv, vars
  <1>2. ASSUME NEW g \in Gosh, Step(g) PROVE TerminalInv'
    <2> DEFINE Fine == \E q : Go(g, q) /\ q.tty \subseteq MayChange(q.pc)
    <2> SUFFICES Fine
        BY TerminalGoes
    <2> DOMAIN proc[g] = Fields /\ proc[g].tty \subseteq MayChange(proc[g].pc)
        BY DEF TerminalInv, Shape
    <2> USE BlankFields, BlankTerminal
    <2>a. \A to : Exit(g, to) /\ proc[g].tty \subseteq MayChange(to) => Fine
      <3> SUFFICES ASSUME NEW to, Exit(g, to), proc[g].tty \subseteq MayChange(to) PROVE Fine
          OBVIOUS
      <3> DEFINE q == [Blank EXCEPT !.pc = to, !.tty = proc[g].tty]
      <3>1. q.pc = to /\ q.tty = proc[g].tty
            BY DEF Fields
      <3> QED BY <3>1 DEF Exit
    <2>z. ASSUME NEW q, Go(g, q), q.tty = {} PROVE Fine
          BY <2>z
    <2>y. ASSUME NEW q, Go(g, q), q.pc \in {"passphrase", "password"}, q.tty = {"no echo"}
          PROVE  Fine
          BY <2>y DEF MayChange
    <2>s. proc[g].pc \notin {"passphrase", "password", "killed", "running"} => proc[g].tty = {}
          BY DEF MayChange
    <2>b. Fail(g) /\ proc[g].tty = {} => Fine
          BY <2>a DEF Fail
    <2>c. Authenticate(g) => Fine
          BY <2>z DEF Authenticate, Fields
    <2>d. Deny(g) => Fine
          BY <2>z DEF Deny, Fields
    <2>1. CASE Stat(g)
          BY <2>1, <2>b, <2>s, <2>z DEF Stat, Fields
    <2>2. CASE CreateFile(g)
          BY <2>2, <2>b, <2>s, <2>z DEF CreateFile, Fields
    <2>3. CASE ReadKnownHosts(g)
          BY <2>3, <2>b, <2>s, <2>z DEF ReadKnownHosts, Fields
    <2>4. CASE AuthMethods(g)
          BY <2>4, <2>b, <2>s, <2>z DEF AuthMethods, Fields
    <2>5. CASE AskPassphrase(g)
          BY <2>5, <2>y DEF AskPassphrase, Fields
    <2>6. CASE PassphraseTyped(g)
          BY <2>6, <2>s, <2>z DEF PassphraseTyped, Fields
    <2>7. CASE Dial(g)
          BY <2>7, <2>b, <2>s, <2>z DEF Dial, Fields
    <2>8. CASE VerifyHostKey(g)
      <3>1. proc[g].tty = {}
            BY <2>8 DEF VerifyHostKey, MayChange
      <3>2. \/ AppendKey(g) \/ Fail(g) \/ Authenticate(g) \/ Exit(g, "refused")
            BY <2>8 DEF VerifyHostKey
      <3>3. AppendKey(g) => Fail(g) \/ Exit(g, "failed") \/ Authenticate(g)
            BY DEF AppendKey
      <3> QED BY <3>1, <3>2, <3>3, <2>a, <2>b, <2>c
    <2>9. CASE NoneAuth(g)
          BY <2>9, <2>s, <2>z DEF NoneAuth, Fields
    <2>10. CASE OfferKeys(g)
          BY <2>10, <2>d, <2>s, <2>z DEF OfferKeys, Fields
    <2>11. CASE AskPassword(g)
          BY <2>11, <2>y DEF AskPassword, Fields
    <2>12. CASE PasswordTyped(g)
          BY <2>12, <2>d, <2>s, <2>z DEF PasswordTyped, Fields
    <2>13. CASE ExecServer(g)
          BY <2>13, <2>b, <2>s, <2>z DEF ExecServer, Fields
    <2>14. CASE Connect(g)
          BY <2>14, <2>b, <2>s, <2>z DEF Connect, Fields
    <2>15. CASE MakeRaw(g)
      <3> DEFINE q(t) == [proc[g] EXCEPT !.pc = "running", !.tty = t]
                 running == [proc[g] EXCEPT !.pc = "running"]
      <3>1. proc[g].tty = {}
            BY <2>15, <2>s DEF MakeRaw
      <3>2. MayChange("running") = {"vt", "raw"}
            BY DEF MayChange
      <3>3. /\ q({"vt", "raw"}).pc = "running" /\ q({"vt", "raw"}).tty = {"vt", "raw"}
            /\ running.tty = {}
            BY <3>1 DEF Fields
      <3>4. \/ Go(g, [proc[g] EXCEPT !.pc = "failed"])
            \/ Go(g, [proc[g] EXCEPT !.pc = "failed", !.tty = {}])
            \/ Go(g, q({"vt", "raw"})) \/ Go(g, running)
            BY <2>15, <3>1 DEF MakeRaw, UndoVT
      <3>5. CASE Go(g, q({"vt", "raw"}))
            BY <3>2, <3>3, <3>5
      <3>6. CASE Go(g, running)
            BY <3>3, <3>6, <2>z
      <3>7. CASE Go(g, [proc[g] EXCEPT !.pc = "failed"])
            BY <3>1, <3>7, <2>z DEF Fields
      <3>8. CASE Go(g, [proc[g] EXCEPT !.pc = "failed", !.tty = {}])
            BY <3>8, <2>z DEF Fields
      <3> QED BY <3>4, <3>5, <3>6, <3>7, <3>8
    <2>16. CASE EndClient(g)
          BY <2>16, <2>s, <2>z DEF EndClient, Restore, Fields
    <2>17. CASE Kill(g)
      <3>1. proc[g].tty \subseteq {"no echo"}
            BY <2>17 DEF Kill, MayChange
      <3>2. MayChange("killed") = {"no echo"}
            BY DEF MayChange
      <3> QED BY <2>17, <3>1, <3>2, <2>a DEF Kill
    <2> QED BY <1>2, <2>1, <2>2, <2>3, <2>4, <2>5, <2>6, <2>7, <2>8, <2>9, <2>10, <2>11,
               <2>12, <2>13, <2>14, <2>15, <2>16, <2>17 DEF Step
  <1> QED BY <1>1, <1>2 DEF Next

\* Whichever step fails, in whichever of its processes, gosh leaves the
\* terminal as it found it; a signal at a prompt alone leaves it without echo.
THEOREM TerminalIsRestored == Spec => []TerminalRestored
  <1>1. Init => TerminalInv
    <2> SUFFICES ASSUME Init PROVE TerminalInv
        OBVIOUS
    <2>1. ASSUME NEW g \in Gosh PROVE DOMAIN proc[g] = Fields /\ proc[g].tty = {}
      <3>1. PICK p \in Policies : proc[g] = [Blank EXCEPT !.policy = p]
            BY DEF Init
      <3> QED BY <3>1, BlankFields, BlankTerminal DEF Fields
    <2>2. DOMAIN proc = Gosh /\ DOMAIN file = {"exists", "sound", "lines", "newline"}
          BY DEF Init
    <2> QED BY <2>1, <2>2 DEF TerminalInv, Shape
  <1>2. TerminalInv => TerminalRestored
        BY DEF TerminalInv, TerminalRestored, MayChange, Over
  <1>3. RecordInv => Shape
        BY DEF RecordInv
  <1> QED BY <1>1, <1>2, <1>3, TerminalStep, RecordInvHolds, PTL DEF Spec

-----------------------------------------------------------------------------
(* Agents *)

\* What authMethods may have put together.
Chains == {AuthChain(i, a, t) : i \in BOOLEAN, a \in BOOLEAN, t \in BOOLEAN} \ {<< >>}

\* Before the first offer a process has a whole chain; from then on, unless the
\* identity is at hand, either the agents are about to be asked for everything
\* at hand or nothing at hand is taken by the server.
Chained(p) ==
    /\ p.pc \in {"dial", "verify", "auth"} => p.left \in Chains
    /\ p.pc = "offer" => \/ "identity" \in p.hand \/ p.takes = {}
                         \/ Head(p.left) = "agents" /\ p.takes \subseteq p.hand
                                                    /\ p.hand \subseteq p.conns
    /\ p.pc \in {"password", "denied"} => "identity" \in p.hand \/ p.takes = {}

ChainInv == Shape /\ \A g \in Gosh : Chained(proc[g])

\* A chain without an identity begins with the agents, or has none.
LEMMA ChainHead ==
    ASSUME NEW c \in Chains, "identity" \notin ToSet(c)
    PROVE  Head(c) = "agents" \/ "agents" \notin ToSet(c)
  <1>1. PICK i \in BOOLEAN, a \in BOOLEAN, t \in BOOLEAN : c = AuthChain(i, a, t) /\ c # << >>
        BY DEF Chains
  <1>2. CASE i
    <2>1. c = <<"identity">> \o (IF a THEN <<"agents">> ELSE << >>)
                             \o (IF t THEN <<"password">> ELSE << >>)
          BY <1>1, <1>2 DEF AuthChain
    <2>2. 1 \in DOMAIN c /\ c[1] = "identity"
          BY <2>1
    <2> QED BY <2>2 DEF ToSet
  <1>3. CASE ~i
    <2>1. c = << >> \o (IF a THEN <<"agents">> ELSE << >>)
                    \o (IF t THEN <<"password">> ELSE << >>)
          BY <1>1, <1>3 DEF AuthChain
    <2>2. CASE a
          BY <2>1, <2>2
    <2>3. CASE ~a
      <3>1. \A k \in DOMAIN c : c[k] = "password"
            BY <2>1, <2>3
      <3> QED BY <3>1 DEF ToSet
    <2> QED BY <2>2, <2>3
  <1> QED BY <1>2, <1>3

\* A step of g to q, which is in order.
LEMMA ChainGoes ==
    ASSUME ChainInv, Shape', NEW g \in Gosh, NEW q, Go(g, q), Chained(q)
    PROVE  ChainInv'
  <1>1. \A h \in Gosh : proc'[h] = IF h = g THEN q ELSE proc[h]
        BY DEF ChainInv, Shape, Go
  <1> QED BY <1>1 DEF ChainInv

\* Every step preserves the invariant.
LEMMA ChainStep == ChainInv /\ Shape' /\ [Next]_vars => ChainInv'
  <1> SUFFICES ASSUME ChainInv, Shape', [Next]_vars PROVE ChainInv'
      OBVIOUS
  <1>1. CASE UNCHANGED vars
        BY <1>1 DEF ChainInv, vars
  <1>2. ASSUME NEW g \in Gosh, Step(g) PROVE ChainInv'
    <2> DEFINE Fine == \E q : Go(g, q) /\ Chained(q)
    <2> SUFFICES Fine
        BY ChainGoes
    <2> DOMAIN proc[g] = Fields /\ Chained(proc[g])
        BY DEF ChainInv, Shape
    <2> USE BlankFields, BlankTerminal
    <2>z. ASSUME NEW q, Go(g, q),
                 q.pc \notin {"dial", "verify", "auth", "offer", "password", "denied"}
          PROVE  Fine
          BY <2>z DEF Chained
    <2>y. ASSUME NEW q, Go(g, q), q.pc \in {"dial", "verify", "auth"}, q.left \in Chains
          PROVE  Fine
          BY <2>y DEF Chained
    <2>x. ASSUME NEW q, Go(g, q), q.pc \in {"offer", "password", "denied"},
                 "identity" \in q.hand \/ q.takes = {}
          PROVE  Fine
          BY <2>x DEF Chained
    <2>l. proc[g].pc \in {"dial", "verify", "auth"} => proc[g].left \in Chains
          BY DEF Chained
    <2>a. ASSUME NEW to, to \in Over \ {"denied"}, Exit(g, to) PROVE Fine
      <3>1. [Blank EXCEPT !.pc = to, !.tty = proc[g].tty].pc = to
            BY DEF Fields
      <3> QED BY <2>a, <2>z, <3>1 DEF Exit, Over
    <2>b. Fail(g) => Fine
          BY <2>a DEF Fail, Over
    <2>c. Authenticate(g) /\ proc[g].pc = "verify" => Fine
          BY <2>y, <2>l DEF Authenticate, Fields
    <2>d. Deny(g) /\ ("identity" \in proc[g].hand \/ proc[g].takes = {}) => Fine
          BY <2>x DEF Deny, Fields
    <2>e. \A i, a, t \in BOOLEAN : AuthChain(i, a, t) # << >> => AuthChain(i, a, t) \in Chains
          BY DEF Chains
    <2>1. CASE Stat(g)
          BY <2>1, <2>b, <2>z DEF Stat, Fields
    <2>2. CASE CreateFile(g)
          BY <2>2, <2>b, <2>z DEF CreateFile, Fields
    <2>3. CASE ReadKnownHosts(g)
          BY <2>3, <2>b, <2>z DEF ReadKnownHosts, Fields
    <2>4. CASE AuthMethods(g)
          BY <2>4, <2>b, <2>e, <2>y DEF AuthMethods, Fields
    <2>5. CASE AskPassphrase(g)
          BY <2>5, <2>z DEF AskPassphrase, Fields
    <2>6. CASE PassphraseTyped(g)
      <3>1. \A a \in BOOLEAN : AuthChain(TRUE, a, TRUE) # << >>
        <4> SUFFICES ASSUME NEW a \in BOOLEAN PROVE AuthChain(TRUE, a, TRUE) # << >>
            OBVIOUS
        <4> DEFINE c == AuthChain(TRUE, a, TRUE)
        <4>1. c = <<"identity">> \o (IF a THEN <<"agents">> ELSE << >>) \o <<"password">>
              BY DEF AuthChain
        <4> HIDE DEF c
        <4>2. 1 \in DOMAIN c
              BY <4>1
        <4>3. DOMAIN << >> = {}
              OBVIOUS
        <4> QED BY <4>2, <4>3 DEF c
      <3>2. CASE Go(g, [Blank EXCEPT !.pc = "failed"])
            BY <3>2, <2>z DEF Fields
      <3>3. ASSUME NEW a \in BOOLEAN,
                   Go(g, [[proc[g] EXCEPT !.tty = {}] EXCEPT !.pc = "dial",
                                                    !.left = AuthChain(TRUE, a, TRUE)])
            PROVE  Fine
            BY <3>1, <3>3, <2>e, <2>y DEF Fields
      <3> QED BY <2>6, <3>2, <3>3 DEF PassphraseTyped
    <2>7. CASE Dial(g)
          BY <2>7, <2>b, <2>l, <2>y DEF Dial, Fields
    <2>8. CASE VerifyHostKey(g)
      <3>1. \/ AppendKey(g) \/ Fail(g) \/ Authenticate(g) \/ Exit(g, "refused")
            BY <2>8 DEF VerifyHostKey
      <3>2. AppendKey(g) => Fail(g) \/ Exit(g, "failed") \/ Authenticate(g)
            BY DEF AppendKey
      <3> QED BY <2>8, <3>1, <3>2, <2>a, <2>b, <2>c DEF VerifyHostKey, Over
    <2>9. CASE NoneAuth(g)
      <3> DEFINE left == proc[g].left
      <3>1. left \in Chains
            BY <2>9 DEF NoneAuth, Chained
      <3>2. PICK conns, live, takes :
               LET hand == (live \cap conns) \cup ({"identity"} \cap ToSet(left)) IN
               /\ "agents" \notin ToSet(left) => conns = {}
               /\ takes \subseteq hand
               /\ Go(g, [proc[g] EXCEPT !.pc = "offer", !.conns = conns, !.hand = hand,
                                        !.takes = takes])
            BY <2>9 DEF NoneAuth
      <3> DEFINE hand == (live \cap conns) \cup ({"identity"} \cap ToSet(left))
                 q == [proc[g] EXCEPT !.pc = "offer", !.conns = conns, !.hand = hand,
                                      !.takes = takes]
      <3>3. q.pc = "offer" /\ q.conns = conns /\ q.hand = hand /\ q.takes = takes /\ q.left = left
            BY DEF Fields
      <3> HIDE DEF q, left
      <3>4. "identity" \in hand \/ takes = {}
            \/ (Head(left) = "agents" /\ takes \subseteq hand /\ hand \subseteq conns)
            BY <3>1, <3>2, ChainHead
      <3>5. Chained(q)
            BY <3>3, <3>4 DEF Chained
      <3> QED BY <3>2, <3>5 DEF q
    <2>10. CASE OfferKeys(g)
      <3> DEFINE p == proc[g]
                 left == NextMethods(p.left)
                 keys == IF Head(p.left) = "agents" THEN Signers(p) ELSE {"identity"}
      <3>1. CASE keys \cap p.takes # {}
            BY <2>10, <3>1, <2>z DEF OfferKeys, Fields
      <3>2. CASE keys \cap p.takes = {}
        <4>1. "identity" \in p.hand \/ p.takes = {}
              BY <2>10, <3>2 DEF OfferKeys, Chained, Signers
        <4>2. Deny(g) \/ Go(g, [p EXCEPT !.left = left])
              BY <2>10, <3>2 DEF OfferKeys
        <4>3. ASSUME Go(g, [p EXCEPT !.left = left]) PROVE Fine
          <5> DEFINE q == [p EXCEPT !.left = left]
          <5>1. q.pc = "offer" /\ q.hand = p.hand /\ q.takes = p.takes
                BY <2>10 DEF OfferKeys, Fields
          <5> HIDE DEF q
          <5>2. Chained(q)
                BY <4>1, <5>1 DEF Chained
          <5> QED BY <4>3, <5>2 DEF q
        <4> QED BY <4>1, <4>2, <4>3, <2>d
      <3> QED BY <3>1, <3>2
    <2>11. CASE AskPassword(g)
      <3>1. "identity" \in proc[g].hand \/ proc[g].takes = {}
            BY <2>11 DEF AskPassword, Chained
      <3> QED BY <2>11, <3>1, <2>x DEF AskPassword, Fields
    <2>12. CASE PasswordTyped(g)
          BY <2>12, <2>d, <2>z DEF PasswordTyped, Chained, Fields
    <2>13. CASE ExecServer(g)
          BY <2>13, <2>b, <2>z DEF ExecServer, Fields
    <2>14. CASE Connect(g)
          BY <2>14, <2>b, <2>z DEF Connect, Fields
    <2>15. CASE MakeRaw(g)
          BY <2>15, <2>z DEF MakeRaw, Fields
    <2>16. CASE EndClient(g)
          BY <2>16, <2>z DEF EndClient, Fields
    <2>17. CASE Kill(g)
          BY <2>17, <2>a DEF Kill, Over
    <2> QED BY <1>2, <2>1, <2>2, <2>3, <2>4, <2>5, <2>6, <2>7, <2>8, <2>9, <2>10, <2>11,
               <2>12, <2>13, <2>14, <2>15, <2>16, <2>17 DEF Step
  <1> QED BY <1>1, <1>2 DEF Next

\* Without an identity file, authentication is denied only if no agent that
\* still answers has a key the server takes, however many agents there are and
\* whichever of them have died since they were dialled.
THEOREM AgentsAreAllAsked == Spec => []AgentsFallThrough
  <1>1. Init => ChainInv
    <2> SUFFICES ASSUME Init PROVE ChainInv
        OBVIOUS
    <2>1. ASSUME NEW g \in Gosh PROVE DOMAIN proc[g] = Fields /\ proc[g].pc = "stat"
      <3>1. PICK p \in Policies : proc[g] = [Blank EXCEPT !.policy = p]
            BY DEF Init
      <3> QED BY <3>1, BlankFields, BlankTerminal DEF Fields
    <2>2. DOMAIN proc = Gosh /\ DOMAIN file = {"exists", "sound", "lines", "newline"}
          BY DEF Init
    <2> QED BY <2>1, <2>2 DEF ChainInv, Shape, Chained
  <1>2. ChainInv => AgentsFallThrough
        BY DEF ChainInv, AgentsFallThrough, Chained
  <1>3. RecordInv => Shape
        BY DEF RecordInv
  <1> QED BY <1>1, <1>2, <1>3, ChainStep, RecordInvHolds, PTL DEF Spec

-----------------------------------------------------------------------------
(* Orders of algorithms *)

\* No element of s is in S.
Lacks(s, S) == \A i \in 1..Len(s) : s[i] \notin S

\* The first element of s that is in S is x.
Leads(s, S, x) ==
    \E i \in 1..Len(s) : s[i] = x /\ x \in S /\ \A j \in 1..i - 1 : s[j] \notin S

\* One element more.
LEMMA LeadsMore ==
  ASSUME NEW B, NEW s \in Seq(B), NEW c \in B, NEW S
  PROVE  /\ \A x : Leads(s, S, x) => Leads(Append(s, c), S, x)
         /\ Lacks(s, S) /\ c \in S => Leads(Append(s, c), S, c)
         /\ Lacks(s, S) /\ c \notin S => Lacks(Append(s, c), S)
<1> DEFINE t == Append(s, c)
           k == Len(s)
<1>1. k \in Nat /\ Len(t) = k + 1 /\ t[k + 1] = c /\ \A i \in 1..k : t[i] = s[i]
  BY LenProperties, AppendProperties
<1> HIDE DEF t, k
<1>2. ASSUME NEW x, Leads(s, S, x) PROVE Leads(t, S, x)
  <2>1. PICK i \in 1..k : s[i] = x /\ x \in S /\ \A j \in 1..i - 1 : s[j] \notin S
    BY <1>2 DEF Leads, k
  <2>2. i \in 1..k + 1 /\ \A j \in 1..i - 1 : j \in 1..k
    BY <1>1
  <2>3. t[i] = x /\ \A j \in 1..i - 1 : t[j] \notin S
    BY <1>1, <2>1, <2>2
  <2> QED BY <1>1, <2>1, <2>2, <2>3 DEF Leads
<1>3. ASSUME Lacks(s, S), c \in S PROVE Leads(t, S, c)
  <2>1. k + 1 \in 1..k + 1 /\ k + 1 - 1 = k
    BY <1>1
  <2>2. \A j \in 1..k : t[j] \notin S
    BY <1>1, <1>3 DEF Lacks, k
  <2> QED BY <1>1, <1>3, <2>1, <2>2 DEF Leads
<1>4. ASSUME Lacks(s, S), c \notin S PROVE Lacks(t, S)
  <2>1. \A i \in 1..k + 1 : i = k + 1 \/ i \in 1..k
    BY <1>1
  <2> QED BY <1>1, <1>4, <2>1 DEF Lacks, k
<1> QED BY <1>2, <1>3, <1>4 DEF t

\* One sequence after another.
LEMMA LeadsConcat ==
  ASSUME NEW B, NEW s \in Seq(B), NEW u \in Seq(B), NEW S
  PROVE  /\ s \o u \in Seq(B)
         /\ \A x : Leads(s, S, x) => Leads(s \o u, S, x)
         /\ \A x : Lacks(s, S) /\ Leads(u, S, x) => Leads(s \o u, S, x)
         /\ Lacks(s, S) /\ Lacks(u, S) => Lacks(s \o u, S)
<1> DEFINE t == s \o u
           k == Len(s)
           m == Len(u)
<1>1. /\ k \in Nat /\ m \in Nat /\ t \in Seq(B) /\ Len(t) = k + m
      /\ \A i \in 1..k : t[i] = s[i]
  BY LenProperties, ConcatProperties
<1>2. \A i \in 1..m : t[k + i] = u[i]
  <2> TAKE i \in 1..m
  <2>1. PICK n \in 1..k + m : n = k + i /\ ~(n <= k) /\ n - k = i
    BY <1>1
  <2>2. \A j \in 1..k + m : t[j] = IF j <= k THEN s[j] ELSE u[j - k]
    BY ConcatProperties
  <2> HIDE DEF t, k, m
  <2>3. t[n] = u[i]
    BY <2>1, <2>2
  <2> QED BY <2>1, <2>3
<1> HIDE DEF t, k, m
<1>3. ASSUME NEW x, Leads(s, S, x) PROVE Leads(t, S, x)
  <2>1. PICK i \in 1..k : s[i] = x /\ x \in S /\ \A j \in 1..i - 1 : s[j] \notin S
    BY <1>3 DEF Leads, k
  <2>2. i \in 1..k + m /\ \A j \in 1..i - 1 : j \in 1..k
    BY <1>1
  <2>3. t[i] = x /\ \A j \in 1..i - 1 : t[j] \notin S
    BY <1>1, <2>1, <2>2
  <2> QED BY <1>1, <2>1, <2>2, <2>3 DEF Leads
<1>4. \A n \in 1..k + m : n \in 1..k \/ \E j \in 1..m : n = k + j
  <2> TAKE n \in 1..k + m
  <2>1. n \in 1..k \/ (n - k \in 1..m /\ n = k + (n - k))
    BY <1>1
  <2> QED BY <2>1
<1>5. ASSUME NEW x, Lacks(s, S), Leads(u, S, x) PROVE Leads(t, S, x)
  <2>1. PICK i \in 1..m : u[i] = x /\ x \in S /\ \A j \in 1..i - 1 : u[j] \notin S
    BY <1>5 DEF Leads, m
  <2>2. PICK l \in 1..k + m : l = k + i
    BY <1>1
  <2>3. t[l] = x /\ l \in 1..Len(t)
    BY <1>1, <1>2, <2>1, <2>2
  <2>4. ASSUME NEW n \in 1..l - 1 PROVE t[n] \notin S
    <3>1. n \in 1..k + m
      BY <1>1
    <3>2. CASE n \in 1..k
      BY <1>1, <1>5, <3>2 DEF Lacks, k
    <3>3. ASSUME NEW j \in 1..m, n = k + j PROVE t[n] \notin S
      <4>1. j \in 1..i - 1
        BY <1>1, <2>2, <3>3
      <4> QED BY <1>2, <2>1, <3>3, <4>1
    <3> QED BY <1>4, <3>1, <3>2, <3>3
  <2> QED BY <2>1, <2>3, <2>4 DEF Leads
<1>6. ASSUME Lacks(s, S), Lacks(u, S) PROVE Lacks(t, S)
  <2> SUFFICES ASSUME NEW n \in 1..k + m PROVE t[n] \notin S
    BY <1>1 DEF Lacks
  <2>1. CASE n \in 1..k
    BY <1>1, <1>6, <2>1 DEF Lacks, k
  <2>2. ASSUME NEW j \in 1..m, n = k + j PROVE t[n] \notin S
    BY <1>2, <1>6, <2>2 DEF Lacks, m
  <2> QED BY <1>4, <2>1, <2>2
<1> QED BY <1>1, <1>3, <1>5, <1>6 DEF t

\* There is only one first element.
LEMMA LeadsOnce ==
  ASSUME NEW B, NEW s \in Seq(B), NEW S, NEW x, NEW y, Leads(s, S, x)
  PROVE  ~Lacks(s, S) /\ (Leads(s, S, y) => x = y) /\ x \in S /\ x \in B /\ x \in ToSet(s)
<1> DEFINE k == Len(s)
<1>1. k \in Nat /\ DOMAIN s = 1..k /\ \A i \in 1..k : s[i] \in B
  BY LenProperties, ElementOfSeq
<1> HIDE DEF k
<1>2. PICK i \in 1..k : s[i] = x /\ x \in S /\ \A j \in 1..i - 1 : s[j] \notin S
  BY DEF Leads, k
<1>3. ASSUME Leads(s, S, y) PROVE x = y
  <2>1. PICK n \in 1..k : s[n] = y /\ y \in S /\ \A j \in 1..n - 1 : s[j] \notin S
    BY <1>3 DEF Leads, k
  <2>2. i < n => i \in 1..n - 1
    BY <1>1
  <2>3. n < i => n \in 1..i - 1
    BY <1>1
  <2>4. i < n \/ n < i \/ n = i
    BY <1>1
  <2> QED BY <1>2, <2>1, <2>2, <2>3, <2>4
<1> QED BY <1>1, <1>2, <1>3 DEF Lacks, ToSet, k

\* Only of one element more.
OnlyGrows(s, c, T) ==
    Only(Append(s, c), T) = IF c \in T THEN Append(Only(s, T), c) ELSE Only(s, T)

\* Only, one element at a time.
LEMMA OnlyMore ==
  ASSUME NEW B, NEW s \in Seq(B), NEW c \in B, NEW T
  PROVE  Only(s, T) \in Seq(B) /\ OnlyGrows(s, c, T)
<1> DEFINE k == Len(s)
           C(x) == IF x \in T THEN <<x>> ELSE << >>
           a == [i \in 1..k |-> C(s[i])]
           t == Append(s, c)
           b == [i \in 1..k + 1 |-> C(t[i])]
           d == Append(a, C(c))
           Q == Seq(B)
<1>1. k \in Nat /\ \A i \in 1..k : s[i] \in B
  BY LenProperties, ElementOfSeq
<1>2. \A x \in B : C(x) \in Q
  BY EmptySeq
<1>3. Len(t) = k + 1 /\ t[k + 1] = c /\ \A i \in 1..k : t[i] = s[i]
  BY AppendProperties
<1> HIDE DEF C, Q, t, k
<1>4. a \in Seq(Q) /\ Len(a) = k /\ \A i \in 1..k : a[i] = C(s[i])
  BY <1>1, <1>2
<1> HIDE DEF a
<1>5. C(c) \in Q
  BY <1>2
<1>6. d \in Seq(Q) /\ Len(d) = k + 1 /\ d[k + 1] = C(c) /\ \A i \in 1..k : d[i] = a[i]
  BY <1>4, <1>5, AppendProperties
<1>7. \A i \in 1..k + 1 : t[i] \in B
  <2> TAKE i \in 1..k + 1
  <2>1. i = k + 1 \/ i \in 1..k
    BY <1>1
  <2> QED BY <1>1, <1>3, <2>1
<1>8. b \in Seq(Q) /\ Len(b) = k + 1 /\ \A i \in 1..k + 1 : b[i] = C(t[i])
  BY <1>1, <1>2, <1>7
<1> HIDE DEF b, d
<1>9. \A i \in 1..Len(b) : b[i] = d[i]
  <2> TAKE i \in 1..Len(b)
  <2>1. i \in 1..k + 1 /\ (i = k + 1 \/ i \in 1..k)
    BY <1>1, <1>8
  <2> QED BY <1>3, <1>4, <1>6, <1>8, <2>1
<1>10. b = d
  BY <1>6, <1>8, <1>9, SeqEqual
<1>11. Only(s, T) = FlattenSeq(a) /\ Only(t, T) = FlattenSeq(b)
  BY <1>3 DEF Only, a, b, C, k
<1>12. FlattenSeq(a) \in Seq(B) /\ FlattenSeq(Append(a, C(c))) = FlattenSeq(a) \o C(c)
  BY <1>4, <1>5, FlattenAppend DEF Q
<1>13. PICK f \in Seq(B) : f = FlattenSeq(a)
  BY <1>12
<1>14. f \o <<c>> = Append(f, c) /\ f \o << >> = f
  BY AppendIsConcat, ConcatEmptySeq
<1>15. Only(t, T) = f \o C(c) /\ Only(s, T) = f
  BY <1>10, <1>11, <1>12, <1>13 DEF d
<1>16. Only(t, T) = IF c \in T THEN Append(Only(s, T), c) ELSE Only(s, T)
  BY <1>14, <1>15 DEF C
<1> QED BY <1>13, <1>15, <1>16 DEF OnlyGrows, t

\* Of no algorithms, none.
LEMMA OnlyNone ==
  ASSUME NEW T
  PROVE  Only(<< >>, T) = << >>
<1> DEFINE a == [i \in 1..Len(<< >>) |-> IF << >>[i] \in T THEN << << >>[i] >> ELSE << >>]
<1>1. Len(<< >>) = 0
  OBVIOUS
<1>2. a = << >>
  BY <1>1
<1> HIDE DEF a
<1>3. FlattenSeq(a) = << >>
  BY <1>1, <1>2 DEF FlattenSeq
<1> QED BY <1>3 DEF Only, a

\* What comes first in S of those kept came first of all that are to be kept and
\* in S; or there is none of these.
Kept(s, T, S) ==
    \/ Lacks(s, T \cap S) /\ Lacks(Only(s, T), S)
    \/ \E x : Leads(s, T \cap S, x) /\ Leads(Only(s, T), S, x)

\* Only keeps the order.
LEMMA OnlyKeeps ==
  ASSUME NEW B, NEW s \in Seq(B), NEW T, NEW S
  PROVE  Kept(s, T, S) /\ Only(s, T) \in Seq(B)
<1> DEFINE p(n) == SubSeq(s, 1, n)
           Bad == {n \in 0..Len(s) : ~(Kept(p(n), T, S) /\ Only(p(n), T) \in Seq(B))}
<1>1. Len(s) \in Nat /\ p(Len(s)) = s /\ \A i \in 1..Len(s) : s[i] \in B
  BY LenProperties, ElementOfSeq
<1>2. Len(s) \in 0..Len(s)
  BY <1>1
<1> SUFFICES ASSUME Bad # {} PROVE FALSE
  BY <1>1, <1>2
<1>3. Bad \in SUBSET Nat
  BY <1>1
<1>4. PICK n \in Bad : \A m \in Bad : n <= m
  BY <1>3, NatHasLeast
<1>5. n \in 0..Len(s) /\ ~(Kept(p(n), T, S) /\ Only(p(n), T) \in Seq(B))
  BY <1>4
<1>6. CASE n = 0
  <2>1. p(n) = << >>
    BY <1>6
  <2>2. \A S1 : Lacks(<< >>, S1)
    BY DEF Lacks
  <2>3. Only(p(n), T) = << >> /\ << >> \in Seq(B)
    BY <2>1, OnlyNone, EmptySeq
  <2> HIDE DEF p
  <2>4. Kept(p(n), T, S)
    BY <2>1, <2>2, <2>3 DEF Kept
  <2> QED BY <1>5, <2>3, <2>4
<1>7. CASE n # 0
  <2>1. n - 1 \in 0..Len(s) /\ ~(n <= n - 1) /\ n \in 1..Len(s)
    BY <1>1, <1>5, <1>7
  <2> DEFINE q == p(n - 1)
             c == s[n]
  <2>2. Kept(q, T, S) /\ Only(q, T) \in Seq(B)
    <3>1. n - 1 \notin Bad
      <4> HIDE DEF Bad
      <4> QED BY <1>4, <2>1
    <3> QED BY <2>1, <3>1
  <2>3. p(n) = Append(q, c)
    <3>1. 1 \in 1..Len(s) /\ n \in 1..Len(s)
      BY <2>1
    <3> QED BY <3>1, CutMore
  <2>4. c \in B
    BY <1>1, <2>1
  <2>5. q \in Seq(B)
    <3>1. 1 \in Int /\ n - 1 \in Int /\ \A i \in 1..n - 1 : s[i] \in B
      BY <1>1, <2>1
    <3> QED BY <3>1, SubSeqProperties
  <2> HIDE DEF p, q, c
  <2>6. PICK r \in Seq(B) : r = Only(q, T)
    BY <2>2
  <2>7. PICK v : v = Append(q, c) /\ v \in Seq(B)
    BY <2>4, <2>5, AppendProperties
  <2>8. PICK w : w = Only(v, T)
    OBVIOUS
  <2>9. w = IF c \in T THEN Append(r, c) ELSE r
    <3>1. OnlyGrows(q, c, T)
      BY <2>4, <2>5, OnlyMore
    <3> QED BY <2>6, <2>7, <2>8, <3>1 DEF OnlyGrows
  <2>10. w \in Seq(B)
    BY <2>4, <2>6, <2>9, AppendProperties
  <2>11. CASE Lacks(q, T \cap S) /\ Lacks(r, S)
    <3>1. CASE c \in T \cap S
      <4>1. Leads(v, T \cap S, c) /\ Leads(w, S, c)
        BY <2>4, <2>5, <2>6, <2>7, <2>9, <2>11, <3>1, LeadsMore
      <4>2. Kept(v, T, S)
        BY <2>8, <4>1 DEF Kept
      <4> QED BY <1>5, <2>3, <2>7, <2>8, <2>10, <4>2
    <3>2. CASE c \notin T \cap S
      <4>1. Lacks(v, T \cap S)
        BY <2>4, <2>5, <2>7, <2>11, <3>2, LeadsMore
      <4>2. Lacks(w, S)
        <5>1. CASE c \in T
          BY <2>4, <2>6, <2>9, <2>11, <3>2, <5>1, LeadsMore
        <5>2. CASE c \notin T
          BY <2>9, <2>11, <5>2
        <5> QED BY <5>1, <5>2
      <4>3. Kept(v, T, S)
        BY <2>8, <4>1, <4>2 DEF Kept
      <4> QED BY <1>5, <2>3, <2>7, <2>8, <2>10, <4>3
    <3> QED BY <3>1, <3>2
  <2>12. ASSUME NEW x, Leads(q, T \cap S, x), Leads(r, S, x) PROVE FALSE
    <3>1. Leads(v, T \cap S, x)
      BY <2>4, <2>5, <2>7, <2>12, LeadsMore
    <3>2. Leads(w, S, x)
      <4>1. CASE c \in T
        BY <2>4, <2>6, <2>9, <2>12, <4>1, LeadsMore
      <4>2. CASE c \notin T
        BY <2>9, <2>12, <4>2
      <4> QED BY <4>1, <4>2
    <3>3. Kept(v, T, S)
      BY <2>8, <3>1, <3>2 DEF Kept
    <3> QED BY <1>5, <2>3, <2>7, <2>8, <2>10, <3>3
  <2> QED BY <2>2, <2>6, <2>11, <2>12 DEF Kept
<1> QED BY <1>6, <1>7

\* What Only leaves begins with what came first, if anything did.
LEMMA OnlyBegins ==
  ASSUME NEW B, NEW s \in Seq(B), NEW V
  PROVE  /\ Lacks(s, V) \/ \E x : Leads(s, V, x)
         /\ Lacks(s, V) => Only(s, V) = << >>
         /\ \A x : Leads(s, V, x) => Only(s, V) # << >> /\ Only(s, V)[1] = x
<1> DEFINE r == Only(s, V)
<1>1. Kept(s, V, V) /\ V \cap V = V /\ r \in Seq(B) /\ Kept(s, V, B) /\ Len(s) \in Nat
  BY OnlyKeeps, LenProperties
<1>2. Len(r) \in Nat /\ \A i \in 1..Len(r) : r[i] \in B
  BY <1>1, LenProperties, ElementOfSeq
<1>3. \A i \in 1..Len(s) : s[i] \in B
  BY ElementOfSeq
<1> HIDE DEF r
<1>4. Lacks(s, V) \/ \E x : Leads(s, V, x)
  BY <1>1 DEF Kept
<1>5. Lacks(s, V \cap B) => Lacks(s, V)
  BY <1>3 DEF Lacks
<1>6. \A x : Leads(s, V \cap B, x) => Leads(s, V, x)
  <2> SUFFICES ASSUME NEW x, Leads(s, V \cap B, x) PROVE Leads(s, V, x)
    OBVIOUS
  <2>1. PICK i \in 1..Len(s) : s[i] = x /\ x \in V \cap B /\ \A j \in 1..i - 1 : s[j] \notin V \cap B
    BY DEF Leads
  <2>2. \A j \in 1..i - 1 : j \in 1..Len(s)
    BY <1>1
  <2>3. \A j \in 1..i - 1 : s[j] \notin V
    BY <1>3, <2>1, <2>2
  <2> QED BY <2>1, <2>3 DEF Leads
<1>7. Lacks(r, B) => r = << >>
  <2> SUFFICES ASSUME Lacks(r, B) PROVE r = << >>
    OBVIOUS
  <2>1. Len(r) # 0 => 1 \in 1..Len(r)
    BY <1>2
  <2>2. Len(r) = 0
    BY <1>2, <2>1 DEF Lacks
  <2> QED BY <1>1, <2>2, EmptySeq
<1>8. \A x : Leads(r, B, x) => r # << >> /\ r[1] = x
  <2> SUFFICES ASSUME NEW x, Leads(r, B, x) PROVE r # << >> /\ r[1] = x
    OBVIOUS
  <2>1. PICK i \in 1..Len(r) : r[i] = x /\ \A j \in 1..i - 1 : r[j] \notin B
    BY DEF Leads
  <2>2. i # 1 => 1 \in 1..i - 1 /\ 1 \in 1..Len(r)
    BY <1>2
  <2>3. i = 1
    BY <1>2, <2>1, <2>2
  <2>4. Len(r) # 0
    BY <1>2
  <2> QED BY <2>1, <2>3, <2>4
<1>9. CASE Lacks(s, V)
  <2>1. ~\E x : Leads(s, V, x)
    BY <1>9, LeadsOnce
  <2>2. Lacks(r, B)
    BY <1>1, <1>6, <2>1 DEF Kept, r
  <2> QED BY <1>4, <1>7, <2>1, <2>2 DEF r
<1>10. ASSUME NEW x, Leads(s, V, x)
       PROVE  ~Lacks(s, V) /\ r # << >> /\ r[1] = x
  <2>1. ~Lacks(s, V)
    BY <1>10, LeadsOnce
  <2>2. PICK y : Leads(s, V \cap B, y) /\ Leads(r, B, y)
    BY <1>1, <1>5, <2>1 DEF Kept, r
  <2>3. x = y
    BY <1>6, <1>10, <2>2, LeadsOnce
  <2> QED BY <1>8, <2>1, <2>2, <2>3
<1> QED BY <1>4, <1>9, <1>10 DEF r

\* Those kept, seen from what was to be kept.
LEMMA OnlyLeads ==
  ASSUME NEW B, NEW s \in Seq(B), NEW T, NEW S
  PROVE  /\ Only(s, T) \in Seq(B)
         /\ Lacks(s, T \cap S) => Lacks(Only(s, T), S)
         /\ \A x : Leads(s, T \cap S, x) => Leads(Only(s, T), S, x)
<1>1. Kept(s, T, S) /\ Only(s, T) \in Seq(B)
  BY OnlyKeeps
<1>2. CASE Lacks(s, T \cap S) /\ Lacks(Only(s, T), S)
  <2>1. ASSUME NEW x, Leads(s, T \cap S, x) PROVE FALSE
    BY <1>2, <2>1, LeadsOnce
  <2> QED BY <1>1, <1>2, <2>1
<1>3. ASSUME NEW y, Leads(s, T \cap S, y), Leads(Only(s, T), S, y)
      PROVE  /\ Lacks(s, T \cap S) => Lacks(Only(s, T), S)
             /\ \A x : Leads(s, T \cap S, x) => Leads(Only(s, T), S, x)
  <2>1. ~Lacks(s, T \cap S)
    BY <1>3, LeadsOnce
  <2>2. ASSUME NEW x, Leads(s, T \cap S, x) PROVE x = y
    BY <1>3, <2>2, LeadsOnce
  <2> QED BY <1>3, <2>1, <2>2
<1> QED BY <1>1, <1>2, <1>3 DEF Kept

-----------------------------------------------------------------------------
(* Which host key is asked for *)

\* The orders are sequences of algorithms.
LEMMA OrdersTyped ==
  ASSUME NEW P, NEW lines
  PROVE  /\ CandidateHostKeyAlgorithms(P) \in Seq(Algorithm)
         /\ KnownHostKeyAlgorithms(lines) \in Seq(Algorithm)
<1>1. Supported \in Seq(Algorithm) /\ Insecure \in Seq(Algorithm) /\ Defaults \in Seq(Algorithm)
  BY OrderAssumption
<1>2. \A T : Only(Insecure, T) \in Seq(Algorithm)
  BY <1>1, OnlyLeads
<1>3. \A Q : CandidateHostKeyAlgorithms(Q) \in Seq(Algorithm)
  BY <1>1, <1>2, ConcatProperties DEF CandidateHostKeyAlgorithms
<1>4. ASSUME NEW s \in Seq(Algorithm), NEW Q PROVE Ranked(s, Q) \in Seq(Algorithm)
  <2>1. \A T : Only(s, T) \in Seq(Algorithm)
    BY OnlyLeads
  <2>2. \A a, b \in Seq(Algorithm) : a \o b \in Seq(Algorithm)
    BY ConcatProperties
  <2> QED BY <2>1, <2>2 DEF Ranked
<1> QED BY <1>1, <1>3, <1>4 DEF KnownHostKeyAlgorithms

\* The host key is the one of the first algorithm the server has.
LEMMA HostKeyIs ==
  ASSUME NEW order \in Seq(Algorithm), NEW server
  PROVE  /\ HostKey(order, server) = << >> \/ \E x \in DOMAIN server : HostKey(order, server) = <<server[x]>>
         /\ Lacks(order, DOMAIN server) => Negotiated(order, server) = << >>
         /\ \A x : Leads(order, DOMAIN server, x) =>
                /\ Negotiated(order, server) # << >> /\ Negotiated(order, server)[1] = x
                /\ HostKey(order, server) = <<server[x]>>
<1> DEFINE V == DOMAIN server
           n == Negotiated(order, server)
<1>1. n = Only(order, V)
  BY DEF Negotiated
<1> HIDE DEF n, V
<1>2. /\ Lacks(order, V) \/ \E x : Leads(order, V, x)
      /\ Lacks(order, V) => n = << >>
      /\ \A x : Leads(order, V, x) => n # << >> /\ n[1] = x
  BY <1>1, OnlyBegins
<1>3. HostKey(order, server) = IF n = << >> THEN << >> ELSE <<server[n[1]]>>
  BY DEF HostKey, n
<1>4. \A x : Leads(order, V, x) => HostKey(order, server) = <<server[x]>> /\ x \in V
  <2> SUFFICES ASSUME NEW x, Leads(order, V, x)
               PROVE  HostKey(order, server) = <<server[x]>> /\ x \in V
    OBVIOUS
  <2>1. x \in V
    BY LeadsOnce
  <2> QED BY <1>2, <1>3, <2>1
<1>5. HostKey(order, server) = << >> \/ \E x \in V : HostKey(order, server) = <<server[x]>>
  <2>1. CASE Lacks(order, V)
    BY <1>2, <1>3, <2>1
  <2>2. ASSUME NEW x, Leads(order, V, x) PROVE \E y \in V : HostKey(order, server) = <<server[y]>>
    BY <1>4, <2>2
  <2> QED BY <1>2, <2>1, <2>2
<1> QED BY <1>2, <1>4, <1>5 DEF n, V

\* The ranking goes through four parts in turn.
LEMMA RankedLeads ==
  ASSUME NEW C \in Seq(Algorithm), NEW P, NEW V
  PROVE  LET cert == {a \in ToSet(C) : a.cert}
             plain == {a \in ToSet(C) : ~a.cert}
         IN  /\ \A x : Leads(C, (cert \cap P) \cap V, x) => Leads(Ranked(C, P), V, x)
             /\ \A x : Lacks(C, (cert \cap P) \cap V) /\ Leads(C, (cert \ P) \cap V, x)
                       => Leads(Ranked(C, P), V, x)
             /\ \A x : /\ Lacks(C, (cert \cap P) \cap V) /\ Lacks(C, (cert \ P) \cap V)
                       /\ Leads(C, (plain \cap P) \cap V, x)
                       => Leads(Ranked(C, P), V, x)
<1> DEFINE cert == {a \in ToSet(C) : a.cert}
           plain == {a \in ToSet(C) : ~a.cert}
           a1 == Only(C, cert \cap P)
           a2 == Only(C, cert \ P)
           a3 == Only(C, plain \cap P)
           a4 == Only(C, plain \ P)
<1>1. Ranked(C, P) = ((a1 \o a2) \o a3) \o a4
  BY DEF Ranked
<1> HIDE DEF cert, plain
<1>2. a1 \in Seq(Algorithm) /\ a2 \in Seq(Algorithm) /\ a3 \in Seq(Algorithm) /\ a4 \in Seq(Algorithm)
  BY OnlyLeads
<1>3. /\ \A x : Leads(C, (cert \cap P) \cap V, x) => Leads(a1, V, x)
      /\ Lacks(C, (cert \cap P) \cap V) => Lacks(a1, V)
  BY OnlyLeads
<1>4. /\ \A x : Leads(C, (cert \ P) \cap V, x) => Leads(a2, V, x)
      /\ Lacks(C, (cert \ P) \cap V) => Lacks(a2, V)
  BY OnlyLeads
<1>5. \A x : Leads(C, (plain \cap P) \cap V, x) => Leads(a3, V, x)
  BY OnlyLeads
<1> HIDE DEF a1, a2, a3, a4
<1> DEFINE b == a1 \o a2
           c == b \o a3
           d == c \o a4
<1>6. /\ b \in Seq(Algorithm)
      /\ \A x : Leads(a1, V, x) => Leads(b, V, x)
      /\ \A x : Lacks(a1, V) /\ Leads(a2, V, x) => Leads(b, V, x)
      /\ Lacks(a1, V) /\ Lacks(a2, V) => Lacks(b, V)
  BY <1>2, LeadsConcat
<1> HIDE DEF b
<1>7. /\ c \in Seq(Algorithm)
      /\ \A x : Leads(b, V, x) => Leads(c, V, x)
      /\ \A x : Lacks(b, V) /\ Leads(a3, V, x) => Leads(c, V, x)
  BY <1>2, <1>6, LeadsConcat
<1> HIDE DEF c
<1>8. \A x : Leads(c, V, x) => Leads(d, V, x)
  BY <1>2, <1>7, LeadsConcat
<1>9. Ranked(C, P) = d
  BY <1>1 DEF b, c
<1> HIDE DEF d
<1>10. /\ \A x : Leads(C, (cert \cap P) \cap V, x) => Leads(Ranked(C, P), V, x)
       /\ \A x : Lacks(C, (cert \cap P) \cap V) /\ Leads(C, (cert \ P) \cap V, x)
                 => Leads(Ranked(C, P), V, x)
       /\ \A x : /\ Lacks(C, (cert \cap P) \cap V) /\ Lacks(C, (cert \ P) \cap V)
                 /\ Leads(C, (plain \cap P) \cap V, x)
                 => Leads(Ranked(C, P), V, x)
  BY <1>3, <1>4, <1>5, <1>6, <1>7, <1>8, <1>9
<1> QED BY <1>10 DEF cert, plain

\* What the default order would choose comes before all else the server has in
\* the candidates too, unless it is weak.
LEMMA DefaultLeads ==
  ASSUME NEW V, NEW d, Leads(Defaults, V, d), ~d.weak, NEW S, S \subseteq V, d \in S, NEW P
  PROVE  Leads(CandidateHostKeyAlgorithms(P), S, d)
<1>1. Supported \in Seq(Algorithm) /\ Insecure \in Seq(Algorithm) /\ Defaults \in Seq(Algorithm)
  BY OrderAssumption
<1> DEFINE m == Len(Supported)
           n == Len(Defaults)
<1>2. /\ m \in Nat /\ n \in Nat
      /\ ToSet(Supported) = {Supported[i] : i \in 1..m}
      /\ ToSet(Defaults) = {Defaults[i] : i \in 1..n}
  BY <1>1, LenProperties DEF ToSet
<1>3. \A i, j \in 1..m, k, l \in 1..n :
          k < l /\ Supported[i] = Defaults[k] /\ Supported[j] = Defaults[l] => i < j
  BY OrderAssumption
<1>4. PICK k \in 1..n : Defaults[k] = d /\ \A l \in 1..k - 1 : Defaults[l] \notin V
  BY DEF Leads
<1>5. d \in ToSet(Supported)
  <2>1. d \in ToSet(Defaults)
    BY <1>2, <1>4
  <2> QED BY <2>1, BootstrapAssumption, OrderAssumption
<1>6. PICK j \in 1..m : Supported[j] = d
  BY <1>2, <1>5
<1>7. ~Lacks(Supported, S)
  BY <1>6 DEF Lacks
<1>8. PICK x : Leads(Supported, S, x)
  BY <1>1, <1>7, OnlyBegins
<1>9. PICK i \in 1..m : Supported[i] = x /\ x \in S /\ \A h \in 1..i - 1 : Supported[h] \notin S
  BY <1>8 DEF Leads
<1>10. PICK l \in 1..n : Defaults[l] = x
  <2>1. x \in ToSet(Supported)
    BY <1>2, <1>9
  <2>2. x \in ToSet(Defaults)
    BY <2>1, BootstrapAssumption
  <2> QED BY <1>2, <2>2
<1> HIDE DEF m, n
<1>11. x = d
  <2>1. CASE l < k
    <3>1. l \in 1..k - 1
      BY <1>2, <2>1
    <3> QED BY <1>4, <1>9, <1>10, <3>1
  <2>2. CASE k < l
    <3>1. j < i
      BY <1>3, <1>4, <1>6, <1>9, <1>10, <2>2
    <3>2. j \in 1..i - 1
      BY <1>2, <3>1
    <3> QED BY <1>6, <1>9, <3>2
  <2>3. CASE k = l
    BY <1>4, <1>10, <2>3
  <2>4. l < k \/ k < l \/ k = l
    BY <1>2
  <2> QED BY <2>1, <2>2, <2>3, <2>4
<1>12. Only(Insecure, P) \in Seq(Algorithm)
  BY <1>1, OnlyLeads
<1>13. PICK r : r = Only(Insecure, P)
  OBVIOUS
<1>14. Leads(Supported \o r, S, d)
  BY <1>1, <1>8, <1>11, <1>12, <1>13, LeadsConcat
<1> QED BY <1>13, <1>14 DEF CandidateHostKeyAlgorithms

\* If the default order would choose a plain key, the server has no certificate.
LEMMA PlainDefault ==
  ASSUME NEW V, V \subseteq ToSet(Defaults), NEW d, Leads(Defaults, V, d), ~d.cert
  PROVE  \A a \in V : ~a.cert
<1> DEFINE n == Len(Defaults)
<1>1. n \in Nat /\ ToSet(Defaults) = {Defaults[i] : i \in 1..n}
  BY OrderAssumption, LenProperties DEF ToSet
<1>2. PICK k \in 1..n : Defaults[k] = d /\ \A l \in 1..k - 1 : Defaults[l] \notin V
  BY DEF Leads
<1>3. \A h, l \in 1..n : h < l /\ Defaults[l].cert => Defaults[h].cert
  BY OrderAssumption
<1> HIDE DEF n
<1> SUFFICES ASSUME NEW a \in V, a.cert PROVE FALSE
  OBVIOUS
<1>4. PICK l \in 1..n : Defaults[l] = a
  BY <1>1
<1>5. l < k => l \in 1..k - 1
  BY <1>1
<1>6. l < k \/ k < l \/ k = l
  BY <1>1
<1> QED BY <1>2, <1>3, <1>4, <1>5, <1>6

\* Every algorithm of a recorded type is a candidate.
LEMMA PreferredIsCandidate ==
  ASSUME NEW P, NEW a \in P, a \in ToSet(Defaults), NEW S, a \in S
  PROVE  ~Lacks(CandidateHostKeyAlgorithms(P), S) /\ a \in ToSet(CandidateHostKeyAlgorithms(P))
<1>1. Supported \in Seq(Algorithm) /\ Insecure \in Seq(Algorithm)
  BY OrderAssumption
<1> DEFINE r == Only(Insecure, P)
           c == Supported \o r
           m == Len(Supported)
           n == Len(r)
<1>2. r \in Seq(Algorithm)
  BY <1>1, OnlyLeads
<1>3. a \in ToSet(Insecure) => \E i \in 1..n : r[i] = a
  <2> SUFFICES ASSUME a \in ToSet(Insecure) PROVE \E i \in 1..n : r[i] = a
    OBVIOUS
  <2>1. PICK h \in 1..Len(Insecure) : Insecure[h] = a
    BY <1>1, LenProperties DEF ToSet
  <2>2. ~Lacks(Insecure, P \cap {a})
    BY <2>1 DEF Lacks
  <2>3. PICK x : Leads(Insecure, P \cap {a}, x)
    BY <1>1, <2>2, OnlyBegins
  <2>4. Leads(r, {a}, x)
    BY <1>1, <2>3, OnlyLeads
  <2> QED BY <2>4 DEF Leads
<1> HIDE DEF r
<1>4. m \in Nat /\ n \in Nat /\ c \in Seq(Algorithm) /\ Len(c) = m + n
      /\ \A j \in 1..m + n : c[j] = IF j <= m THEN Supported[j] ELSE r[j - m]
  BY <1>1, <1>2, LenProperties, ConcatProperties
<1> HIDE DEF c
<1>5. \E i \in 1..m + n : c[i] = a
  <2>1. CASE a \in ToSet(Supported)
    <3>1. PICK i \in 1..m : Supported[i] = a
      BY <1>1, <2>1, LenProperties DEF ToSet
    <3> HIDE DEF m, n
    <3>2. i \in 1..m + n /\ i <= m
      BY <1>4
    <3>3. c[i] = Supported[i]
      BY <1>4, <3>2
    <3> QED BY <3>1, <3>2, <3>3
  <2>2. CASE a \in ToSet(Insecure)
    <3>1. PICK i \in 1..n : r[i] = a
      BY <1>3, <2>2
    <3> HIDE DEF m, n
    <3>2. PICK j \in 1..m + n : j = m + i
      BY <1>4
    <3>3. ~(j <= m) /\ j - m = i
      BY <1>4, <3>2
    <3>4. c[j] = r[j - m]
      BY <1>4, <3>3
    <3> QED BY <3>1, <3>3, <3>4
  <2> QED BY <2>1, <2>2, BootstrapAssumption
<1>6. c = CandidateHostKeyAlgorithms(P)
  BY DEF c, r, CandidateHostKeyAlgorithms
<1>7. ~Lacks(c, S) /\ a \in ToSet(c)
  <2>1. DOMAIN c = 1..m + n
    BY <1>4, LenProperties
  <2> QED BY <1>4, <1>5, <2>1 DEF Lacks, ToSet
<1> QED BY <1>6, <1>7

\* Every line names a key there is.
Typed(lines) == \A l \in lines : <<l.id, l.type>> \in KeyTypes

\* Asking for what is recorded does not turn a host key that the default order
\* would have verified into one that is not: either the same is asked for, or
\* another certificate of the same authority.
LEMMA StillVerified ==
  ASSUME NEW lines, Typed(lines), NEW server \in Servers, NEW d,
         Leads(Defaults, DOMAIN server, d), ~d.weak, Verify(lines, server[d]) = "ok",
         \A a, b \in DOMAIN server : a.cert /\ b.cert => server[a].ca = server[b].ca
  PROVE  \E x \in DOMAIN server :
             /\ HostKey(KnownHostKeyAlgorithms(lines), server) = <<server[x]>>
             /\ Verify(lines, server[x]) = "ok"
<1> DEFINE V == DOMAIN server
           P == HostKeyAlgorithmsFor(RecordedHostKeyTypes(lines))
           C == CandidateHostKeyAlgorithms(P)
           R == KnownHostKeyAlgorithms(lines)
           cert == {a \in ToSet(C) : a.cert}
           plain == {a \in ToSet(C) : ~a.cert}
<1>1. Defaults \in Seq(Algorithm) /\ C \in Seq(Algorithm) /\ R \in Seq(Algorithm)
  BY OrderAssumption, OrdersTyped
<1>2. d \in V /\ d \in ToSet(Defaults) /\ V \subseteq ToSet(Defaults)
  BY <1>1, LeadsOnce, BootstrapAssumption
<1>3. R = IF P = {} THEN Defaults ELSE Ranked(C, P)
  BY DEF KnownHostKeyAlgorithms
<1>4. \A x : Leads(R, V, x) => HostKey(R, server) = <<server[x]>> /\ x \in V
  <2> SUFFICES ASSUME NEW x, Leads(R, V, x)
               PROVE  HostKey(R, server) = <<server[x]>> /\ x \in V
    OBVIOUS
  <2>1. HostKey(R, server) = <<server[x]>>
    BY <1>1, HostKeyIs
  <2>2. x \in V
    BY <1>1, LeadsOnce
  <2> QED BY <2>1, <2>2
<1>5. SUFFICES \E x : Leads(R, V, x) /\ Verify(lines, server[x]) = "ok"
  BY <1>4
<1>6. \A a \in V : server[a].type = a.type /\ (server[a].ca # "none" <=> a.cert)
  BY KeyAssumption
<1>7. d \in ToSet(C)
  <2>1. Leads(C, V, d)
    BY DefaultLeads, <1>2
  <2> QED BY <1>1, <2>1, LeadsOnce
<1>8. CASE P = {}
  BY <1>3, <1>8
<1> DEFINE V1 == (cert \cap P) \cap V
           V2 == (cert \ P) \cap V
           V3 == (plain \cap P) \cap V
<1>9. ASSUME P # {}
      PROVE  /\ \A x : Leads(C, V1, x) => Leads(R, V, x)
             /\ \A x : Lacks(C, V1) /\ Leads(C, V2, x) => Leads(R, V, x)
             /\ \A x : Lacks(C, V1) /\ Lacks(C, V2) /\ Leads(C, V3, x) => Leads(R, V, x)
  <2>1. R = Ranked(C, P)
    BY <1>3, <1>9
  <2> HIDE DEF R, C, P
  <2> QED BY <1>1, <2>1, RankedLeads
<1>10. \A S : S \subseteq V /\ d \in S => Leads(C, S, d)
  BY DefaultLeads
<1>11. V1 \subseteq V /\ V2 \subseteq V /\ V3 \subseteq V
       /\ \A a \in V1 : a.cert
  OBVIOUS
<1>12. d.cert /\ d \in P => d \in V1
  BY <1>2, <1>7
<1>13. d.cert /\ d \notin P => d \in V2
  BY <1>2, <1>7
<1>14. ~d.cert /\ d \in P => d \in V3
  BY <1>2, <1>7
<1>15. CASE P # {} /\ d.cert /\ d \in P
  BY <1>9, <1>10, <1>11, <1>12, <1>15
<1>16. CASE P # {} /\ d.cert /\ d \notin P
  <2>1. CASE Lacks(C, V1)
    BY <1>9, <1>10, <1>11, <1>13, <1>16, <2>1
  <2>2. CASE ~Lacks(C, V1)
    <3>1. PICK y : Leads(C, V1, y)
      <4> HIDE DEF C, V1
      <4> QED BY <1>1, <2>2, OnlyBegins
    <3>2. y \in V1
      <4> HIDE DEF C, V1
      <4> QED BY <1>1, <3>1, LeadsOnce
    <3>3. y \in V /\ y.cert
      BY <1>11, <3>2
    <3>4. server[y].ca = server[d].ca /\ server[y].ca # "none"
      BY <1>2, <1>6, <1>16, <3>3
    <3>5. Verify(lines, server[y]) = Verify(lines, server[d])
      BY <3>4 DEF Verify
    <3> QED BY <1>9, <1>16, <3>1, <3>5
  <2> QED BY <2>1, <2>2
<1>17. CASE ~d.cert
  <2>1. \A a \in V : ~a.cert
    BY <1>2, <1>17, PlainDefault
  <2>2. V1 = {} /\ V2 = {}
    BY <2>1
  <2>3. Lacks(C, V1) /\ Lacks(C, V2)
    BY <2>2 DEF Lacks
  <2>4. d \in P
    <3>1. server[d].ca = "none"
      BY <1>2, <1>6, <1>17
    <3>2. PICK l \in lines : l.id = server[d].id
      BY <3>1 DEF Verify
    <3>3. <<l.id, l.type>> \in KeyTypes
      BY DEF Typed
    <3>4. <<server[d].id, server[d].type>> \in KeyTypes
      BY <1>2 DEF KeyTypes
    <3>5. l.type = d.type
      <4>1. \A x, y \in KeyTypes : x[1] = y[1] => x[2] = y[2]
        BY KeyAssumption
      <4>2. PICK x \in KeyTypes : x = <<l.id, l.type>>
        BY <3>3
      <4>3. PICK y \in KeyTypes : y = <<server[d].id, server[d].type>>
        BY <3>4
      <4>4. x[1] = l.id /\ x[2] = l.type /\ y[1] = server[d].id /\ y[2] = server[d].type
        BY <4>2, <4>3
      <4> QED BY <1>2, <1>6, <3>2, <4>1, <4>4
    <3> QED BY <1>2, <3>5 DEF HostKeyAlgorithmsFor, RecordedHostKeyTypes
  <2>5. Leads(C, V3, d)
    BY <1>10, <1>11, <1>14, <1>17, <2>4
  <2>6. P # {}
    BY <2>4
  <2> QED BY <1>9, <2>3, <2>5, <2>6
<1> QED BY <1>8, <1>15, <1>16, <1>17

\* A server without certificates that has a recorded type is asked for one.
LEMMA RecordedIsAskedFor ==
  ASSUME NEW lines, NEW server \in Servers, \A a \in DOMAIN server : ~a.cert,
         NEW a \in DOMAIN server, a.type \in RecordedHostKeyTypes(lines)
  PROVE  \E x \in DOMAIN server :
             /\ HostKey(KnownHostKeyAlgorithms(lines), server) = <<server[x]>>
             /\ x.type \in RecordedHostKeyTypes(lines) /\ server[x].type = x.type
<1> DEFINE V == DOMAIN server
           P == HostKeyAlgorithmsFor(RecordedHostKeyTypes(lines))
           C == CandidateHostKeyAlgorithms(P)
           R == KnownHostKeyAlgorithms(lines)
           cert == {b \in ToSet(C) : b.cert}
           plain == {b \in ToSet(C) : ~b.cert}
           V1 == (cert \cap P) \cap V
           V2 == (cert \ P) \cap V
           V3 == (plain \cap P) \cap V
<1>1. C \in Seq(Algorithm) /\ R \in Seq(Algorithm)
  BY OrdersTyped
<1>2. V \subseteq ToSet(Defaults)
  BY BootstrapAssumption
<1>3. a \in P
  BY <1>2 DEF HostKeyAlgorithmsFor
<1>4. R = Ranked(C, P)
  BY <1>3 DEF KnownHostKeyAlgorithms
<1>5. V1 = {} /\ V2 = {}
  OBVIOUS
<1>6. Lacks(C, V1) /\ Lacks(C, V2)
  BY <1>5 DEF Lacks
<1>7. a \in ToSet(C)
  <2> HIDE DEF P
  <2> QED BY <1>2, <1>3, PreferredIsCandidate
<1>8. a \in V3
  BY <1>3, <1>7
<1>9. ~Lacks(C, V3)
  <2> HIDE DEF P, V3
  <2> QED BY <1>2, <1>3, <1>8, PreferredIsCandidate
<1>10. PICK x : Leads(C, V3, x)
  <2> HIDE DEF C, V3
  <2> QED BY <1>1, <1>9, OnlyBegins
<1>11. x \in V3
  <2> HIDE DEF C, V3
  <2> QED BY <1>1, <1>10, LeadsOnce
<1>12. Leads(R, V, x)
  <2> HIDE DEF R, C, P
  <2> QED BY <1>1, <1>4, <1>6, <1>10, RankedLeads
<1>13. HostKey(R, server) = <<server[x]>>
  <2> HIDE DEF R
  <2> QED BY <1>1, <1>12, HostKeyIs
<1>14. x \in V /\ x.type \in RecordedHostKeyTypes(lines)
  BY <1>11 DEF HostKeyAlgorithmsFor
<1>15. server[x].type = x.type
  BY <1>14, KeyAssumption
<1> QED BY <1>13, <1>14, <1>15

\* What a process read of known_hosts names keys there are, and the key it is
\* about to verify is the one its second reading led to.
Asked(p) ==
    /\ Typed(p.known)
    /\ p.pc = "verify" => /\ p.server \in Servers
                          /\ p.key = HostKey(KnownHostKeyAlgorithms(p.seen), p.server)

\* So it is for every process, and the file names keys there are.
AlarmInv == Shape /\ Typed(file.lines) /\ \A g \in Gosh : Asked(proc[g])

\* Nothing is read at first, and nothing verified.
LEMMA BlankAsked == Typed({}) /\ Blank.known = {} /\ Blank.pc = "stat"
  BY DEF Typed, Blank

\* A step of g to q, which is in order.
LEMMA AlarmGoes ==
    ASSUME AlarmInv, Shape', Typed(file'.lines), NEW g \in Gosh, NEW q, Go(g, q), Asked(q)
    PROVE  AlarmInv'
  <1>1. \A h \in Gosh : proc'[h] = IF h = g THEN q ELSE proc[h]
        BY DEF AlarmInv, Shape, Go
  <1>2. \A h \in Gosh : Asked(proc'[h])
        BY <1>1 DEF AlarmInv
  <1> QED BY <1>2 DEF AlarmInv, Asked, Typed

\* The key of a server names a key there is, and so does a line made of it.
LEMMA KeyIsTyped ==
    ASSUME NEW p, Asked(p), p.pc = "verify", p.key # << >>
    PROVE  <<p.key[1].id, p.key[1].type>> \in KeyTypes
  <1>1. p.server \in Servers /\ p.key = HostKey(KnownHostKeyAlgorithms(p.seen), p.server)
        BY DEF Asked
  <1>2. KnownHostKeyAlgorithms(p.seen) \in Seq(Algorithm)
        BY OrdersTyped
  <1>3. PICK x \in DOMAIN p.server : p.key = <<p.server[x]>>
        BY <1>1, <1>2, HostKeyIs
  <1>4. p.key[1] = p.server[x]
        BY <1>3
  <1>5. <<p.server[x].id, p.server[x].type>> \in KeyTypes
        BY <1>1 DEF KeyTypes
  <1> QED BY <1>4, <1>5

\* Every step preserves the invariant.
LEMMA AlarmStep == AlarmInv /\ Shape' /\ [Next]_vars => AlarmInv'
  <1> SUFFICES ASSUME AlarmInv, Shape', [Next]_vars PROVE AlarmInv'
      OBVIOUS
  <1>1. CASE UNCHANGED vars
        BY <1>1 DEF AlarmInv, Asked, Typed, vars
  <1>2. ASSUME NEW g \in Gosh, Step(g) PROVE AlarmInv'
    <2> DEFINE Fine == \E q : Go(g, q) /\ Asked(q)
               Quiet == UNCHANGED <<file, announced, mishaps>>
    <2>f. Typed(file.lines) /\ DOMAIN file = {"exists", "sound", "lines", "newline"}
        BY DEF AlarmInv, Shape
    <2>q. Quiet => Typed(file'.lines)
        BY <2>f
    <2> SUFFICES Fine /\ Typed(file'.lines)
        BY AlarmGoes
    <2> DOMAIN proc[g] = Fields /\ Asked(proc[g])
        BY DEF AlarmInv, Shape
    <2> USE BlankFields, BlankAsked
    <2>z. ASSUME NEW q, Go(g, q), q.pc # "verify", q.known = proc[g].known \/ q.known = {}
          PROVE  Fine
          BY <2>z DEF Asked
    <2>a. ASSUME NEW to, to # "verify", Exit(g, to) PROVE Fine
      <3> DEFINE q == [Blank EXCEPT !.pc = to, !.tty = proc[g].tty]
      <3>1. q.pc = to /\ q.known = {}
            BY DEF Fields
      <3> QED BY <2>a, <2>z, <3>1 DEF Exit
    <2>b. Fail(g) => Fine /\ Quiet
          BY <2>a DEF Fail
    <2>c. Authenticate(g) => Fine
          BY <2>z DEF Authenticate, Fields
    <2>d. Deny(g) => Fine
          BY <2>z DEF Deny, Fields
    <2>1. CASE Stat(g)
          BY <2>1, <2>b, <2>q, <2>z DEF Stat, Fields
    <2>2. CASE CreateFile(g)
      <3>1. CASE Fail(g)
            BY <3>1, <2>b, <2>q
      <3>2. CASE ~Fail(g)
        <4>1. file'.lines = {}
              BY <2>2, <3>2 DEF CreateFile
        <4>2. Go(g, [proc[g] EXCEPT !.pc = "read"])
              BY <2>2, <3>2 DEF CreateFile
        <4> QED BY <4>1, <4>2, <2>z DEF Fields
      <3> QED BY <3>1, <3>2
    <2>3. CASE ReadKnownHosts(g)
      <3>1. CASE Fail(g)
            BY <3>1, <2>b, <2>q
      <3>2. CASE ~Fail(g)
        <4> DEFINE q == [proc[g] EXCEPT !.pc = "auth methods", !.known = file.lines,
                                        !.before = announced \ Lost]
        <4>1. Go(g, q) /\ Quiet
              BY <2>3, <3>2 DEF ReadKnownHosts
        <4>2. q.pc = "auth methods" /\ q.known = file.lines
              BY DEF Fields
        <4> HIDE DEF q
        <4>3. Asked(q)
              BY <4>2, <2>f DEF Asked
        <4> QED BY <4>1, <4>3, <2>q
      <3> QED BY <3>1, <3>2
    <2>4. CASE AuthMethods(g)
          BY <2>4, <2>b, <2>q, <2>z DEF AuthMethods, Fields
    <2>5. CASE AskPassphrase(g)
          BY <2>5, <2>q, <2>z DEF AskPassphrase, Fields
    <2>6. CASE PassphraseTyped(g)
          BY <2>6, <2>q, <2>z DEF PassphraseTyped, Fields
    <2>7. CASE Dial(g)
      <3>1. CASE Fail(g)
            BY <3>1, <2>b, <2>q
      <3>2. CASE ~Fail(g)
        <4> DEFINE lines == IF proc[g].policy = "insecure" \/ ~file.sound THEN {} ELSE file.lines
        <4>1. PICK s \in Servers :
                 /\ Go(g, [proc[g] EXCEPT !.pc = "verify", !.seen = lines, !.server = s,
                                          !.key = HostKey(KnownHostKeyAlgorithms(lines), s)])
                 /\ Quiet
              BY <2>7, <3>2 DEF Dial
        <4> DEFINE k == HostKey(KnownHostKeyAlgorithms(lines), s)
                   q == [proc[g] EXCEPT !.pc = "verify", !.seen = lines, !.server = s, !.key = k]
        <4>2. Go(g, q)
              BY <4>1
        <4> HIDE DEF k, lines
        <4>3. q.pc = "verify" /\ q.known = proc[g].known /\ q.server = s /\ q.seen = lines /\ q.key = k
              BY DEF Fields
        <4> HIDE DEF q
        <4>4. Asked(q)
              BY <4>3 DEF Asked, k
        <4> QED BY <4>1, <4>2, <4>4, <2>q
      <3> QED BY <3>1, <3>2
    <2>8. CASE VerifyHostKey(g)
      <3>1. \/ AppendKey(g) /\ proc[g].key # << >> /\ proc[g].pc = "verify"
            \/ Fail(g)
            \/ ((Authenticate(g) \/ Exit(g, "refused")) /\ Quiet)
            BY <2>8 DEF VerifyHostKey
      <3>2. CASE AppendKey(g) /\ proc[g].key # << >> /\ proc[g].pc = "verify"
        <4> DEFINE l == [type |-> proc[g].key[1].type, id |-> proc[g].key[1].id, ca |-> FALSE]
        <4>1. <<l.id, l.type>> \in KeyTypes
              BY <3>2, KeyIsTyped
        <4>2. Fine
              BY <3>2, <2>a, <2>b, <2>c DEF AppendKey
        <4> HIDE DEF l
        <4>3. Quiet \/ file'.lines = file.lines \/ file'.lines = file.lines \cup {l}
          <5>1. ASSUME NEW sound, file' = [file EXCEPT !.sound = sound, !.newline = FALSE]
                PROVE  file'.lines = file.lines
                BY <5>1, <2>f
          <5>2. ASSUME file' = [file EXCEPT !.lines = @ \cup {l}, !.newline = FALSE]
                PROVE  file'.lines = file.lines \cup {l}
                BY <5>2, <2>f
          <5>3. ASSUME AppendLine(g, l)
                PROVE  file'.lines = file.lines \/ file'.lines = file.lines \cup {l}
                BY <5>3, <2>f DEF AppendLine
          <5>4. \/ Fail(g)
                \/ \E sound \in BOOLEAN : file' = [file EXCEPT !.sound = sound, !.newline = FALSE]
                \/ file' = [file EXCEPT !.lines = @ \cup {l}, !.newline = FALSE]
                \/ AppendLine(g, l)
                BY <3>2 DEF AppendKey, l
          <5> QED BY <5>1, <5>2, <5>3, <5>4, <2>b
        <4>4. Typed(file'.lines)
              BY <4>1, <4>3, <2>f DEF Typed
        <4> QED BY <4>2, <4>4
      <3> QED BY <3>1, <3>2, <2>a, <2>b, <2>c, <2>q
    <2>9. CASE NoneAuth(g)
      <3>1. Quiet /\ \E conns, hand, takes :
               Go(g, [proc[g] EXCEPT !.pc = "offer", !.conns = conns, !.hand = hand, !.takes = takes])
            BY <2>9 DEF NoneAuth
      <3> QED BY <3>1, <2>q, <2>z DEF Fields
    <2>10. CASE OfferKeys(g)
          BY <2>10, <2>d, <2>q, <2>z DEF OfferKeys, Fields
    <2>11. CASE AskPassword(g)
          BY <2>11, <2>q, <2>z DEF AskPassword, Fields
    <2>12. CASE PasswordTyped(g)
          BY <2>12, <2>d, <2>q, <2>z DEF PasswordTyped, Fields
    <2>13. CASE ExecServer(g)
          BY <2>13, <2>b, <2>q, <2>z DEF ExecServer, Fields
    <2>14. CASE Connect(g)
          BY <2>14, <2>b, <2>q, <2>z DEF Connect, Fields
    <2>15. CASE MakeRaw(g)
          BY <2>15, <2>q, <2>z DEF MakeRaw, Fields
    <2>16. CASE EndClient(g)
          BY <2>16, <2>q, <2>z DEF EndClient, Fields
    <2>17. CASE Kill(g)
          BY <2>17, <2>a, <2>q DEF Kill
    <2> QED BY <1>2, <2>1, <2>2, <2>3, <2>4, <2>5, <2>6, <2>7, <2>8, <2>9, <2>10, <2>11,
               <2>12, <2>13, <2>14, <2>15, <2>16, <2>17 DEF Step
  <1> QED BY <1>1, <1>2 DEF Next

\* A host key is refused only for a reason, whatever orders the library keeps as
\* long as they rank alike with certificates first (knownHostKeyAlgorithms).
THEOREM NoAlarmWithoutReason == Spec => []NoFalseAlarm
  <1>1. Init => AlarmInv
    <2> SUFFICES ASSUME Init PROVE AlarmInv
        OBVIOUS
    <2>1. ASSUME NEW g \in Gosh
          PROVE  DOMAIN proc[g] = Fields /\ proc[g].pc = "stat" /\ proc[g].known = {}
      <3>1. PICK p \in Policies : proc[g] = [Blank EXCEPT !.policy = p]
            BY DEF Init
      <3> QED BY <3>1, BlankFields, BlankAsked DEF Fields
    <2>2. DOMAIN proc = Gosh /\ DOMAIN file = {"exists", "sound", "lines", "newline"}
          BY DEF Init
    <2>3. Typed(file.lines)
      <3>1. file.lines = {} \/ file.lines \in Files
        <4>1. CASE file \in [exists : {TRUE}, sound : {TRUE}, lines : Files, newline : Endings]
              BY <4>1
        <4>2. CASE file = [exists |-> FALSE, sound |-> TRUE, lines |-> {}, newline |-> TRUE]
              BY <4>2
        <4> QED BY <4>1, <4>2 DEF Init
      <3> QED BY <3>1 DEF Typed, KeyTypes
    <2> QED BY <2>1, <2>2, <2>3, BlankAsked DEF AlarmInv, Shape, Asked
  <1>2. AlarmInv => NoFalseAlarm
    <2> SUFFICES ASSUME AlarmInv, NEW g \in Gosh, proc[g].pc = "verify", proc[g].seen = proc[g].known
                 PROVE
            LET p == proc[g]
                default == Negotiated(Defaults, p.server)
                ok == p.key # << >> /\ Verify(p.known, p.key[1]) = "ok"
                recorded == {a \in DOMAIN p.server : a.type \in RecordedHostKeyTypes(p.known)}
                oneAuthority == \A a, b \in DOMAIN p.server :
                                    a.cert /\ b.cert => p.server[a].ca = p.server[b].ca
            IN  /\ /\ default # << >> /\ ~default[1].weak /\ oneAuthority
                   /\ Verify(p.known, p.server[default[1]]) = "ok"
                   => ok
                /\ (\A a \in DOMAIN p.server : ~a.cert) /\ recorded # {}
                   => p.key # << >> /\ p.key[1].type \in {a.type : a \in recorded}
        BY DEF NoFalseAlarm
    <2> DEFINE p == proc[g]
               V == DOMAIN p.server
               lines == p.known
               default == Negotiated(Defaults, p.server)
    <2>1. Typed(lines) /\ p.server \in Servers
          /\ p.key = HostKey(KnownHostKeyAlgorithms(lines), p.server)
          BY DEF AlarmInv, Asked
    <2> HIDE DEF p
    <2>2. ASSUME default # << >>, ~default[1].weak, Verify(lines, p.server[default[1]]) = "ok",
                 \A a, b \in V : a.cert /\ b.cert => p.server[a].ca = p.server[b].ca
          PROVE  p.key # << >> /\ Verify(lines, p.key[1]) = "ok"
      <3>1. Defaults \in Seq(Algorithm)
            BY OrderAssumption
      <3>2. PICK d : Leads(Defaults, V, d)
            BY <2>2, <3>1, OnlyBegins, HostKeyIs
      <3>3. default[1] = d
            BY <3>1, <3>2, HostKeyIs
      <3>4. PICK x \in V : p.key = <<p.server[x]>> /\ Verify(lines, p.server[x]) = "ok"
            BY <2>1, <2>2, <3>2, <3>3, StillVerified
      <3> QED BY <3>4
    <2>3. ASSUME \A a \in V : ~a.cert, NEW b \in V, b.type \in RecordedHostKeyTypes(lines)
          PROVE  /\ p.key # << >>
                 /\ p.key[1].type \in {a.type : a \in {c \in V : c.type \in RecordedHostKeyTypes(lines)}}
      <3>1. PICK x \in V : /\ p.key = <<p.server[x]>>
                           /\ x.type \in RecordedHostKeyTypes(lines) /\ p.server[x].type = x.type
            BY <2>1, <2>3, RecordedIsAskedFor
      <3> QED BY <3>1
    <2> QED BY <2>2, <2>3 DEF p
  <1>3. RecordInv => Shape
        BY DEF RecordInv
  <1> QED BY <1>1, <1>2, <1>3, AlarmStep, RecordInvHolds, PTL DEF Spec

-----------------------------------------------------------------------------
(***** The clipboard filter                                               *****)

(* Items *)

\* What input and output are made of.  The union is STRING, but to the provers a
\* string literal is not known to be one.
Char == STRING \cup {"ESC", "]", "SEP", "c", "\\", "BEL", "^"}

\* The bytes that end a string.
Stops == {"BEL", "ESC", "CAN"}

\* Strings, and what the filter and the escapes write themselves.
LEMMA Strings == STRING \subseteq Char
BY DEF Char

\* The literals among them.
LEMMA Literals ==
  /\ "ESC" \in Char /\ "]" \in Char /\ "SEP" \in Char /\ "c" \in Char
  /\ "\\" \in Char /\ "BEL" \in Char /\ "^" \in Char
BY DEF Char

\* Short sequences.
LEMMA Singles == \A x, y \in Char : <<x>> \in Seq(Char) /\ <<x, y>> \in Seq(Char)
OBVIOUS

\* The first place in b..Len(s) where a string stops.
LEMMA StopFacts ==
  ASSUME NEW s, NEW b \in Nat \ {0}, Len(s) \in Nat
  PROVE  \/ Stop(s, b) = 0 /\ \A i \in b..Len(s) : s[i] \notin Stops
         \/ /\ Stop(s, b) \in b..Len(s) /\ s[Stop(s, b)] \in Stops /\ Stop(s, b) # 0
            /\ \A i \in b..Stop(s, b) - 1 : s[i] \notin Stops
<1> DEFINE stops == {i \in b..Len(s) : s[i] \in Stops}
<1>1. Stop(s, b) = IF stops = {} THEN 0 ELSE Min(stops)
  BY DEF Stop, Stops
<1>2. CASE stops = {}
  BY <1>1, <1>2
<1>3. CASE stops # {}
  <2>1. stops \in SUBSET Nat
    OBVIOUS
  <2>2. Min(stops) \in stops /\ \A i \in stops : Min(stops) <= i
    <3> HIDE DEF stops
    <3> QED BY <1>3, <2>1, MinNat
  <2> DEFINE e == Min(stops)
  <2>3. e \in b..Len(s) /\ s[e] \in Stops /\ Stop(s, b) = e
    BY <1>1, <1>3, <2>2
  <2>4. ASSUME NEW i \in b..e - 1, s[i] \in Stops
        PROVE  FALSE
    <3> HIDE DEF e
    <3>1. i \in stops /\ ~(e <= i)
      BY <2>3, <2>4
    <3> HIDE DEF stops
    <3> QED BY <2>2, <3>1 DEF e
  <2> HIDE DEF e
  <2>5. e # 0
    BY <2>3
  <2> QED BY <2>3, <2>4, <2>5
<1> QED BY <1>2, <1>3

\* A header ends at one place only.
LEMMA OneBodyStart ==
  ASSUME NEW s, NEW p \in Nat, NEW b \in BodyStarts(s, p), Len(s) \in Nat
  PROVE  BodyStarts(s, p) = {b} /\ Min(BodyStarts(s, p)) = b
<1>1. ASSUME NEW a \in BodyStarts(s, p), NEW d \in BodyStarts(s, p), a < d
      PROVE  FALSE
  <2>1. a \in p + 4..Len(s) + 1 /\ d \in p + 4..Len(s) + 1 /\ Header(s, p, a) /\ Header(s, p, d)
    BY DEF BodyStarts
  <2>4. s[a - 1] = "SEP" /\ \A i \in p + 2..d - 2 : s[i] \in Digits
    BY <2>1 DEF Header
  <2>2. a - 1 \in p + 2..d - 2
    BY <1>1, <2>1
  <2>3. "SEP" \in Digits
    BY <2>2, <2>4
  <2> QED BY <2>3 DEF Digits
<1>2. \A a \in BodyStarts(s, p) : a \in Nat
  BY DEF BodyStarts
<1>3. BodyStarts(s, p) = {b}
  <2> SUFFICES ASSUME NEW a \in BodyStarts(s, p) PROVE a = b
    OBVIOUS
  <2>1. a \in Nat /\ b \in Nat
    BY <1>2
  <2>2. ~(a < b) /\ ~(b < a)
    BY <1>1
  <2> QED BY <2>1, <2>2
<1>4. Min({b}) = b
  <2>1. {b} \in SUBSET Nat /\ {b} # {}
    BY <1>2
  <2> QED BY <2>1, MinNat
<1> QED BY <1>3, <1>4

\* What the policy lets through.
LEMMA AllowedType ==
  ASSUME NEW policy, NEW body \in Seq(Char), NEW term
  PROVE  Allowed(policy, body, term) \in Seq(Char)
<1> DEFINE seps  == {i \in 1..Len(body) : body[i] = "SEP"}
           query == \E i \in seps : i = Len(body) - 1 /\ body[i + 1] = "?" /\ Cardinality(seps) = 1
           fixed == IF 1 \in seps /\ ~query THEN <<"c">> \o body ELSE body
           ended == IF term = "ESC" THEN <<"ESC", "\\">> ELSE <<"BEL">>
           a == <<"ESC", "]">>
           d == <<"SEP">>
<1>1. a \in Seq(Char) /\ d \in Seq(Char) /\ ended \in Seq(Char) /\ <<"c">> \in Seq(Char)
  BY Literals, Singles
<1>2. NumberText \in Seq(Char)
  BY ScannerAssumption, Strings, SeqWiden
<1>3. fixed \in Seq(Char)
  <2> HIDE DEF seps, query
  <2> QED BY <1>1, ConcatProperties
<1>4. Allowed(policy, body, term) = IF policy = "Off" \/ (query /\ policy = "Write") THEN << >>
                                    ELSE a \o NumberText \o d \o fixed \o ended
  BY DEF Allowed
<1> HIDE DEF query, fixed, ended, a, d
<1>5. a \o NumberText \o d \o fixed \o ended \in Seq(Char)
  BY <1>1, <1>2, <1>3, ConcatProperties
<1> QED BY <1>4, <1>5, EmptySeq

\* An item lies within the input, and every item leads further.
LEMMA ItemType ==
  ASSUME NEW policy, NEW s \in Seq(Char), NEW p \in 1..Len(s), NEW rest \in BOOLEAN
  PROVE  /\ Item(policy, s, p, rest).out \in Seq(Char)
         /\ Item(policy, s, p, rest).next \in p + 1..Len(s) + 1
<1> DEFINE n == Len(s)
           b == Min(BodyStarts(s, p))
           e == Stop(s, b)
           all == SubSeq(s, p, n)
           body == SubSeq(s, b, e - 1)
           item == Item(policy, s, p, rest)
<1>1. n \in Nat /\ \A i \in 1..n : s[i] \in Char
  BY LenProperties, ElementOfSeq
<1>2. all \in Seq(Char)
  <2>1. \A i \in p..n : s[i] \in Char
    BY <1>1
  <2> QED BY <1>1, <2>1, SubSeqProperties
<1>3. << >> \in Seq(Char) /\ <<s[p]>> \in Seq(Char)
  BY <1>1, EmptySeq
<1>4. CASE BodyStarts(s, p) = {}
  <2>1. \/ item.out \in {all, << >>} /\ item.next = n + 1
        \/ item.out = <<s[p]>> /\ item.next = p + 1
    <3> HIDE DEF all, n
    <3> QED BY <1>4 DEF Item, n, all
  <2> HIDE DEF all, item, n
  <2>2. item.out \in Seq(Char)
    BY <1>2, <1>3, <2>1
  <2>3. item.next \in p + 1..n + 1
    BY <1>1, <2>1 DEF n
  <2> QED BY <2>2, <2>3 DEF item, n
<1>5. CASE BodyStarts(s, p) # {}
  <2>1. b \in BodyStarts(s, p)
    <3>1. BodyStarts(s, p) \in SUBSET Nat
      BY DEF BodyStarts
    <3> QED BY <1>5, <3>1, MinNat
  <2>2. b \in p + 4..n + 1
    <3> HIDE DEF b
    <3> QED BY <2>1 DEF BodyStarts
  <2>3. b \in Nat \ {0}
    BY <1>1, <2>2
  <2> HIDE DEF b
  <2>4. e = 0 \/ e \in b..n
    BY <1>1, <2>3, StopFacts
  <2>5. body \in Seq(Char)
    <3>1. e - 1 \in Int /\ \A i \in b..e - 1 : s[i] \in Char
      <4> HIDE DEF e
      <4> QED BY <1>1, <2>3, <2>4
    <3> HIDE DEF e
    <3> QED BY <2>3, <3>1, SubSeqProperties
  <2>6. Allowed(policy, body, s[e]) \in Seq(Char)
    <3> HIDE DEF body, e
    <3> QED BY <2>5, AllowedType
  <2>7. \/ item.out \in {all, << >>} /\ item.next = n + 1
        \/ e # 0 /\ item.out \in {Allowed(policy, body, s[e]), << >>} /\ item.next \in {e, e + 1}
        \/ e # 0 /\ e # n /\ item.out \in {Allowed(policy, body, s[e]), << >>} /\ item.next = e + 2
    <3> HIDE DEF n, all, e, body
    <3> QED BY <1>5 DEF Item, n, all, b, e, body
  <2> HIDE DEF all, item, e, body
  <2>8. item.out \in Seq(Char)
    BY <1>2, <1>3, <2>6, <2>7
  <2>9. item.next \in p + 1..n + 1
    BY <1>1, <2>2, <2>4, <2>7
  <2> QED BY <2>8, <2>9 DEF item
<1> QED BY <1>4, <1>5

\* x gives the output for what is left of s, item by item.
IsExpected(x, policy, s, rest) ==
    /\ x \in [0..Len(s) -> Seq(Char)]
    /\ x[0] = << >>
    /\ \A k \in 1..Len(s) :
           x[k] = Item(policy, s, Len(s) + 1 - k, rest).out
                    \o x[Len(s) + 1 - Item(policy, s, Len(s) + 1 - k, rest).next]
    /\ \A p \in 1..Len(s) + 1 : Expected(policy, s, p, rest) = x[Len(s) + 1 - p]

\* The output for what is left of s is defined by its items.
LEMMA ExpectedRun ==
  ASSUME NEW policy, NEW s \in Seq(Char), NEW rest \in BOOLEAN
  PROVE  \E x : IsExpected(x, policy, s, rest)
<1> DEFINE n == Len(s)
           O(k) == Item(policy, s, n + 1 - k, rest).out
           N(k) == n + 1 - Item(policy, s, n + 1 - k, rest).next
           piece == [k \in 1..n |-> O(k)]
           next == [k \in 1..n |-> N(k)]
           Eq(x) == x = [k \in 0..n |-> IF k = 0 THEN << >> ELSE O(k) \o x[N(k)]]
           X == CHOOSE x : Eq(x)
<1>1. n \in Nat
  BY LenProperties
<1>2. \A k \in 1..n : O(k) \in Seq(Char) /\ N(k) \in 0..k - 1
  <2> TAKE k \in 1..n
  <2> DEFINE p == n + 1 - k
             item == Item(policy, s, p, rest)
  <2>1. p \in 1..n
    BY <1>1
  <2>2. item.out \in Seq(Char) /\ item.next \in p + 1..n + 1
    <3> HIDE DEF p
    <3> QED BY <2>1, ItemType
  <2>3. n + 1 - item.next \in 0..k - 1
    <3> HIDE DEF item
    <3> QED BY <1>1, <2>2
  <2> QED BY <2>2, <2>3
<1> HIDE DEF O, N
<1>3. \E x : IsDescent(x, Char, n, piece, next)
  <2>1. \A k \in 1..n : piece[k] \in Seq(Char) /\ next[k] \in 0..k - 1
    BY <1>2
  <2> HIDE DEF piece, next, n
  <2> QED BY <1>1, <2>1, Descends
<1>4. PICK g : IsDescent(g, Char, n, piece, next)
  BY <1>3
<1>5. /\ g \in [0..n -> Seq(Char)] /\ g[0] = << >>
      /\ \A k \in 1..n : g[k] = O(k) \o g[N(k)]
  <2>1. \A k \in 1..n : piece[k] = O(k) /\ next[k] = N(k)
    OBVIOUS
  <2> HIDE DEF piece, next, n
  <2> QED BY <1>4, <2>1 DEF IsDescent
<1> HIDE DEF piece, next
<1>6. Eq(g)
  <2>1. g = [k \in 0..n |-> g[k]]
    BY <1>5
  <2>2. \A k \in 0..n : g[k] = IF k = 0 THEN << >> ELSE O(k) \o g[N(k)]
    <3> TAKE k \in 0..n
    <3>1. k # 0 => k \in 1..n
      BY <1>1
    <3> QED BY <1>5, <3>1
  <2> HIDE DEF n
  <2> QED BY <2>1, <2>2
<1>7. Eq(X)
  <2> HIDE DEF Eq
  <2> QED BY <1>6
<1>8. \A k \in 0..n : X[k] = IF k = 0 THEN << >> ELSE O(k) \o X[N(k)]
  <2> HIDE DEF X, n
  <2> QED BY <1>7
<1>9. ASSUME NEW p \in 1..n + 1
      PROVE  Expected(policy, s, p, rest) = X[n + 1 - p]
  BY DEF Expected, O, N
<1> HIDE DEF X
<1>10. \A k \in 0..n : X[k] = g[k]
  <2> DEFINE Bad == {k \in 0..n : X[k] # g[k]}
  <2> SUFFICES ASSUME Bad # {} PROVE FALSE
    OBVIOUS
  <2>1. Bad \in SUBSET Nat
    BY <1>1
  <2>2. PICK k \in Bad : \A j \in Bad : k <= j
    BY <2>1, NatHasLeast
  <2>3. k \in 0..n /\ X[k] # g[k]
    BY <2>2
  <2>4. CASE k = 0
    BY <1>5, <1>8, <2>3, <2>4
  <2>5. CASE k # 0
    <3>1. k \in 1..n
      BY <1>1, <2>3, <2>5
    <3>2. N(k) \in 0..k - 1
      BY <1>2, <3>1
    <3>3. N(k) \in 0..n /\ ~(k <= N(k))
      BY <1>1, <3>1, <3>2
    <3>4. X[N(k)] = g[N(k)]
      BY <2>2, <3>3
    <3> QED BY <1>5, <1>8, <2>3, <2>5, <3>1, <3>4
  <2> QED BY <2>4, <2>5
<1>11. \A p \in 1..n + 1 : Expected(policy, s, p, rest) = g[n + 1 - p]
  <2> TAKE p \in 1..n + 1
  <2>1. n + 1 - p \in 0..n
    BY <1>1
  <2> QED BY <1>9, <1>10, <2>1
<1>12. IsExpected(g, policy, s, rest)
  BY <1>5, <1>11 DEF O, N, IsExpected
<1> QED BY <1>12

\* Item by item, down to the end of the input.
LEMMA ExpectedStep ==
  ASSUME NEW policy, NEW s \in Seq(Char), NEW rest \in BOOLEAN
  PROVE  /\ \A p \in 1..Len(s) + 1 : Expected(policy, s, p, rest) \in Seq(Char)
         /\ Expected(policy, s, Len(s) + 1, rest) = << >>
         /\ \A p \in 1..Len(s) :
                Expected(policy, s, p, rest) =
                    Item(policy, s, p, rest).out
                      \o Expected(policy, s, Item(policy, s, p, rest).next, rest)
<1> DEFINE n == Len(s)
<1>1. n \in Nat
  BY LenProperties
<1>2. PICK x \in [0..n -> Seq(Char)] :
            /\ x[0] = << >>
            /\ \A k \in 1..n :
                   x[k] = Item(policy, s, n + 1 - k, rest).out
                            \o x[n + 1 - Item(policy, s, n + 1 - k, rest).next]
            /\ \A p \in 1..n + 1 : Expected(policy, s, p, rest) = x[n + 1 - p]
  <2>1. PICK x : IsExpected(x, policy, s, rest)
    BY ExpectedRun
  <2> QED BY <2>1 DEF IsExpected
<1>3. \A p \in 1..n + 1 : Expected(policy, s, p, rest) \in Seq(Char)
  <2> TAKE p \in 1..n + 1
  <2>1. n + 1 - p \in 0..n
    BY <1>1
  <2> QED BY <1>2, <2>1
<1>4. Expected(policy, s, n + 1, rest) = << >>
  <2>1. n + 1 \in 1..n + 1 /\ n + 1 - (n + 1) = 0
    BY <1>1
  <2> QED BY <1>2, <2>1
<1>5. ASSUME NEW p \in 1..n
      PROVE  Expected(policy, s, p, rest) =
                 Item(policy, s, p, rest).out
                   \o Expected(policy, s, Item(policy, s, p, rest).next, rest)
  <2> DEFINE item == Item(policy, s, p, rest)
             k == n + 1 - p
  <2>1. k \in 1..n /\ p \in 1..n + 1 /\ n + 1 - k = p
    BY <1>1
  <2>2. item.next \in 1..n + 1
    <3>1. item.next \in p + 1..n + 1
      BY ItemType
    <3> HIDE DEF item
    <3> QED BY <1>1, <3>1
  <2>3. x[k] = item.out \o x[n + 1 - item.next]
    <3> HIDE DEF k, n
    <3> QED BY <1>2, <2>1
  <2>4. Expected(policy, s, p, rest) = x[k]
        /\ Expected(policy, s, item.next, rest) = x[n + 1 - item.next]
    <3> HIDE DEF item
    <3> QED BY <1>2, <2>1, <2>2
  <2> HIDE DEF k
  <2> QED BY <2>3, <2>4
<1> QED BY <1>3, <1>4, <1>5

-----------------------------------------------------------------------------
(* However the input goes on *)

\* t is s and possibly more.
Extends(t, s) == t \in Seq(Char) /\ Len(s) <= Len(t) /\ \A i \in 1..Len(s) : t[i] = s[i]

\* Whatever follows s, the output for what is before position q is o.
Settled(policy, s, q, o) ==
    \A t \in Seq(Char), rest \in BOOLEAN :
        Extends(t, s) => Expected(policy, t, 1, rest) = o \o Expected(policy, t, q, rest)

\* Whatever follows s, its item at q yields x and ends before r.
Yields(policy, s, q, x, r) ==
    \A t \in Seq(Char), rest \in BOOLEAN :
        Extends(t, s) => Item(policy, t, q, rest).out = x /\ Item(policy, t, q, rest).next = r

\* What is settled stays settled.
LEMMA SettledGrows ==
  ASSUME NEW policy, NEW s \in Seq(Char), NEW s2 \in Seq(Char), Extends(s2, s), NEW q, NEW o,
         Settled(policy, s, q, o)
  PROVE  Settled(policy, s2, q, o)
<1> SUFFICES ASSUME NEW t \in Seq(Char), NEW rest \in BOOLEAN, Extends(t, s2)
             PROVE  Expected(policy, t, 1, rest) = o \o Expected(policy, t, q, rest)
  BY DEF Settled
<1>1. Len(s) \in Nat /\ Len(s2) \in Nat /\ Len(t) \in Nat
  BY LenProperties
<1>2. Extends(t, s)
  BY <1>1 DEF Extends
<1> QED BY <1>2 DEF Settled

\* An item more is settled.
LEMMA SettledMoves ==
  ASSUME NEW policy, NEW s \in Seq(Char), NEW q \in 1..Len(s), NEW o \in Seq(Char),
         NEW x \in Seq(Char), NEW r \in 1..Len(s) + 1,
         Settled(policy, s, q, o), Yields(policy, s, q, x, r)
  PROVE  Settled(policy, s, r, o \o x)
<1> SUFFICES ASSUME NEW t \in Seq(Char), NEW rest \in BOOLEAN, Extends(t, s)
             PROVE  Expected(policy, t, 1, rest) = (o \o x) \o Expected(policy, t, r, rest)
  BY DEF Settled
<1> DEFINE z == Expected(policy, t, r, rest)
           y == Expected(policy, t, q, rest)
<1>1. Len(s) \in Nat /\ Len(t) \in Nat /\ Len(s) <= Len(t)
  BY LenProperties DEF Extends
<1>2. q \in 1..Len(t) /\ r \in 1..Len(t) + 1
  BY <1>1
<1>3. z \in Seq(Char)
  BY <1>2, ExpectedStep
<1>4. y = x \o z
  <2>1. Item(policy, t, q, rest).out = x /\ Item(policy, t, q, rest).next = r
    BY DEF Yields
  <2>2. y = Item(policy, t, q, rest).out \o Expected(policy, t, Item(policy, t, q, rest).next, rest)
    BY <1>2, ExpectedStep
  <2> QED BY <2>1, <2>2
<1>5. Expected(policy, t, 1, rest) = o \o y
  BY DEF Settled
<1> HIDE DEF y, z
<1>6. (o \o x) \o z = o \o (x \o z)
  <2>1. Regroups(o, x, z)
    BY <1>3, ConcatRegroups
  <2> QED BY <2>1 DEF Regroups
<1> QED BY <1>4, <1>5, <1>6 DEF z

\* The same bytes from m to n.
CutAlike(t, s, m, n) == SubSeq(t, m, n) = SubSeq(s, m, n) /\ SubSeq(s, m, n) \in Seq(Char)

\* The same bytes cut the same way.
LEMMA SameCut ==
  ASSUME NEW s \in Seq(Char), NEW t \in Seq(Char), Extends(t, s),
         NEW m \in Nat \ {0}, NEW n \in Int, n <= Len(s)
  PROVE  CutAlike(t, s, m, n)
<1>1. Len(s) \in Nat /\ Len(t) \in Nat /\ Len(s) <= Len(t) /\ \A i \in 1..Len(s) : t[i] = s[i]
  BY LenProperties DEF Extends
<1>2. \A i \in m..n : i \in 1..Len(s) /\ i \in 1..Len(t)
  BY <1>1
<1>3. \A i \in m..n : s[i] \in Char /\ t[i] \in Char /\ t[i] = s[i]
  BY <1>1, <1>2, ElementOfSeq
<1> DEFINE a == SubSeq(s, m, n)
           b == SubSeq(t, m, n)
<1>7. /\ a \in Seq(Char) /\ Len(a) = (IF m <= n THEN n - m + 1 ELSE 0)
      /\ \A i \in 1..n - m + 1 : a[i] = s[m + i - 1]
  BY <1>3, SubSeqProperties
<1>8. /\ b \in Seq(Char) /\ Len(b) = (IF m <= n THEN n - m + 1 ELSE 0)
      /\ \A i \in 1..n - m + 1 : b[i] = t[m + i - 1]
  BY <1>3, SubSeqProperties
<1>4. a \in Seq(Char) /\ b \in Seq(Char) /\ Len(a) = Len(b)
      /\ Len(a) = (IF m <= n THEN n - m + 1 ELSE 0)
      /\ \A i \in 1..n - m + 1 : a[i] = s[m + i - 1] /\ b[i] = t[m + i - 1]
  <2> HIDE DEF a, b
  <2> QED BY <1>7, <1>8
<1>5. \A i \in 1..Len(a) : a[i] = b[i]
  <2> TAKE i \in 1..Len(a)
  <2> HIDE DEF a, b
  <2>1. i \in 1..n - m + 1 /\ m + i - 1 \in m..n
    BY <1>4
  <2> QED BY <1>3, <1>4, <2>1
<1> HIDE DEF a, b
<1>6. a = b
  BY <1>4, <1>5, SeqEqual
<1> QED BY <1>4, <1>6 DEF a, b, CutAlike

\* A header is one however the input goes on.
LEMMA SameHeader ==
  ASSUME NEW s \in Seq(Char), NEW t \in Seq(Char), Extends(t, s),
         NEW q \in Nat \ {0}, NEW b \in q + 4..Len(s) + 1
  PROVE  Header(t, q, b) <=> Header(s, q, b)
<1>1. Len(s) \in Nat /\ \A i \in 1..Len(s) : t[i] = s[i]
  BY LenProperties DEF Extends
<1>2. q \in 1..Len(s) /\ q + 1 \in 1..Len(s) /\ b - 1 \in 1..Len(s)
      /\ \A i \in q + 2..b - 2 : i \in 1..Len(s)
  BY <1>1
<1>3. t[q] = s[q] /\ t[q + 1] = s[q + 1] /\ t[b - 1] = s[b - 1]
      /\ \A i \in q + 2..b - 2 : t[i] = s[i]
  BY <1>1, <1>2
<1>4. SubSeq(t, q + 2, b - 2) = SubSeq(s, q + 2, b - 2)
  <2>1. q + 2 \in Nat \ {0} /\ b - 2 \in Int /\ b - 2 <= Len(s)
    BY <1>1
  <2>2. CutAlike(t, s, q + 2, b - 2)
    BY <2>1, SameCut
  <2> QED BY <2>2 DEF CutAlike
<1> QED BY <1>3, <1>4 DEF Header

\* Once complete, a header begins its body at b whatever follows.
LEMMA SameBodyStart ==
  ASSUME NEW s \in Seq(Char), NEW t \in Seq(Char), Extends(t, s),
         NEW q \in Nat \ {0}, NEW b \in BodyStarts(s, q)
  PROVE  BodyStarts(t, q) = {b} /\ Min(BodyStarts(t, q)) = b
<1>1. Len(s) \in Nat /\ Len(t) \in Nat /\ Len(s) <= Len(t)
  BY LenProperties DEF Extends
<1>2. b \in q + 4..Len(s) + 1 /\ Header(s, q, b)
  BY DEF BodyStarts
<1>3. Header(t, q, b)
  BY <1>2, SameHeader
<1>4. b \in BodyStarts(t, q)
  <2>1. b \in q + 4..Len(t) + 1
    BY <1>1, <1>2
  <2> QED BY <1>3, <2>1 DEF BodyStarts
<1> QED BY <1>1, <1>4, OneBodyStart

\* Once it has stopped, a string stops at e whatever follows.
LEMMA SameStop ==
  ASSUME NEW s \in Seq(Char), NEW t \in Seq(Char), Extends(t, s),
         NEW b \in Nat \ {0}, NEW e \in b..Len(s), s[e] \in Stops,
         \A i \in b..e - 1 : s[i] \notin Stops
  PROVE  Stop(t, b) = e
<1>1. Len(s) \in Nat /\ Len(t) \in Nat /\ Len(s) <= Len(t) /\ \A i \in 1..Len(s) : t[i] = s[i]
  BY LenProperties DEF Extends
<1> DEFINE d == Stop(t, b)
<1>2. \/ d = 0 /\ \A i \in b..Len(t) : t[i] \notin Stops
      \/ /\ d \in b..Len(t) /\ t[d] \in Stops /\ d # 0
         /\ \A i \in b..d - 1 : t[i] \notin Stops
  BY <1>1, StopFacts
<1> HIDE DEF d
<1>3. e \in b..Len(t) /\ t[e] \in Stops /\ \A i \in b..e - 1 : t[i] \notin Stops
  BY <1>1
<1>4. ~(e \in b..d - 1) /\ (d \in b..Len(t) => ~(d \in b..e - 1)) /\ d # 0
  BY <1>2, <1>3
<1> QED BY <1>1, <1>2, <1>4 DEF d

-----------------------------------------------------------------------------
(* What is not a header *)

\* v gives the number that the first digits of ds stand for.
IsValue(v, ds) ==
    /\ v \in [0..Len(ds) -> Int]
    /\ v[0] = 0 /\ \A i \in 1..Len(ds) : v[i] = 10 * v[i - 1] + DigitValue(ds[i])
    /\ Value(ds) = v[Len(ds)]

\* A digit stands for a number.
LEMMA DigitType == \A c \in Digits : DigitValue(c) \in Int
BY DEF Digits, DigitValue

\* The value of digits is computed from the left.
LEMMA ValueRun ==
  ASSUME NEW ds \in Seq(Digits)
  PROVE  \E v : IsValue(v, ds)
<1> DEFINE n == Len(ds)
           D(i) == DigitValue(ds[i])
           step == [a \in Nat \X Int |-> IF a[1] + 1 \in 1..n THEN 10 * a[2] + D(a[1] + 1) ELSE 0]
           Eq(v) == v = [i \in 0..n |-> IF i = 0 THEN 0 ELSE 10 * v[i - 1] + D(i)]
           V == CHOOSE v : Eq(v)
<1>1. n \in Nat /\ \A i \in 1..n : D(i) \in Int
  BY LenProperties, ElementOfSeq, DigitType
<1>2. Value(ds) = V[n]
  BY DEF Value
<1> HIDE DEF D, n
<1>3. step \in [Nat \X Int -> Int]
  <2> SUFFICES ASSUME NEW a \in Nat \X Int
               PROVE  (IF a[1] + 1 \in 1..n THEN 10 * a[2] + D(a[1] + 1) ELSE 0) \in Int
    OBVIOUS
  <2>1. a[1] \in Nat /\ a[2] \in Int
    OBVIOUS
  <2> QED BY <1>1, <2>1
<1> HIDE DEF step
<1>13. 0 \in Int
  OBVIOUS
<1>4. PICK g : IsIteration(g, Int, 0, step, n)
  <2> HIDE DEF Eq, V
  <2> QED BY <1>1, <1>3, <1>13, Iterates
<1>5. g \in [0..n -> Int] /\ g[0] = 0 /\ \A i \in 0..n - 1 : g[i + 1] = step[<<i, g[i]>>]
  BY <1>4 DEF IsIteration
<1>6. ASSUME NEW i \in 1..n
      PROVE  g[i] = 10 * g[i - 1] + D(i)
  <2>1. i - 1 \in 0..n - 1 /\ i - 1 \in 0..n /\ i - 1 \in Nat /\ (i - 1) + 1 = i
    BY <1>1
  <2>2. g[i - 1] \in Int
    BY <1>5, <2>1
  <2>3. g[i] = step[<<i - 1, g[i - 1]>>]
    BY <1>5, <2>1
  <2>4. step[<<i - 1, g[i - 1]>>] = 10 * g[i - 1] + D((i - 1) + 1)
    BY <2>1, <2>2 DEF step
  <2> QED BY <2>1, <2>3, <2>4
<1>7. Eq(g)
  <2>1. g = [i \in 0..n |-> g[i]]
    BY <1>5
  <2>2. \A i \in 0..n : g[i] = IF i = 0 THEN 0 ELSE 10 * g[i - 1] + D(i)
    <3> TAKE i \in 0..n
    <3>1. i # 0 => i \in 1..n
      BY <1>1
    <3> QED BY <1>5, <1>6, <3>1
  <2> QED BY <2>1, <2>2
<1>8. Eq(V)
  <2> HIDE DEF Eq
  <2> QED BY <1>7
<1>9. \A i \in 0..n : V[i] = IF i = 0 THEN 0 ELSE 10 * V[i - 1] + D(i)
  <2> HIDE DEF V
  <2> QED BY <1>8
<1> HIDE DEF V
<1>10. \A i \in 0..n : V[i] = g[i]
  <2> DEFINE Bad == {i \in 0..n : V[i] # g[i]}
  <2> SUFFICES ASSUME Bad # {} PROVE FALSE
    OBVIOUS
  <2>1. Bad \in SUBSET Nat
    BY <1>1
  <2>2. PICK i \in Bad : \A j \in Bad : i <= j
    BY <2>1, NatHasLeast
  <2>3. i \in 0..n /\ V[i] # g[i]
    BY <2>2
  <2>4. CASE i = 0
    BY <1>5, <1>9, <2>3, <2>4
  <2>5. CASE i # 0
    <3>1. i \in 1..n /\ i - 1 \in 0..n /\ ~(i <= i - 1)
      BY <1>1, <2>3, <2>5
    <3>2. V[i - 1] = g[i - 1]
      BY <2>2, <3>1
    <3> QED BY <1>6, <1>9, <2>3, <2>5, <3>1, <3>2
  <2> QED BY <2>4, <2>5
<1>11. Value(ds) = g[n]
  <2>1. n \in 0..n
    BY <1>1
  <2> QED BY <1>2, <1>10, <2>1
<1>12. IsValue(g, ds)
  BY <1>5, <1>6, <1>11 DEF IsValue, D, n
<1> QED BY <1>12

\* One digit more.
LEMMA ValueAppend ==
  ASSUME NEW ds \in Seq(Digits), NEW c \in Digits
  PROVE  /\ Value(Append(ds, c)) = 10 * Value(ds) + DigitValue(c)
         /\ Value(ds) \in Int
<1> DEFINE n == Len(ds)
           es == Append(ds, c)
<1>1. n \in Nat /\ es \in Seq(Digits) /\ Len(es) = n + 1 /\ es[n + 1] = c
      /\ \A i \in 1..n : es[i] = ds[i]
  BY LenProperties, AppendProperties
<1> HIDE DEF es
<1>2. PICK v : IsValue(v, ds)
  BY ValueRun
<1>3. PICK w : IsValue(w, es)
  BY <1>1, ValueRun
<1>4. /\ v \in [0..n -> Int] /\ v[0] = 0 /\ Value(ds) = v[n]
      /\ \A i \in 1..n : v[i] = 10 * v[i - 1] + DigitValue(ds[i])
  BY <1>2 DEF IsValue
<1>5. /\ w[0] = 0 /\ Value(es) = w[n + 1]
      /\ \A i \in 1..n + 1 : w[i] = 10 * w[i - 1] + DigitValue(es[i])
  BY <1>1, <1>3 DEF IsValue
<1> HIDE DEF n
<1>6. \A i \in 0..n : w[i] = v[i]
  <2> DEFINE Bad == {i \in 0..n : w[i] # v[i]}
  <2> SUFFICES ASSUME Bad # {} PROVE FALSE
    OBVIOUS
  <2>1. Bad \in SUBSET Nat
    BY <1>1
  <2>2. PICK i \in Bad : \A j \in Bad : i <= j
    BY <2>1, NatHasLeast
  <2>3. i \in 0..n /\ w[i] # v[i]
    BY <2>2
  <2>4. i # 0
    BY <1>4, <1>5, <2>3
  <2>5. i \in 1..n /\ i \in 1..n + 1 /\ i - 1 \in 0..n /\ ~(i <= i - 1)
    BY <1>1, <2>3, <2>4
  <2>6. w[i - 1] = v[i - 1] /\ es[i] = ds[i]
    BY <1>1, <2>2, <2>5
  <2> QED BY <1>4, <1>5, <2>3, <2>5, <2>6
<1>7. n \in 0..n /\ n + 1 \in 1..n + 1 /\ (n + 1) - 1 = n
  BY <1>1
<1>8. Value(es) = 10 * w[n] + DigitValue(c)
  BY <1>1, <1>5, <1>7
<1> QED BY <1>4, <1>6, <1>7, <1>8 DEF es

\* No digits stand for nothing.
LEMMA ValueEmpty == Value(<< >>) = 0
<1>1. << >> \in Seq(Digits) /\ Len(<< >>) = 0
  BY EmptySeq
<1>2. PICK v : IsValue(v, << >>)
  BY <1>1, ValueRun
<1> QED BY <1>1, <1>2 DEF IsValue

\* From q on, s cannot be or become a header: the byte at j is none that could
\* stand there.
BreaksAt(s, q, j) ==
    /\ j \in q + 2..Len(s)
    /\ \A i \in q + 2..j - 1 : s[i] \in Digits
    /\ \/ s[j] \in Digits /\ j = q + 2 + maxDigits
       \/ s[j] \notin Digits /\ s[j] # "SEP"
       \/ s[j] = "SEP" /\ ~(j > q + 2 /\ Value(SubSeq(s, q + 2, j - 1)) = oscNumber)

Fails(s, q) ==
    \/ s[q] # "ESC"
    \/ q + 1 <= Len(s) /\ s[q + 1] # "]"
    \/ \E j \in q + 2..Len(s) : BreaksAt(s, q, j)

\* A separator is no digit.
LEMMA NoDigit == "SEP" \notin Digits /\ "ESC" \notin Digits /\ "]" \notin Digits
BY DEF Digits

\* What breaks a header off breaks it off whatever follows.
LEMMA BreaksForGood ==
  ASSUME NEW s \in Seq(Char), NEW t \in Seq(Char), Extends(t, s), NEW q \in Nat \ {0},
         NEW j \in q + 2..Len(s), BreaksAt(s, q, j)
  PROVE  BodyStarts(t, q) = {} /\ ~MayBeHeader(t, q)
<1>1. Len(s) \in Nat /\ Len(t) \in Nat /\ Len(s) <= Len(t) /\ \A i \in 1..Len(s) : t[i] = s[i]
  BY LenProperties DEF Extends
<1>2. t[j] = s[j] /\ \A i \in q + 2..j - 1 : t[i] \in Digits
  <2>1. \A i \in q + 2..j : i \in 1..Len(s)
    BY <1>1
  <2>2. j \in q + 2..j /\ \A i \in q + 2..j - 1 : i \in q + 2..j
    BY <1>1
  <2> QED BY <1>1, <2>1, <2>2 DEF BreaksAt
<1>3. maxDigits \in Nat
  BY ScannerAssumption
<1>4. \/ s[j] \in Digits /\ j = q + 2 + maxDigits
      \/ s[j] \notin Digits /\ s[j] # "SEP"
      \/ s[j] = "SEP" /\ ~(j > q + 2 /\ Value(SubSeq(s, q + 2, j - 1)) = oscNumber)
  BY DEF BreaksAt
<1>5. ASSUME NEW b \in q + 4..Len(t) + 1, Header(t, q, b)
      PROVE  FALSE
  <2>1. /\ b <= q + 3 + maxDigits /\ t[b - 1] = "SEP"
        /\ \A i \in q + 2..b - 2 : t[i] \in Digits
        /\ Value(SubSeq(t, q + 2, b - 2)) = oscNumber
    BY <1>5 DEF Header
  <2>2. CASE b - 1 < j
    <3>1. b - 1 \in q + 2..j - 1
      BY <1>1, <2>2
    <3> QED BY <1>2, <2>1, <3>1, NoDigit
  <2>3. CASE b - 1 = j
    <3>3. j > q + 2 /\ b - 2 = j - 1
      BY <2>3
    <3>1. s[j] = "SEP" /\ j > q + 2 /\ b - 2 = j - 1
      BY <1>2, <2>1, <2>3, <3>3
    <3>2. SubSeq(t, q + 2, j - 1) = SubSeq(s, q + 2, j - 1)
      <4>1. q + 2 \in Nat \ {0} /\ j - 1 \in Int /\ j - 1 <= Len(s)
        BY <1>1
      <4>2. CutAlike(t, s, q + 2, j - 1)
        BY <4>1, SameCut
      <4> QED BY <4>2 DEF CutAlike
    <3> QED BY <1>4, <2>1, <3>1, <3>2, NoDigit
  <2>4. CASE b - 1 > j
    <3>1. j \in q + 2..b - 2
      BY <1>1, <2>4
    <3>2. s[j] \in Digits
      BY <1>2, <2>1, <3>1
    <3>3. j = q + 2 + maxDigits
      BY <1>4, <3>2, NoDigit
    <3>4. b \in Int
      BY <1>1
    <3>5. b <= q + 3 + maxDigits
      BY <2>1
    <3> QED BY <1>3, <2>4, <3>3, <3>4, <3>5
  <2>5. b \in Int /\ j \in Int
    BY <1>1
  <2> QED BY <2>2, <2>3, <2>4, <2>5
<1>6. ASSUME MayBeHeader(t, q)
      PROVE  FALSE
  <2>1. Len(t) - (q + 1) <= maxDigits /\ \A i \in q + 2..Len(t) : t[i] \in Digits
    BY <1>6 DEF MayBeHeader
  <2>2. j \in q + 2..Len(t)
    BY <1>1
  <2>3. s[j] \in Digits
    BY <1>2, <2>1, <2>2
  <2>4. j = q + 2 + maxDigits
    BY <1>4, <2>3, NoDigit
  <2> QED BY <1>1, <1>3, <2>1, <2>2, <2>4
<1> QED BY <1>5, <1>6 DEF BodyStarts

\* What cannot be a header is a byte of text.
LEMMA FailsYields ==
  ASSUME NEW policy, NEW s \in Seq(Char), NEW q \in 1..Len(s), Fails(s, q)
  PROVE  Yields(policy, s, q, <<s[q]>>, q + 1)
<1> SUFFICES ASSUME NEW t \in Seq(Char), NEW rest \in BOOLEAN, Extends(t, s)
             PROVE  /\ Item(policy, t, q, rest).out = <<s[q]>>
                    /\ Item(policy, t, q, rest).next = q + 1
  BY DEF Yields
<1>1. Len(s) \in Nat /\ Len(t) \in Nat /\ Len(s) <= Len(t) /\ \A i \in 1..Len(s) : t[i] = s[i]
  BY LenProperties DEF Extends
<1>2. q \in Nat \ {0} /\ t[q] = s[q]
  BY <1>1
<1>3. BodyStarts(t, q) = {} /\ ~MayBeHeader(t, q)
  <2>1. CASE s[q] # "ESC"
    BY <1>2, <2>1 DEF BodyStarts, Header, MayBeHeader
  <2>2. CASE q + 1 <= Len(s) /\ s[q + 1] # "]"
    <3>1. t[q + 1] # "]" /\ q + 1 <= Len(t)
      BY <1>1, <2>2
    <3> QED BY <3>1 DEF BodyStarts, Header, MayBeHeader
  <2>3. CASE \E j \in q + 2..Len(s) : BreaksAt(s, q, j)
    BY <1>2, <2>3, BreaksForGood
  <2> QED BY <2>1, <2>2, <2>3 DEF Fails
<1> QED BY <1>2, <1>3 DEF Item

\* What is released byte by byte: an ESC that begins no header, and what follows
\* it without a further ESC.
LEMMA RunSettles ==
  ASSUME NEW policy, NEW s \in Seq(Char), NEW q \in 1..Len(s), NEW o \in Seq(Char),
         Settled(policy, s, q, o), Fails(s, q), NEW r \in q + 1..Len(s) + 1,
         \A i \in q + 1..r - 1 : s[i] # "ESC"
  PROVE  Settled(policy, s, r, o \o SubSeq(s, q, r - 1))
<1> DEFINE P(j) == Settled(policy, s, j, o \o SubSeq(s, q, j - 1))
           Bad == {j \in q + 1..r : ~P(j)}
<1>1. Len(s) \in Nat /\ \A i \in 1..Len(s) : s[i] \in Char
  BY LenProperties, ElementOfSeq
<1> SUFFICES ASSUME ~P(r) PROVE FALSE
  OBVIOUS
<1>7. r \in q + 1..r /\ q + 1..r \subseteq Nat
  BY <1>1
<1>2. Bad \in SUBSET Nat /\ Bad # {}
  <2> HIDE DEF P
  <2> QED BY <1>7
<1>3. PICK j \in Bad : \A i \in Bad : j <= i
  BY <1>2, NatHasLeast
<1>4. j \in q + 1..r /\ ~P(j)
  BY <1>3
<1> HIDE DEF P
<1>5. CASE j = q + 1
  <2>1. Settled(policy, s, q + 1, o \o <<s[q]>>)
    <3>1. Yields(policy, s, q, <<s[q]>>, q + 1)
      BY FailsYields
    <3>2. <<s[q]>> \in Seq(Char) /\ q + 1 \in 1..Len(s) + 1
      BY <1>1
    <3> QED BY <3>1, <3>2, SettledMoves
  <2>2. SubSeq(s, q, j - 1) = <<s[q]>>
    <3>1. j - 1 = q
      BY <1>5
    <3>2. SubSeq(s, q, q) = <<s[q]>>
      BY CutOne
    <3> QED BY <3>1, <3>2
  <2> QED BY <1>4, <1>5, <2>1, <2>2 DEF P
<1>6. CASE j # q + 1
  <2> DEFINE k == j - 1
             u == SubSeq(s, q, k - 1)
  <2>1. k \in q + 1..r /\ k \in q + 1..r - 1 /\ k \in 1..Len(s) /\ ~(j <= k) /\ k + 1 = j
        /\ k + 1 \in 1..Len(s) + 1
    BY <1>1, <1>4, <1>6
  <2> HIDE DEF k
  <2>2. P(k)
    BY <1>3, <2>1
  <2>3. u \in Seq(Char)
    <3>1. q \in Int /\ k - 1 \in Int /\ \A i \in q..k - 1 : s[i] \in Char
      BY <1>1, <2>1
    <3> QED BY <3>1, SubSeqProperties
  <2>4. SubSeq(s, q, k) = Append(u, s[k])
    <3>1. k \in q..Len(s)
      BY <1>1, <2>1
    <3> QED BY <3>1, CutMore
  <2>5. Settled(policy, s, k, o \o u)
    BY <2>2 DEF P
  <2> HIDE DEF u
  <2>6. Fails(s, k)
    BY <2>1 DEF Fails
  <2> DEFINE x == <<s[k]>>
  <2>7. x \in Seq(Char) /\ o \o u \in Seq(Char) /\ Append(u, s[k]) = u \o x
    BY <1>1, <2>1, <2>3, ConcatProperties, AppendIsConcat
  <2>8. Yields(policy, s, k, x, k + 1)
    BY <2>1, <2>6, FailsYields
  <2> HIDE DEF x
  <2>9. Settled(policy, s, k + 1, (o \o u) \o x)
    BY <2>1, <2>5, <2>7, <2>8, SettledMoves
  <2>10. Regroups(o, u, x)
    BY <2>3, <2>7, ConcatRegroups
  <2>11. Settled(policy, s, j, o \o SubSeq(s, q, k))
    BY <2>1, <2>4, <2>7, <2>9, <2>10 DEF Regroups
  <2>12. j - 1 = k
    BY <2>1
  <2> QED BY <1>4, <2>11, <2>12 DEF P
<1> QED BY <1>5, <1>6

-----------------------------------------------------------------------------
(* What the scanner holds *)

FilterType == [policy : Policy, state : {"stText", "stEsc", "stPrefix", "stBody", "stBodyEsc"},
               buf : Seq(Char), num : Int, digits : Int, dropping : BOOLEAN]

\* Between sequences nothing is held.
Idle(f) == f.state = "stText" /\ f.buf = << >> /\ f.dropping = FALSE

InEsc(s, f, q) ==
    /\ f.state = "stEsc" /\ f.buf = <<"ESC">> /\ f.dropping = FALSE
    /\ q = Len(s) /\ s[q] = "ESC"

InPrefix(s, f, q) ==
    /\ f.state = "stPrefix" /\ f.buf = SubSeq(s, q, Len(s)) /\ f.dropping = FALSE
    /\ q + 1 <= Len(s) /\ s[q] = "ESC" /\ s[q + 1] = "]"
    /\ \A i \in q + 2..Len(s) : s[i] \in Digits
    /\ f.digits = Len(s) - (q + 1) /\ f.digits <= maxDigits
    /\ f.num = Value(SubSeq(s, q + 2, Len(s)))

\* f holds the sequence from q up to n, if that is within the limit.
HoldsUpTo(s, f, q, n) ==
    IF n + 1 - q > maxSequence THEN f.dropping = TRUE /\ f.buf = << >>
    ELSE f.dropping = FALSE /\ f.buf = SubSeq(s, q, n)

\* The body begins at b, and nothing up to n ends it.
Runs(s, q, b, n) == b \in BodyStarts(s, q) /\ b <= n + 1 /\ \A i \in b..n : s[i] \notin Stops

InBody(s, f, q) ==
    /\ f.state = "stBody" /\ HoldsUpTo(s, f, q, Len(s))
    /\ \E b \in BodyStarts(s, q) : Runs(s, q, b, Len(s))

InBodyEsc(s, f, q) ==
    /\ f.state = "stBodyEsc" /\ HoldsUpTo(s, f, q, Len(s) - 1) /\ s[Len(s)] = "ESC"
    /\ \E b \in BodyStarts(s, q) : Runs(s, q, b, Len(s) - 1)

\* What f holds of input s begins at q.
Holding(s, f, q) ==
    \/ Idle(f) /\ q = Len(s) + 1
    \/ InEsc(s, f, q)
    \/ InPrefix(s, f, q)
    \/ InBody(s, f, q)
    \/ InBodyEsc(s, f, q)

\* The scanner that has read s and handed on o: o is the output for everything
\* before what it holds, whatever follows.
ScanInv(s, f, o) ==
    \E q \in 1..Len(s) + 1 : Holding(s, f, q) /\ Settled(f.policy, s, q, o)

\* r is the state after the last byte of s, of a scanner that had handed on o
\* before it, d of it in this call.
Reads(s, policy, d, o, r) ==
    /\ r = [f |-> r.f, dst |-> r.dst] /\ r.f \in FilterType /\ r.f.policy = policy
    /\ \E x \in Seq(Char) : r.dst = d \o x /\ ScanInv(s, r.f, o \o x)

\* Nothing more handed on.
LEMMA ReadsSilently ==
  ASSUME NEW s \in Seq(Char), NEW f \in FilterType, NEW policy, f.policy = policy,
         NEW d \in Seq(Char), NEW o \in Seq(Char), NEW q \in 1..Len(s) + 1,
         Holding(s, f, q), Settled(policy, s, q, o)
  PROVE  Reads(s, policy, d, o, [f |-> f, dst |-> d])
<1> DEFINE x == << >>
<1>1. x \in Seq(Char) /\ d \o x = d /\ o \o x = o
  BY EmptySeq, ConcatEmptySeq
<1>2. ScanInv(s, f, o)
  BY DEF ScanInv
<1>3. ScanInv(s, f, o \o x)
  BY <1>1, <1>2
<1> HIDE DEF x
<1> QED BY <1>1, <1>3 DEF Reads

\* Something handed on first.
LEMMA ReadsAfter ==
  ASSUME NEW s \in Seq(Char), NEW policy, NEW d \in Seq(Char), NEW o \in Seq(Char),
         NEW y \in Seq(Char), NEW r, Reads(s, policy, d \o y, o \o y, r)
  PROVE  Reads(s, policy, d, o, r)
<1>1. PICK x \in Seq(Char) : r.dst = (d \o y) \o x /\ ScanInv(s, r.f, (o \o y) \o x)
  BY DEF Reads
<1>2. Regroups(d, y, x) /\ Regroups(o, y, x)
  BY ConcatRegroups
<1>3. r.dst = d \o (y \o x) /\ ScanInv(s, r.f, o \o (y \o x)) /\ y \o x \in Seq(Char)
  BY <1>1, <1>2, ConcatProperties DEF Regroups
<1> QED BY <1>3 DEF Reads

\* A byte of text.
LEMMA TextStep ==
  ASSUME NEW s \in Seq(Char), Len(s) > 0, NEW f \in FilterType, Idle(f),
         NEW d \in Seq(Char), NEW o \in Seq(Char), Settled(f.policy, s, Len(s), o)
  PROVE  Reads(s, f.policy, d, o, Text([f |-> f, dst |-> d], s[Len(s)]))
<1> DEFINE n == Len(s)
           c == s[n]
           r == Text([f |-> f, dst |-> d], c)
<1>1. n \in Nat /\ n \in 1..n /\ n \in 1..n + 1 /\ n + 1 \in 1..n + 1 /\ c \in Char
  BY LenProperties, ElementOfSeq
<1>2. CASE c = "ESC"
  <2> DEFINE g == HoldEsc(f)
  <2>1. r = [f |-> g, dst |-> d]
    BY <1>2 DEF Text
  <2>2. g \in FilterType /\ g.policy = f.policy /\ g.state = "stEsc" /\ g.buf = <<"ESC">>
        /\ g.dropping = f.dropping
    BY Literals, Singles DEF FilterType, HoldEsc
  <2>3. Holding(s, g, n)
    BY <1>2, <2>2 DEF Holding, InEsc, Idle
  <2> HIDE DEF g, r, c
  <2> QED BY <1>1, <2>1, <2>2, <2>3, ReadsSilently DEF r, c
<1>3. CASE c # "ESC"
  <2> DEFINE x == <<c>>
  <2>1. r = [f |-> f, dst |-> Append(d, c)]
    BY <1>3 DEF Text
  <2>2. x \in Seq(Char) /\ Append(d, c) = d \o x /\ d \o x \in Seq(Char) /\ o \o x \in Seq(Char)
    BY <1>1, AppendIsConcat, ConcatProperties
  <2>3. Yields(f.policy, s, n, x, n + 1)
    BY <1>1, <1>3, FailsYields DEF Fails
  <2> HIDE DEF x
  <2>4. Settled(f.policy, s, n + 1, o \o x)
    BY <1>1, <2>2, <2>3, SettledMoves
  <2>5. Holding(s, f, n + 1)
    BY DEF Holding
  <2> DEFINE r2 == [f |-> f, dst |-> d \o x]
  <2>6. Reads(s, f.policy, d \o x, o \o x, r2)
    BY <1>1, <2>2, <2>4, <2>5, ReadsSilently
  <2>7. r = r2
    BY <2>1, <2>2
  <2> HIDE DEF r, r2
  <2>8. Reads(s, f.policy, d, o, r)
    BY <2>2, <2>6, <2>7, ReadsAfter
  <2> QED BY <2>8 DEF r
<1> QED BY <1>2, <1>3

\* reset leaves nothing held.
LEMMA ResetIdle ==
  ASSUME NEW f \in FilterType
  PROVE  Reset(f) \in FilterType /\ Idle(Reset(f)) /\ Reset(f).policy = f.policy
<1>1. << >> \in Seq(Char)
  BY EmptySeq
<1> QED BY <1>1 DEF FilterType, Reset, Idle

\* release, and the byte under the cursor read again as text.
LEMMA ReleaseStep ==
  ASSUME NEW s \in Seq(Char), Len(s) > 0, NEW f \in FilterType,
         NEW d \in Seq(Char), NEW o \in Seq(Char), Settled(f.policy, s, Len(s), o \o f.buf)
  PROVE  Reads(s, f.policy, d, o, Text(Release([f |-> f, dst |-> d]), s[Len(s)]))
<1> DEFINE g == Reset(f)
           y == f.buf
           r == Text([f |-> g, dst |-> d \o y], s[Len(s)])
<1>1. y \in Seq(Char)
  BY DEF FilterType
<1>2. Release([f |-> f, dst |-> d]) = [f |-> g, dst |-> d \o y]
  BY DEF Release
<1>3. g \in FilterType /\ Idle(g) /\ g.policy = f.policy
  BY ResetIdle
<1> HIDE DEF g, y
<1>4. d \o y \in Seq(Char) /\ o \o y \in Seq(Char)
  BY <1>1, ConcatProperties
<1>5. Settled(g.policy, s, Len(s), o \o y)
  BY <1>3 DEF y
<1>6. Reads(s, f.policy, d \o y, o \o y, r)
  BY <1>3, <1>4, <1>5, TextStep
<1> HIDE DEF r
<1>7. Reads(s, f.policy, d, o, r)
  BY <1>1, <1>6, ReadsAfter
<1> QED BY <1>2, <1>7 DEF r

\* The scanner's fields.
LEMMA FilterFields ==
  ASSUME NEW f \in FilterType
  PROVE  /\ f = [policy |-> f.policy, state |-> f.state, buf |-> f.buf, num |-> f.num,
                 digits |-> f.digits, dropping |-> f.dropping]
         /\ f.policy \in Policy /\ f.buf \in Seq(Char) /\ f.num \in Int /\ f.digits \in Int
         /\ f.dropping \in BOOLEAN
         /\ f.state \in {"stText", "stEsc", "stPrefix", "stBody", "stBodyEsc"}
BY DEF FilterType

\* "ESC ]" in the buffer.
LEMMA IntroduceFields ==
  ASSUME NEW f \in FilterType, NEW c, NEW w \in Seq(Char), w = Append(f.buf, c)
  PROVE  /\ Introduce(f, c) \in FilterType /\ Introduce(f, c).policy = f.policy
         /\ Introduce(f, c).state = "stPrefix" /\ Introduce(f, c).buf = w
         /\ Introduce(f, c).num = 0 /\ Introduce(f, c).digits = 0
         /\ Introduce(f, c).dropping = f.dropping
<1>1. Introduce(f, c) = [f EXCEPT !.buf = w, !.num = 0, !.digits = 0, !.state = "stPrefix"]
  BY DEF Introduce
<1>2. f = [policy |-> f.policy, state |-> f.state, buf |-> f.buf, num |-> f.num,
           digits |-> f.digits, dropping |-> f.dropping]
  BY FilterFields
<1>3. Introduce(f, c) = [policy |-> f.policy, state |-> "stPrefix", buf |-> w, num |-> 0,
                         digits |-> 0, dropping |-> f.dropping]
  BY <1>1, <1>2
<1> QED BY <1>3, FilterFields DEF FilterType

\* g is f after one more digit: w in the buffer, v the number.
DigitAdded(f, g, w, v) ==
    /\ g.policy = f.policy /\ g.state = f.state /\ g.dropping = f.dropping
    /\ g.buf = w /\ g.num = v /\ g.digits = f.digits + 1

\* One more digit in the buffer.
LEMMA AddDigitFields ==
  ASSUME NEW f \in FilterType, NEW c, NEW w \in Seq(Char), w = Append(f.buf, c),
         NEW v \in Int, v = 10 * f.num + DigitValue(c)
  PROVE  AddDigit(f, c) \in FilterType /\ DigitAdded(f, AddDigit(f, c), w, v)
<1>1. AddDigit(f, c) = [f EXCEPT !.num = v, !.digits = f.digits + 1, !.buf = w]
  BY DEF AddDigit
<1>2. f = [policy |-> f.policy, state |-> f.state, buf |-> f.buf, num |-> f.num,
           digits |-> f.digits, dropping |-> f.dropping]
  BY FilterFields
<1>3. AddDigit(f, c) = [policy |-> f.policy, state |-> f.state, buf |-> w, num |-> v,
                        digits |-> f.digits + 1, dropping |-> f.dropping]
  BY <1>1, <1>2
<1> QED BY <1>3, FilterFields DEF FilterType, DigitAdded

\* The separator in the buffer.
LEMMA ClaimFields ==
  ASSUME NEW f \in FilterType, NEW c, NEW w \in Seq(Char), w = Append(f.buf, c)
  PROVE  /\ Claim(f, c) \in FilterType /\ Claim(f, c).policy = f.policy
         /\ Claim(f, c).state = "stBody" /\ Claim(f, c).buf = w
         /\ Claim(f, c).dropping = f.dropping
<1>1. Claim(f, c) = [f EXCEPT !.buf = w, !.state = "stBody"]
  BY DEF Claim
<1>2. f = [policy |-> f.policy, state |-> f.state, buf |-> f.buf, num |-> f.num,
           digits |-> f.digits, dropping |-> f.dropping]
  BY FilterFields
<1>3. Claim(f, c) = [policy |-> f.policy, state |-> "stBody", buf |-> w, num |-> f.num,
                     digits |-> f.digits, dropping |-> f.dropping]
  BY <1>1, <1>2
<1> QED BY <1>3, FilterFields DEF FilterType

\* The byte after an ESC.
LEMMA EscStep ==
  ASSUME NEW s \in Seq(Char), Len(s) > 1, NEW f \in FilterType,
         f.state = "stEsc", f.buf = <<"ESC">>, f.dropping = FALSE, s[Len(s) - 1] = "ESC",
         NEW d \in Seq(Char), NEW o \in Seq(Char), Settled(f.policy, s, Len(s) - 1, o)
  PROVE  Reads(s, f.policy, d, o, Esc([f |-> f, dst |-> d], s[Len(s)]))
<1> DEFINE n == Len(s)
           q == n - 1
           c == s[n]
           r == Esc([f |-> f, dst |-> d], c)
<1>1. n \in Nat /\ q \in 1..n /\ q \in 1..n + 1 /\ c \in Char /\ q + 1 = n /\ n \in 1..n + 1
  BY LenProperties, ElementOfSeq
<1>2. SubSeq(s, q, q) = <<"ESC">>
  <2> HIDE DEF q
  <2> QED BY <1>1, CutOne DEF q
<1>3. CASE c = "]"
  <2> DEFINE w == Append(f.buf, c)
             g == Introduce(f, c)
  <2>1. r = [f |-> g, dst |-> d]
    <3> HIDE DEF c
    <3> QED BY <1>3 DEF Esc
  <2>2. w \in Seq(Char)
    BY <1>1, AppendProperties DEF FilterType
  <2>3. /\ g \in FilterType /\ g.policy = f.policy /\ g.state = "stPrefix"
        /\ g.buf = w /\ g.num = 0 /\ g.digits = 0 /\ g.dropping = FALSE
    <3>1. g.dropping = f.dropping
      BY <2>2, IntroduceFields
    <3> QED BY <2>2, <3>1, IntroduceFields
  <2> HIDE DEF w
  <2>4. SubSeq(s, q, n) = Append(<<"ESC">>, c)
    <3>1. n \in q..n /\ n - 1 = q
      BY <1>1
    <3>2. SubSeq(s, q, n) = Append(SubSeq(s, q, n - 1), s[n])
      <4> HIDE DEF q
      <4> QED BY <1>1, <3>1, CutMore
    <3> QED BY <1>2, <3>1, <3>2
  <2>9. g.buf = SubSeq(s, q, n)
    BY <2>3, <2>4 DEF w
  <2>5. SubSeq(s, q + 2, n) = << >>
    <3>1. q + 2 \in Int /\ n \in Int /\ n < q + 2
      BY <1>1
    <3> QED BY <3>1, SubSeqEmpty
  <2>6. n - (q + 1) = 0 /\ 0 <= maxDigits /\ \A i \in q + 2..n : FALSE
    BY <1>1, ScannerAssumption
  <2> HIDE DEF g
  <2>10. s[q] = "ESC" /\ s[q + 1] = "]" /\ q + 1 <= n
    BY <1>1, <1>3
  <2>7. InPrefix(s, g, q)
    <3>1. g.num = Value(SubSeq(s, q + 2, n))
      BY <2>3, <2>5, ValueEmpty
    <3> HIDE DEF q
    <3> QED BY <2>3, <2>6, <2>9, <2>10, <3>1 DEF InPrefix
  <2>8. Holding(s, g, q)
    BY <2>7 DEF Holding
  <2> HIDE DEF r, c, q
  <2> QED BY <1>1, <2>1, <2>3, <2>8, ReadsSilently DEF r, c, q
<1>4. CASE c # "]"
  <2>1. r = Text(Release([f |-> f, dst |-> d]), c)
    BY <1>4 DEF Esc
  <2>2. Fails(s, q)
    BY <1>1, <1>4 DEF Fails
  <2>3. Settled(f.policy, s, n, o \o SubSeq(s, q, n - 1))
    <3>1. n \in q + 1..n + 1 /\ \A i \in q + 1..n - 1 : s[i] # "ESC"
      BY <1>1
    <3> HIDE DEF q
    <3> QED BY <1>1, <2>2, <3>1, RunSettles DEF q
  <2>4. Settled(f.policy, s, n, o \o f.buf)
    BY <1>1, <1>2, <2>3
  <2>5. n > 0
    BY <1>1
  <2> HIDE DEF r, c
  <2> QED BY <2>1, <2>4, <2>5, ReleaseStep DEF r, c
<1> QED BY <1>3, <1>4

\* Input that is s and one byte more.
LEMMA OneMore ==
  ASSUME NEW s \in Seq(Char), NEW c \in Char
  PROVE  /\ Append(s, c) \in Seq(Char) /\ Len(Append(s, c)) = Len(s) + 1
         /\ Append(s, c)[Len(s) + 1] = c /\ \A i \in 1..Len(s) : Append(s, c)[i] = s[i]
         /\ Extends(Append(s, c), s) /\ Len(s) \in Nat
<1>1. /\ Append(s, c) \in Seq(Char) /\ Len(Append(s, c)) = Len(s) + 1
      /\ Append(s, c)[Len(s) + 1] = c /\ \A i \in 1..Len(s) : Append(s, c)[i] = s[i]
      /\ Len(s) \in Nat
  BY AppendProperties, LenProperties
<1> QED BY <1>1 DEF Extends

\* In a number that began at q: t is s and c.
PrefixFacts(t, s, c, f, q, n) ==
    /\ n \in Nat /\ q + 1 <= n /\ f.digits = n - (q + 1) /\ f.digits <= maxDigits
    /\ t \in Seq(Char) /\ Len(t) = n + 1 /\ Extends(t, s) /\ t[n + 1] = c
    /\ t[q] = "ESC" /\ t[q + 1] = "]" /\ \A i \in q + 2..n : t[i] \in Digits
    /\ f.buf = SubSeq(t, q, n) /\ SubSeq(t, q, n + 1) = Append(f.buf, c)
    /\ SubSeq(t, q + 2, n) \in Seq(Digits) /\ f.num = Value(SubSeq(t, q + 2, n))
    /\ SubSeq(t, q + 2, n + 1) = Append(SubSeq(t, q + 2, n), c)

\* What InPrefix says of the input with one byte more.
LEMMA PrefixMore ==
  ASSUME NEW s \in Seq(Char), NEW c \in Char, NEW f \in FilterType,
         NEW q \in 1..Len(s) + 1, InPrefix(s, f, q), NEW t, t = Append(s, c),
         NEW n, n = Len(s)
  PROVE  PrefixFacts(t, s, c, f, q, n)
<1>1. /\ t \in Seq(Char) /\ Len(t) = n + 1 /\ Extends(t, s) /\ t[n + 1] = c
      /\ n \in Nat /\ \A i \in 1..n : t[i] = s[i]
  BY OneMore
<1>2. /\ q + 1 <= n /\ s[q] = "ESC" /\ s[q + 1] = "]" /\ \A i \in q + 2..n : s[i] \in Digits
      /\ f.digits = n - (q + 1) /\ f.digits <= maxDigits
      /\ f.buf = SubSeq(s, q, n) /\ f.num = Value(SubSeq(s, q + 2, n))
  BY DEF InPrefix
<1>3. q \in Nat \ {0} /\ q + 2 \in Nat \ {0} /\ n \in Int /\ n <= Len(s) /\ q + 2 \in Int
      /\ q \in 1..n /\ q + 1 \in 1..n /\ \A i \in q + 2..n : i \in 1..n
  BY <1>1, <1>2
<1>4. t[q] = "ESC" /\ t[q + 1] = "]" /\ \A i \in q + 2..n : t[i] \in Digits
  BY <1>1, <1>2, <1>3
<1>5. SubSeq(t, q, n) = SubSeq(s, q, n) /\ SubSeq(t, q + 2, n) = SubSeq(s, q + 2, n)
  <2>1. CutAlike(t, s, q, n) /\ CutAlike(t, s, q + 2, n)
    BY <1>1, <1>3, SameCut
  <2> QED BY <2>1 DEF CutAlike
<1>6. SubSeq(t, q + 2, n) \in Seq(Digits)
  BY <1>3, <1>4, SubSeqProperties
<1>7. q \in 1..Len(t) /\ q + 2 \in 1..Len(t) /\ n + 1 \in q..Len(t) /\ n + 1 \in q + 2..Len(t)
      /\ (n + 1) - 1 = n
  BY <1>1, <1>2
<1>8. /\ SubSeq(t, q, n + 1) = Append(SubSeq(t, q, n), c)
      /\ SubSeq(t, q + 2, n + 1) = Append(SubSeq(t, q + 2, n), c)
  <2>1. /\ SubSeq(t, q, n + 1) = Append(SubSeq(t, q, (n + 1) - 1), t[n + 1])
        /\ SubSeq(t, q + 2, n + 1) = Append(SubSeq(t, q + 2, (n + 1) - 1), t[n + 1])
    BY <1>1, <1>7, CutMore
  <2> QED BY <1>1, <1>7, <2>1
<1> QED BY <1>1, <1>2, <1>4, <1>5, <1>6, <1>8 DEF PrefixFacts

\* A digit.
LEMMA PrefixDigit ==
  ASSUME NEW f, NEW d, NEW c, c \in Digits, f.digits < maxDigits
  PROVE  Prefix([f |-> f, dst |-> d], c) = [f |-> AddDigit(f, c), dst |-> d]
<1>1. c # "SEP"
  BY NoDigit
<1> QED BY <1>1 DEF Prefix

\* The separator after this filter's number.
LEMMA PrefixClaim ==
  ASSUME NEW f, NEW d, NEW c, c = "SEP", f.digits > 0, f.num = oscNumber
  PROVE  Prefix([f |-> f, dst |-> d], c) = [f |-> Claim(f, c), dst |-> d]
BY NoDigit DEF Prefix

\* Anything else.
LEMMA PrefixOther ==
  ASSUME NEW f, NEW d, NEW c, ~(c \in Digits /\ f.digits < maxDigits),
         ~(c = "SEP" /\ f.digits > 0 /\ f.num = oscNumber)
  PROVE  Prefix([f |-> f, dst |-> d], c) = Text(Release([f |-> f, dst |-> d]), c)
BY DEF Prefix

\* A byte of the number.
LEMMA PrefixStep ==
  ASSUME NEW s \in Seq(Char), NEW c \in Char, NEW f \in FilterType,
         NEW q \in 1..Len(s) + 1, InPrefix(s, f, q),
         NEW d \in Seq(Char), NEW o \in Seq(Char), Settled(f.policy, s, q, o)
  PROVE  Reads(Append(s, c), f.policy, d, o, Prefix([f |-> f, dst |-> d], c))
<1> DEFINE r == Prefix([f |-> f, dst |-> d], c)
<1>9. PICK t, n, w : t = Append(s, c) /\ n = Len(s) /\ w = Append(f.buf, c)
  OBVIOUS
<1>1. /\ n \in Nat /\ q + 1 <= n /\ f.digits = n - (q + 1) /\ f.digits <= maxDigits
      /\ t \in Seq(Char) /\ Len(t) = n + 1 /\ Extends(t, s) /\ t[n + 1] = c
      /\ t[q] = "ESC" /\ t[q + 1] = "]" /\ \A i \in q + 2..n : t[i] \in Digits
      /\ f.buf = SubSeq(t, q, n) /\ SubSeq(t, q, n + 1) = Append(f.buf, c)
      /\ SubSeq(t, q + 2, n) \in Seq(Digits) /\ f.num = Value(SubSeq(t, q + 2, n))
      /\ SubSeq(t, q + 2, n + 1) = Append(SubSeq(t, q + 2, n), c)
  <2>1. PrefixFacts(t, s, c, f, q, n)
    BY <1>9, PrefixMore
  <2> QED BY <2>1 DEF PrefixFacts
<1>2. f.state = "stPrefix" /\ f.dropping = FALSE
  BY DEF InPrefix
<1>3. q \in Nat \ {0} /\ q \in 1..Len(t) + 1 /\ q \in 1..Len(t) /\ maxDigits \in Nat
  BY <1>1, ScannerAssumption
<1>4. Settled(f.policy, t, q, o)
  BY <1>1, SettledGrows
<1>5. w \in Seq(Char)
  BY <1>9, FilterFields, AppendProperties
<1>6. CASE c \in Digits /\ f.digits < maxDigits
  <2> DEFINE g == AddDigit(f, c)
             ds == SubSeq(t, q + 2, n)
  <2>10. PICK v : v = 10 * f.num + DigitValue(c)
    OBVIOUS
  <2>1. r = [f |-> g, dst |-> d]
    BY <1>6, PrefixDigit
  <2>2. v = Value(Append(ds, c)) /\ v \in Int
    <3>1. ds \in Seq(Digits) /\ f.num = Value(ds)
      BY <1>1
    <3> HIDE DEF ds
    <3>2. Value(Append(ds, c)) = 10 * Value(ds) + DigitValue(c) /\ Value(ds) \in Int
          /\ DigitValue(c) \in Int
      BY <1>6, <3>1, ValueAppend, DigitType
    <3> QED BY <2>10, <3>1, <3>2
  <2>3. /\ g \in FilterType /\ g.policy = f.policy /\ g.state = f.state /\ g.buf = w
        /\ g.num = v /\ g.digits = f.digits + 1 /\ g.dropping = f.dropping
    <3>1. g \in FilterType /\ DigitAdded(f, g, w, v)
      BY <1>5, <1>9, <2>2, <2>10, AddDigitFields
    <3> QED BY <3>1 DEF DigitAdded
  <2> HIDE DEF g, ds
  <2>4. g.buf = SubSeq(t, q, Len(t)) /\ g.num = Value(SubSeq(t, q + 2, Len(t)))
    BY <1>1, <1>9, <2>2, <2>3 DEF ds
  <2>5. g.digits = Len(t) - (q + 1) /\ g.digits <= maxDigits /\ q + 1 <= Len(t)
    BY <1>1, <1>3, <1>6, <2>3
  <2>6. \A i \in q + 2..Len(t) : t[i] \in Digits
    <3> TAKE i \in q + 2..Len(t)
    <3>1. i = n + 1 \/ i \in q + 2..n
      BY <1>1
    <3> QED BY <1>1, <1>6, <3>1
  <2>7. InPrefix(t, g, q)
    BY <1>1, <1>2, <2>3, <2>4, <2>5, <2>6 DEF InPrefix
  <2>8. Holding(t, g, q)
    BY <2>7 DEF Holding
  <2> HIDE DEF r
  <2>9. Reads(t, f.policy, d, o, r)
    BY <1>1, <1>3, <1>4, <2>1, <2>3, <2>8, ReadsSilently
  <2> QED BY <1>9, <2>9 DEF r
<1>7. CASE c = "SEP" /\ f.digits > 0 /\ f.num = oscNumber
  <2> DEFINE g == Claim(f, c)
             b == n + 2
  <2>1. r = [f |-> g, dst |-> d]
    BY <1>7, PrefixClaim
  <2>2. /\ g \in FilterType /\ g.policy = f.policy /\ g.state = "stBody" /\ g.buf = w
        /\ g.dropping = f.dropping
    BY <1>5, <1>9, ClaimFields
  <2> HIDE DEF g
  <2>3. b \in q + 4..Len(t) + 1 /\ b <= q + 3 + maxDigits /\ b - 1 = n + 1 /\ b - 2 = n
        /\ b <= Len(t) + 1 /\ Len(t) < b
    <3>1. n \in Nat /\ Len(t) = n + 1 /\ n - (q + 1) > 0 /\ n - (q + 1) <= maxDigits
      BY <1>1, <1>7
    <3> QED BY <1>3, <3>1
  <2> HIDE DEF b
  <2>4. Header(t, q, b)
    BY <1>1, <1>7, <2>3 DEF Header
  <2>5. b \in BodyStarts(t, q)
    BY <2>3, <2>4 DEF BodyStarts
  <2>6. Runs(t, q, b, Len(t))
    <3>1. b \in Int /\ Len(t) \in Int /\ \A i \in b..Len(t) : FALSE
      BY <1>1, <1>3, <2>3
    <3> QED BY <2>3, <2>5, <3>1 DEF Runs
  <2>7. HoldsUpTo(t, g, q, Len(t))
    <3>4. n \in Nat /\ Len(t) = n + 1 /\ n - (q + 1) <= maxDigits
      BY <1>1
    <3>1. ~(Len(t) + 1 - q > maxSequence)
      BY <1>3, <3>4, ScannerAssumption
    <3>2. g.dropping = FALSE
      BY <1>2, <2>2
    <3>3. g.buf = SubSeq(t, q, Len(t))
      BY <1>1, <1>9, <2>2
    <3> QED BY <3>1, <3>2, <3>3 DEF HoldsUpTo
  <2>8. Holding(t, g, q)
    BY <2>2, <2>5, <2>6, <2>7 DEF Holding, InBody
  <2> HIDE DEF r
  <2>9. Reads(t, f.policy, d, o, r)
    BY <1>1, <1>3, <1>4, <2>1, <2>2, <2>8, ReadsSilently
  <2> QED BY <1>9, <2>9 DEF r
<1>8. CASE /\ ~(c \in Digits /\ f.digits < maxDigits)
           /\ ~(c = "SEP" /\ f.digits > 0 /\ f.num = oscNumber)
  <2>1. r = Text(Release([f |-> f, dst |-> d]), c)
    BY <1>8, PrefixOther
  <2> DEFINE j == n + 1
  <2>2. j \in q + 2..Len(t) /\ j - 1 = n /\ j = Len(t) /\ j > 0 /\ j \in q + 1..Len(t) + 1
        /\ (j > q + 2 => f.digits > 0) /\ (~(f.digits < maxDigits) => j = q + 2 + maxDigits)
    BY <1>1, <1>3
  <2> HIDE DEF j
  <2>3. BreaksAt(t, q, j)
    <3>1. t[j] = c
      BY <1>1 DEF j
    <3> QED BY <1>1, <1>8, <2>2, <3>1 DEF BreaksAt
  <2>4. Fails(t, q)
    BY <2>2, <2>3 DEF Fails
  <2>5. \A i \in q + 1..j - 1 : t[i] # "ESC"
    <3> TAKE i \in q + 1..j - 1
    <3>1. i = q + 1 \/ i \in q + 2..n
      BY <1>1, <2>2
    <3> QED BY <1>1, <3>1, NoDigit
  <2>6. Settled(f.policy, t, j, o \o SubSeq(t, q, j - 1))
    BY <1>1, <1>3, <1>4, <2>2, <2>4, <2>5, RunSettles
  <2>7. Settled(f.policy, t, Len(t), o \o f.buf)
    BY <1>1, <2>2, <2>6
  <2>8. Reads(t, f.policy, d, o, Text(Release([f |-> f, dst |-> d]), t[Len(t)]))
    BY <1>1, <2>2, <2>7, ReleaseStep
  <2>9. t[Len(t)] = c
    BY <1>1
  <2> HIDE DEF r
  <2> QED BY <1>9, <2>1, <2>8, <2>9 DEF r
<1> QED BY <1>6, <1>7, <1>8

-----------------------------------------------------------------------------
(* What a complete sequence becomes *)

\* A sequence, cut at i.
LEMMA CutAt ==
  ASSUME NEW body \in Seq(Char), NEW i \in 1..Len(body)
  PROVE  /\ SubSeq(body, 1, i - 1) \in Seq(Char) /\ SubSeq(body, i + 1, Len(body)) \in Seq(Char)
         /\ Len(SubSeq(body, 1, i - 1)) = i - 1
         /\ Len(SubSeq(body, i + 1, Len(body))) = Len(body) - i
         /\ \A k \in 1..Len(body) - i : SubSeq(body, i + 1, Len(body))[k] = body[i + k]
         /\ (SubSeq(body, 1, i - 1) \o <<body[i]>>) \o SubSeq(body, i + 1, Len(body)) = body
<1> DEFINE n == Len(body)
           a == SubSeq(body, 1, i - 1)
           b == SubSeq(body, i + 1, n)
<1>1. n \in Nat /\ \A k \in 1..n : body[k] \in Char
  BY LenProperties, ElementOfSeq
<1>2. 1 \in Int /\ i - 1 \in Int /\ i + 1 \in Int /\ n \in Int
      /\ (\A k \in 1..i - 1 : body[k] \in Char) /\ (\A k \in i + 1..n : body[k] \in Char)
  BY <1>1
<1>3. a \in Seq(Char) /\ Len(a) = (IF 1 <= i - 1 THEN (i - 1) - 1 + 1 ELSE 0)
  BY <1>2, SubSeqProperties
<1>4. b \in Seq(Char) /\ Len(b) = (IF i + 1 <= n THEN n - (i + 1) + 1 ELSE 0)
      /\ \A k \in 1..n - (i + 1) + 1 : b[k] = body[(i + 1) + k - 1]
  BY <1>2, SubSeqProperties
<1> HIDE DEF a, b
<1>5. Len(a) = i - 1 /\ Len(b) = n - i
  BY <1>1, <1>3, <1>4
<1>6. \A k \in 1..n - i : b[k] = body[i + k]
  <2> TAKE k \in 1..n - i
  <2>1. k \in 1..n - (i + 1) + 1 /\ (i + 1) + k - 1 = i + k
    BY <1>1
  <2> QED BY <1>4, <2>1
<1>7. a \o <<body[i]>> = SubSeq(body, 1, i)
  <2>1. 1 \in 1..Len(body) /\ i \in 1..Len(body)
    BY <1>1
  <2>2. SubSeq(body, 1, i) = Append(a, body[i])
    BY <2>1, CutMore DEF a
  <2>3. Append(a, body[i]) = a \o <<body[i]>>
    BY <1>1, <1>3, AppendIsConcat
  <2> QED BY <2>2, <2>3
<1>8. SubSeq(body, 1, i) \o b = body
  <2>1. SubSeq(body, 1, i) \o SubSeq(body, i + 1, n) = SubSeq(body, 1, n)
    BY <1>1, ConcatAdjacentSubSeq
  <2>2. SubSeq(body, 1, n) = body
    BY SubSeqFull
  <2> QED BY <2>1, <2>2 DEF b
<1> QED BY <1>3, <1>4, <1>5, <1>6, <1>7, <1>8 DEF a, b

\* The first separator.
LEMMA FirstSeparator ==
  ASSUME NEW body \in Seq(Char), NEW j \in 1..Len(body), body[j] = "SEP"
  PROVE  /\ IndexOf(body, "SEP") \in 1..Len(body) /\ body[IndexOf(body, "SEP")] = "SEP"
         /\ \A i \in 1..Len(body) : body[i] = "SEP" => IndexOf(body, "SEP") <= i
<1> DEFINE seps == {i \in 1..Len(body) : body[i] = "SEP"}
<1>1. seps \in SUBSET Nat /\ seps # {}
  OBVIOUS
<1>2. IndexOf(body, "SEP") = Min(seps)
  BY DEF IndexOf
<1>3. Min(seps) \in seps /\ \A i \in seps : Min(seps) <= i
  <2> HIDE DEF seps
  <2> QED BY <1>1, MinNat
<1> QED BY <1>2, <1>3

\* A body is a query if "?" is all that follows its first separator.
LEMMA QueryIs ==
  ASSUME NEW body \in Seq(Char), NEW j \in 1..Len(body), body[j] = "SEP",
         NEW seps, seps = {i \in 1..Len(body) : body[i] = "SEP"}
  PROVE  (\E i \in seps : i = Len(body) - 1 /\ body[i + 1] = "?" /\ Cardinality(seps) = 1)
           <=> PdOf(body) = <<"?">>
<1> DEFINE n == Len(body)
           e == IndexOf(body, "SEP")
           data == PdOf(body)
<1>1. n \in Nat
  BY LenProperties
<1>2. e \in 1..n /\ body[e] = "SEP" /\ \A i \in 1..n : body[i] = "SEP" => e <= i
  BY FirstSeparator
<1>3. data = SubSeq(body, e + 1, n)
  BY DEF PdOf
<1>8. seps = {i \in 1..n : body[i] = "SEP"}
  OBVIOUS
<1> HIDE DEF e, data
<1>4. Len(data) = n - e /\ data \in Seq(Char) /\ \A k \in 1..n - e : data[k] = body[e + k]
  BY <1>2, <1>3, CutAt
<1> HIDE DEF n
<1>5. e \in seps
  BY <1>2, <1>8
<1>6. ASSUME NEW i \in seps, i = n - 1, body[i + 1] = "?", Cardinality(seps) = 1
      PROVE  data = <<"?">>
  <2>1. IsFiniteSet(seps)
    <3>1. 1 \in Int /\ n \in Int /\ seps \subseteq 1..n
      BY <1>1, <1>8
    <3>2. IsFiniteSet(1..n)
      BY <3>1, FS_Interval
    <3> QED BY <3>1, <3>2, FS_Subset
  <2>2. PICK x : seps = {x}
    BY <1>6, <2>1, FS_Singleton
  <2>3. i = e
    BY <1>5, <2>2
  <2>4. n - e = 1 /\ 1 \in 1..n - e
    <3>1. e \in Int /\ n \in Int /\ e = n - 1
      BY <1>1, <1>2, <1>6, <2>3
    <3> QED BY <3>1
  <2>5. Len(data) = 1 /\ data[1] = "?"
    BY <1>4, <1>6, <2>3, <2>4
  <2>6. data = <<data[1]>>
    <3>1. 1 \in 1..Len(data) /\ Len(data) = 1
      BY <2>5
    <3>2. SubSeq(data, 1, Len(data)) = data /\ SubSeq(data, 1, 1) = <<data[1]>>
      BY <1>4, <3>1, SubSeqFull, CutOne
    <3> QED BY <3>1, <3>2
  <2> QED BY <2>5, <2>6
<1>7. ASSUME data = <<"?">>
      PROVE  e = n - 1 /\ body[e + 1] = "?" /\ Cardinality(seps) = 1
  <2>5. Len(data) = 1 /\ data[1] = "?"
    BY <1>7
  <2>1. n - e = 1 /\ data[1] = "?"
    BY <1>4, <2>5
  <2>2. e = n - 1 /\ 1 \in 1..n - e
    BY <1>1, <1>2, <2>1
  <2>3. body[e + 1] = "?"
    BY <1>4, <2>1, <2>2
  <2>4. seps = {e}
    <3> SUFFICES ASSUME NEW i \in seps PROVE i = e
      BY <1>5
    <3>1. i \in 1..n /\ body[i] = "SEP" /\ e <= i
      BY <1>2, <1>8
    <3>2. i = e \/ i = e + 1
      BY <1>1, <1>2, <2>2, <3>1
    <3>3. i # e + 1
      BY <2>3, <3>1
    <3> QED BY <3>2, <3>3
  <2> QED BY <2>2, <2>3, <2>4, FS_Singleton
<1> QED BY <1>5, <1>6, <1>7 DEF data, n

\* What emit writes, by the body of the sequence.
Emitted(policy, d, body, term) ==
    LET data  == PdOf(body)
        sel   == SubSeq(body, 1, IndexOf(body, "SEP") - 1)
        named == IF sel = << >> /\ data # <<"?">> THEN <<"c">> ELSE sel
    IN  IF policy = "Off" THEN d
        ELSE IF ~Contains(body, "SEP") THEN AppendSequence(d, << >>, body, term)
        ELSE IF data = <<"?">> /\ policy # "Full" THEN d
        ELSE AppendSequence(d, named \o <<"SEP">>, data, term)

\* The canonical form of a sequence.
Canonical(body, term) ==
    <<"ESC", "]">> \o NumberText \o <<"SEP">> \o body
      \o (IF term = "ESC" THEN <<"ESC", "\\">> ELSE <<"BEL">>)

SequenceAppended(d, sel, data, term) ==
    AppendSequence(d, sel, data, term) = d \o Canonical(sel \o data, term)

\* appendSequence puts the parts together.
LEMMA AppendSequenceIs ==
  ASSUME NEW d \in Seq(Char), NEW sel \in Seq(Char), NEW data \in Seq(Char), NEW term
  PROVE  SequenceAppended(d, sel, data, term)
<1> DEFINE ended == IF term = "ESC" THEN <<"ESC", "\\">> ELSE <<"BEL">>
           a == <<"ESC", "]">>
           m == <<"SEP">>
           P == a \o NumberText \o m
<1>1. a \in Seq(Char) /\ m \in Seq(Char)
  BY Literals, Singles
<1>2. NumberText \in Seq(Char)
  BY ScannerAssumption, Strings, SeqWiden
<1> HIDE DEF a, m
<1>3. P \in Seq(Char)
  BY <1>1, <1>2, ConcatProperties
<1>4. AppendSequence(d, sel, data, term) = d \o (((P \o sel) \o data) \o ended)
  BY DEF AppendSequence, a, m
<1> HIDE DEF P
<1>5. Regroups(P, sel, data)
  BY <1>3, ConcatRegroups
<1>6. (P \o sel) \o data = P \o (sel \o data)
  BY <1>5 DEF Regroups
<1>7. Canonical(sel \o data, term) = (P \o (sel \o data)) \o ended
  BY DEF Canonical, P, a, m
<1> QED BY <1>4, <1>6, <1>7 DEF SequenceAppended

EmitIsAllowed(policy, d, body, term) ==
    Emitted(policy, d, body, term) = d \o Allowed(policy, body, term)

\* emit hands on what the policy lets through.
LEMMA EmitsAllowed ==
  ASSUME NEW policy \in Policy, NEW d \in Seq(Char), NEW body \in Seq(Char), NEW term
  PROVE  EmitIsAllowed(policy, d, body, term)
<1> SUFFICES Emitted(policy, d, body, term) = d \o Allowed(policy, body, term)
  BY DEF EmitIsAllowed
<1> DEFINE seps  == {i \in 1..Len(body) : body[i] = "SEP"}
           query == \E i \in seps : i = Len(body) - 1 /\ body[i + 1] = "?" /\ Cardinality(seps) = 1
           fixed == IF 1 \in seps /\ ~query THEN <<"c">> \o body ELSE body
           whole == Canonical(fixed, term)
           e     == IndexOf(body, "SEP")
           data  == PdOf(body)
           sel   == SubSeq(body, 1, e - 1)
           named == IF sel = << >> /\ data # <<"?">> THEN <<"c">> ELSE sel
           u     == << >>
           m     == <<"SEP">>
           k     == <<"c">>
<1>1. Allowed(policy, body, term) = IF policy = "Off" \/ (query /\ policy = "Write") THEN u
                                    ELSE whole
  BY DEF Allowed, Canonical
<1>2. Emitted(policy, d, body, term) =
          IF policy = "Off" THEN d
          ELSE IF ~Contains(body, "SEP") THEN AppendSequence(d, u, body, term)
          ELSE IF data = <<"?">> /\ policy # "Full" THEN d
          ELSE AppendSequence(d, named \o m, data, term)
  BY DEF Emitted
<1>8. u \in Seq(Char) /\ m \in Seq(Char) /\ k \in Seq(Char)
  BY EmptySeq, Literals, Singles
<1>3. u \in Seq(Char) /\ m \in Seq(Char) /\ k \in Seq(Char)
      /\ d \o u = d /\ u \o body = body /\ u \o m = m
  <2> HIDE DEF m, k
  <2> QED BY <1>8, ConcatEmptySeq
<1>4. policy \in {"Write", "Full", "Off"}
  BY DEF Policy
<1>5. CASE policy = "Off"
  <2> HIDE DEF u
  <2> QED BY <1>1, <1>2, <1>3, <1>5
<1>6. CASE policy # "Off" /\ ~Contains(body, "SEP")
  <2>1. seps = {}
    BY <1>6 DEF Contains
  <2>2. ~query /\ fixed = body
    BY <2>1
  <2>3. AppendSequence(d, u, body, term) = d \o whole
    <3>1. u \o body = fixed
      BY <1>3, <2>2
    <3> HIDE DEF fixed, u
    <3>2. SequenceAppended(d, u, body, term)
      BY <1>3, AppendSequenceIs
    <3> QED BY <3>1, <3>2 DEF SequenceAppended
  <2> HIDE DEF query, whole, u
  <2> QED BY <1>1, <1>2, <1>6, <2>2, <2>3
<1>7. CASE policy # "Off" /\ Contains(body, "SEP")
  <2>1. PICK j \in 1..Len(body) : body[j] = "SEP"
    BY <1>7 DEF Contains
  <2>2. query <=> data = <<"?">>
    <3> DEFINE ss == seps
    <3>1. ss = {i \in 1..Len(body) : body[i] = "SEP"}
      OBVIOUS
    <3> HIDE DEF seps
    <3> QED BY <2>1, <3>1, QueryIs
  <2>3. e \in 1..Len(body) /\ body[e] = "SEP"
        /\ \A i \in 1..Len(body) : body[i] = "SEP" => e <= i
    BY <2>1, FirstSeparator
  <2>4. data = SubSeq(body, e + 1, Len(body))
    BY DEF PdOf
  <2> HIDE DEF e
  <2>5. /\ sel \in Seq(Char) /\ data \in Seq(Char) /\ Len(sel) = e - 1
        /\ (sel \o m) \o data = body
    <3> HIDE DEF data
    <3> QED BY <2>3, <2>4, CutAt
  <2>6. 1 \in seps <=> e = 1
    BY <2>3, LenProperties
  <2>7. sel = << >> <=> e = 1
    <3> HIDE DEF sel, data
    <3>1. Len(sel) = 0 <=> e = 1
      BY <2>3, <2>5, LenProperties
    <3> QED BY <2>5, <3>1, EmptySeq
  <2> HIDE DEF data, sel, query, seps
  <2>8. CASE query /\ policy = "Write"
    <3> HIDE DEF u, named, whole
    <3> QED BY <1>1, <1>2, <1>3, <1>7, <2>2, <2>8
  <2>9. CASE ~(query /\ policy = "Write")
    <3>1. (named \o m) \o data = fixed
      <4>1. CASE 1 \in seps /\ ~query
        <5>1. named = k /\ fixed = k \o body /\ sel = u
          BY <2>2, <2>6, <2>7, <4>1
        <5> HIDE DEF m, k, u, fixed
        <5>2. m \o data = body
          BY <1>3, <2>5, <5>1
        <5>3. Regroups(k, m, data)
          BY <1>3, <2>5, ConcatRegroups
        <5> QED BY <5>1, <5>2, <5>3 DEF Regroups
      <4>2. CASE ~(1 \in seps /\ ~query)
        <5>1. named = sel /\ fixed = body
          BY <2>2, <2>6, <2>7, <4>2
        <5> QED BY <2>5, <5>1
      <4> QED BY <4>1, <4>2
    <3>2. named \o m \in Seq(Char)
      <4>1. named \in Seq(Char)
        BY <1>3, <2>5
      <4> HIDE DEF named, m
      <4> QED BY <1>3, <4>1, ConcatProperties
    <3>3. AppendSequence(d, named \o m, data, term) = d \o whole
      <4> DEFINE nm == named \o m
      <4>1. nm \in Seq(Char) /\ nm \o data = fixed
        BY <3>1, <3>2
      <4> HIDE DEF fixed, nm
      <4>2. AppendSequence(d, nm, data, term) = d \o whole
        <5>1. SequenceAppended(d, nm, data, term)
          BY <2>5, <4>1, AppendSequenceIs
        <5> QED BY <4>1, <5>1 DEF SequenceAppended
      <4> QED BY <4>2 DEF nm
    <3> HIDE DEF u, named, whole, m
    <3> QED BY <1>1, <1>2, <1>4, <1>7, <2>2, <2>9, <3>3
  <2> QED BY <2>8, <2>9
<1> QED BY <1>5, <1>6, <1>7

\* In u, held from q to n, the first separator ends the header.
HeldBody(u, s, q, b, n) ==
    /\ u \in Seq(Char) /\ IndexOf(u, "SEP") = b - q
    /\ SubSeq(u, b - q + 1, Len(u)) = SubSeq(s, b, n) /\ SubSeq(s, b, n) \in Seq(Char)

\* The body within what is held.
LEMMA BodyOfHeld ==
  ASSUME NEW s \in Seq(Char), NEW q \in Nat \ {0}, NEW b \in BodyStarts(s, q),
         NEW n \in Nat, b <= n + 1, n <= Len(s), NEW u, u = SubSeq(s, q, n)
  PROVE  HeldBody(u, s, q, b, n)
<1>1. Len(s) \in Nat /\ \A i \in 1..Len(s) : s[i] \in Char
  BY LenProperties, ElementOfSeq
<1>2. b \in q + 4..Len(s) + 1 /\ Header(s, q, b)
  BY DEF BodyStarts
<1>3. s[q] = "ESC" /\ s[q + 1] = "]" /\ s[b - 1] = "SEP" /\ \A i \in q + 2..b - 2 : s[i] \in Digits
  BY <1>2 DEF Header
<1>4. b \in Nat /\ q + 4 <= b
  BY <1>1, <1>2
<1>5. /\ u \in Seq(Char) /\ Len(u) = n - q + 1 /\ \A i \in 1..n - q + 1 : u[i] = s[q + i - 1]
  <2>1. q \in Int /\ n \in Int /\ q <= n /\ \A i \in q..n : s[i] \in Char
    BY <1>1, <1>4
  <2>2. /\ u \in Seq(Char) /\ Len(u) = (IF q <= n THEN n - q + 1 ELSE 0)
        /\ \A i \in 1..n - q + 1 : u[i] = s[q + i - 1]
    BY <2>1, SubSeqProperties
  <2> QED BY <2>1, <2>2
<1> DEFINE j == b - q
           k == IndexOf(u, "SEP")
<1>6. j \in 1..Len(u) /\ j \in 1..n - q + 1 /\ q + j - 1 = b - 1 /\ j \in Int
  BY <1>4, <1>5
<1>7. u[j] = "SEP"
  <2> HIDE DEF j
  <2> QED BY <1>3, <1>5, <1>6
<1>8. k \in 1..Len(u) /\ u[k] = "SEP" /\ \A i \in 1..Len(u) : u[i] = "SEP" => k <= i
  <2> HIDE DEF j
  <2> QED BY <1>5, <1>6, <1>7, FirstSeparator
<1> HIDE DEF k
<1>9. k <= j
  <2> HIDE DEF j
  <2> QED BY <1>6, <1>7, <1>8
<1>10. ~(k < j)
  <2> SUFFICES ASSUME k < j PROVE FALSE
    OBVIOUS
  <2>1. k \in 1..n - q + 1
    BY <1>5, <1>8
  <2>2. s[q + k - 1] = "SEP"
    BY <1>5, <1>8, <2>1
  <2>3. q + k - 1 = q \/ q + k - 1 = q + 1 \/ q + k - 1 \in q + 2..b - 2
    BY <1>4, <2>1
  <2> QED BY <1>3, <2>2, <2>3, NoDigit
<1>11. k = j
  BY <1>5, <1>6, <1>8, <1>9, <1>10
<1>12. \A i \in b..n : s[i] \in Char
  BY <1>1, <1>4
<1> DEFINE v == SubSeq(s, b, n)
           w == SubSeq(u, j + 1, Len(u))
<1>13. v \in Seq(Char) /\ Len(v) = (IF b <= n THEN n - b + 1 ELSE 0)
       /\ \A i \in 1..n - b + 1 : v[i] = s[b + i - 1]
  <2>1. b \in Int /\ n \in Int
    BY <1>4
  <2> QED BY <1>12, <2>1, SubSeqProperties
<1>14. w \in Seq(Char) /\ Len(w) = Len(u) - j /\ \A i \in 1..Len(u) - j : w[i] = u[j + i]
  <2> HIDE DEF j
  <2> QED BY <1>5, <1>6, CutAt
<1> HIDE DEF v, w
<1>15. Len(u) - j = n - b + 1 /\ Len(v) = n - b + 1
  BY <1>4, <1>5, <1>13
<1>16. \A i \in 1..Len(v) : v[i] = w[i]
  <2> TAKE i \in 1..Len(v)
  <2>1. i \in 1..n - b + 1 /\ i \in 1..Len(u) - j /\ j + i \in 1..n - q + 1
        /\ q + (j + i) - 1 = b + i - 1
    BY <1>4, <1>15
  <2> HIDE DEF j
  <2>2. v[i] = s[b + i - 1]
    BY <1>13, <2>1
  <2>3. w[i] = u[j + i]
    BY <1>14, <2>1
  <2>4. u[j + i] = s[q + (j + i) - 1]
    BY <1>5, <2>1
  <2> QED BY <2>1, <2>2, <2>3, <2>4
<1>17. v = w
  BY <1>13, <1>14, <1>15, <1>16, SeqEqual
<1> QED BY <1>5, <1>11, <1>13, <1>17 DEF k, v, w, HeldBody

\* What the sequence held from q to n becomes when it is complete.
Outcome(policy, s, q, b, n, term) ==
    IF n + 1 - q > maxSequence THEN << >> ELSE Allowed(policy, SubSeq(s, b, n), term)

EmitsOutcome(f, d, s, q, b, n, term) ==
    /\ Emit([f |-> f, dst |-> d], term) =
           [f |-> Reset(f), dst |-> d \o Outcome(f.policy, s, q, b, n, term)]
    /\ Outcome(f.policy, s, q, b, n, term) \in Seq(Char)

\* emit writes it.
LEMMA EmitIs ==
  ASSUME NEW s \in Seq(Char), NEW q \in Nat \ {0}, NEW b \in BodyStarts(s, q),
         NEW n \in Nat, b <= n + 1, n <= Len(s), NEW f \in FilterType,
         HoldsUpTo(s, f, q, n), NEW d \in Seq(Char), NEW term
  PROVE  EmitsOutcome(f, d, s, q, b, n, term)
<1> DEFINE whole == f.buf
           body  == SubSeq(whole, IndexOf(whole, "SEP") + 1, Len(whole))
           dst   == IF f.dropping THEN d ELSE Emitted(f.policy, d, body, term)
<1>1. Emit([f |-> f, dst |-> d], term) = [f |-> Reset(f), dst |-> dst]
  BY DEF Emit, Emitted
<1>2. CASE n + 1 - q > maxSequence
  <2>1. f.dropping = TRUE
    BY <1>2 DEF HoldsUpTo
  <2>2. Outcome(f.policy, s, q, b, n, term) = << >>
    BY <1>2 DEF Outcome
  <2>3. << >> \in Seq(Char) /\ d \o << >> = d
    BY EmptySeq, ConcatEmptySeq
  <2> HIDE DEF body, whole
  <2> QED BY <1>1, <2>1, <2>2, <2>3 DEF EmitsOutcome
<1>3. CASE ~(n + 1 - q > maxSequence)
  <2>1. f.dropping = FALSE /\ whole = SubSeq(s, q, n)
    BY <1>3 DEF HoldsUpTo
  <2> HIDE DEF whole
  <2>2. IndexOf(whole, "SEP") = b - q /\ SubSeq(s, b, n) \in Seq(Char)
        /\ SubSeq(whole, b - q + 1, Len(whole)) = SubSeq(s, b, n)
    <3>1. HeldBody(whole, s, q, b, n)
      BY <2>1, BodyOfHeld
    <3> QED BY <3>1 DEF HeldBody
  <2>3. body = SubSeq(s, b, n) /\ body \in Seq(Char)
    BY <2>2
  <2> HIDE DEF body
  <2>4. Emitted(f.policy, d, body, term) = d \o Allowed(f.policy, body, term)
    <3>1. PICK policy \in Policy : policy = f.policy
      BY FilterFields
    <3>2. EmitIsAllowed(policy, d, body, term)
      BY <2>3, EmitsAllowed
    <3> QED BY <3>1, <3>2 DEF EmitIsAllowed
  <2>5. Outcome(f.policy, s, q, b, n, term) = Allowed(f.policy, body, term)
    BY <1>3, <2>3 DEF Outcome
  <2>6. Allowed(f.policy, body, term) \in Seq(Char)
    BY <2>3, AllowedType
  <2> QED BY <1>1, <2>1, <2>4, <2>5, <2>6 DEF EmitsOutcome
<1> QED BY <1>2, <1>3

-----------------------------------------------------------------------------
(* Where a string ends *)

\* The string whose body begins at b ended at e, in s and in whatever follows.
Ended(s, q, b, e) == Runs(s, q, b, e - 1) /\ e \in b..Len(s) /\ s[e] \in Stops

\* What an item is once the string ended, however the input goes on.
EndedItem(t, s, q, b, e) ==
    /\ BodyStarts(t, q) = {b} /\ Min(BodyStarts(t, q)) = b /\ Stop(t, b) = e /\ e # 0
    /\ t[e] = s[e] /\ SubSeq(t, b, e - 1) = SubSeq(s, b, e - 1)
    /\ e + 1 <= Len(s) => t[e + 1] = s[e + 1] /\ e # Len(t)

LEMMA EndedItemIs ==
  ASSUME NEW s \in Seq(Char), NEW t \in Seq(Char), Extends(t, s), NEW q \in Nat \ {0},
         NEW b \in BodyStarts(s, q), NEW e, Ended(s, q, b, e)
  PROVE  EndedItem(t, s, q, b, e)
<1>1. Len(s) \in Nat /\ Len(t) \in Nat /\ Len(s) <= Len(t) /\ \A i \in 1..Len(s) : t[i] = s[i]
  BY LenProperties DEF Extends
<1>2. b \in q + 4..Len(s) + 1
  BY DEF BodyStarts
<1>3. e \in b..Len(s) /\ s[e] \in Stops /\ \A i \in b..e - 1 : s[i] \notin Stops
  BY DEF Ended, Runs
<1>4. b \in Nat \ {0} /\ e \in 1..Len(s) /\ e # 0 /\ e - 1 \in Int /\ e - 1 <= Len(s)
      /\ (e + 1 <= Len(s) => e + 1 \in 1..Len(s) /\ e # Len(t))
  BY <1>1, <1>2, <1>3
<1>5. BodyStarts(t, q) = {b} /\ Min(BodyStarts(t, q)) = b
  BY SameBodyStart
<1>6. Stop(t, b) = e
  BY <1>3, <1>4, SameStop
<1>7. SubSeq(t, b, e - 1) = SubSeq(s, b, e - 1)
  <2>1. CutAlike(t, s, b, e - 1)
    BY <1>4, SameCut
  <2> QED BY <2>1 DEF CutAlike
<1> QED BY <1>1, <1>4, <1>5, <1>6, <1>7 DEF EndedItem

\* The outcome is the output of the item.
OutcomeFits(policy, t, s, q, b, e) ==
    Outcome(policy, s, q, b, e - 1, s[e]) =
        IF e - q <= maxSequence THEN Allowed(policy, SubSeq(t, b, e - 1), t[e]) ELSE << >>

\* A string within its limits.
LEMMA OutcomeIs ==
  ASSUME NEW policy, NEW t, NEW s, NEW q \in Nat, NEW b, NEW e \in Nat, EndedItem(t, s, q, b, e)
  PROVE  OutcomeFits(policy, t, s, q, b, e)
<1>1. t[e] = s[e] /\ SubSeq(t, b, e - 1) = SubSeq(s, b, e - 1)
  BY DEF EndedItem
<1>2. (e - q <= maxSequence) <=> ~((e - 1) + 1 - q > maxSequence)
  BY ScannerAssumption
<1> QED BY <1>1, <1>2 DEF Outcome, OutcomeFits

\* BEL completes it.
LEMMA BelYields ==
  ASSUME NEW policy, NEW s \in Seq(Char), NEW q \in Nat \ {0}, NEW b \in BodyStarts(s, q),
         NEW e \in Nat, Ended(s, q, b, e), s[e] = "BEL"
  PROVE  Yields(policy, s, q, Outcome(policy, s, q, b, e - 1, "BEL"), e + 1)
<1> SUFFICES ASSUME NEW t \in Seq(Char), NEW rest \in BOOLEAN, Extends(t, s)
             PROVE  /\ Item(policy, t, q, rest).out = Outcome(policy, s, q, b, e - 1, "BEL")
                    /\ Item(policy, t, q, rest).next = e + 1
  BY DEF Yields
<1>1. EndedItem(t, s, q, b, e)
  BY EndedItemIs
<1>2. Outcome(policy, s, q, b, e - 1, "BEL") =
          IF e - q <= maxSequence THEN Allowed(policy, SubSeq(t, b, e - 1), t[e]) ELSE << >>
  <2>1. OutcomeFits(policy, t, s, q, b, e)
    BY <1>1, OutcomeIs
  <2> QED BY <2>1 DEF OutcomeFits
<1>3. BodyStarts(t, q) # {} /\ Min(BodyStarts(t, q)) = b /\ Stop(t, b) = e /\ e # 0 /\ t[e] = "BEL"
  BY <1>1 DEF EndedItem
<1> QED BY <1>2, <1>3 DEF Item

\* CAN abandons it.
LEMMA CanYields ==
  ASSUME NEW policy, NEW s \in Seq(Char), NEW q \in Nat \ {0}, NEW b \in BodyStarts(s, q),
         NEW e \in Nat, Ended(s, q, b, e), s[e] = "CAN"
  PROVE  Yields(policy, s, q, << >>, e + 1)
<1> SUFFICES ASSUME NEW t \in Seq(Char), NEW rest \in BOOLEAN, Extends(t, s)
             PROVE  /\ Item(policy, t, q, rest).out = << >>
                    /\ Item(policy, t, q, rest).next = e + 1
  BY DEF Yields
<1>1. EndedItem(t, s, q, b, e)
  BY EndedItemIs
<1>2. BodyStarts(t, q) # {} /\ Min(BodyStarts(t, q)) = b /\ Stop(t, b) = e /\ e # 0 /\ t[e] = "CAN"
  BY <1>1 DEF EndedItem
<1> QED BY <1>2 DEF Item

\* ESC and backslash complete it.
LEMMA StYields ==
  ASSUME NEW policy, NEW s \in Seq(Char), NEW q \in Nat \ {0}, NEW b \in BodyStarts(s, q),
         NEW e \in Nat, Ended(s, q, b, e), s[e] = "ESC", e + 1 <= Len(s), s[e + 1] = "\\"
  PROVE  Yields(policy, s, q, Outcome(policy, s, q, b, e - 1, "ESC"), e + 2)
<1> SUFFICES ASSUME NEW t \in Seq(Char), NEW rest \in BOOLEAN, Extends(t, s)
             PROVE  /\ Item(policy, t, q, rest).out = Outcome(policy, s, q, b, e - 1, "ESC")
                    /\ Item(policy, t, q, rest).next = e + 2
  BY DEF Yields
<1>1. EndedItem(t, s, q, b, e)
  BY EndedItemIs
<1>2. Outcome(policy, s, q, b, e - 1, "ESC") =
          IF e - q <= maxSequence THEN Allowed(policy, SubSeq(t, b, e - 1), t[e]) ELSE << >>
  <2>1. OutcomeFits(policy, t, s, q, b, e)
    BY <1>1, OutcomeIs
  <2> QED BY <2>1 DEF OutcomeFits
<1>3. BodyStarts(t, q) # {} /\ Min(BodyStarts(t, q)) = b /\ Stop(t, b) = e /\ e # 0 /\ t[e] = "ESC"
      /\ e # Len(t) /\ t[e + 1] = "\\"
  BY <1>1 DEF EndedItem
<1> QED BY <1>2, <1>3 DEF Item

\* ESC and anything else drops it, and the ESC is read again.
LEMMA AbortYields ==
  ASSUME NEW policy, NEW s \in Seq(Char), NEW q \in Nat \ {0}, NEW b \in BodyStarts(s, q),
         NEW e \in Nat, Ended(s, q, b, e), s[e] = "ESC", e + 1 <= Len(s), s[e + 1] # "\\"
  PROVE  Yields(policy, s, q, << >>, e)
<1> SUFFICES ASSUME NEW t \in Seq(Char), NEW rest \in BOOLEAN, Extends(t, s)
             PROVE  /\ Item(policy, t, q, rest).out = << >>
                    /\ Item(policy, t, q, rest).next = e
  BY DEF Yields
<1>1. EndedItem(t, s, q, b, e)
  BY EndedItemIs
<1>2. BodyStarts(t, q) # {} /\ Min(BodyStarts(t, q)) = b /\ Stop(t, b) = e /\ e # 0 /\ t[e] = "ESC"
      /\ e # Len(t) /\ t[e + 1] # "\\"
  BY <1>1 DEF EndedItem
<1> QED BY <1>2 DEF Item

\* A string done with: nothing is held after it.
LEMMA ReadsDone ==
  ASSUME NEW t \in Seq(Char), NEW f \in FilterType, NEW d \in Seq(Char), NEW o \in Seq(Char),
         NEW x \in Seq(Char), Settled(f.policy, t, Len(t) + 1, o \o x)
  PROVE  Reads(t, f.policy, d, o, [f |-> Reset(f), dst |-> d \o x])
<1> DEFINE g == Reset(f)
           r == [f |-> g, dst |-> d \o x]
<1>1. g \in FilterType /\ Idle(g) /\ g.policy = f.policy
  BY ResetIdle
<1> HIDE DEF g
<1>2. Len(t) \in Nat /\ d \o x \in Seq(Char) /\ o \o x \in Seq(Char)
  BY LenProperties, ConcatProperties
<1>3. Len(t) + 1 \in 1..Len(t) + 1
  BY <1>2
<1>4. Holding(t, g, Len(t) + 1)
  BY <1>1 DEF Holding
<1>5. Reads(t, f.policy, d \o x, o \o x, r)
  BY <1>1, <1>2, <1>3, <1>4, ReadsSilently
<1> HIDE DEF r
<1>6. Reads(t, f.policy, d, o, r)
  BY <1>5, ReadsAfter
<1> QED BY <1>6 DEF r, g

\* What is held, and one byte more of input.
LEMMA HeldGrows ==
  ASSUME NEW s \in Seq(Char), NEW t \in Seq(Char), Extends(t, s), NEW q \in Nat \ {0},
         NEW b \in BodyStarts(s, q), NEW n \in Nat, n <= Len(s), Runs(s, q, b, n),
         NEW f, HoldsUpTo(s, f, q, n)
  PROVE  Runs(t, q, b, n) /\ HoldsUpTo(t, f, q, n) /\ b \in BodyStarts(t, q)
<1>1. Len(s) \in Nat /\ \A i \in 1..Len(s) : t[i] = s[i]
  BY LenProperties DEF Extends
<1>2. b \in BodyStarts(t, q)
  BY SameBodyStart
<1>3. b \in q + 4..Len(s) + 1
  BY DEF BodyStarts
<1>4. b <= n + 1 /\ \A i \in b..n : t[i] \notin Stops
  <2>1. \A i \in b..n : i \in 1..Len(s)
    BY <1>1, <1>3
  <2> QED BY <1>1, <2>1 DEF Runs
<1>5. SubSeq(t, q, n) = SubSeq(s, q, n)
  <2>1. n \in Int
    OBVIOUS
  <2>2. CutAlike(t, s, q, n)
    BY <2>1, SameCut
  <2> QED BY <2>2 DEF CutAlike
<1> QED BY <1>2, <1>4, <1>5 DEF Runs, HoldsUpTo

\* g is f but for what it holds.
SameButHeld(f, g) == g \in FilterType /\ g.policy = f.policy /\ g.state = f.state

\* The ordinary byte of a body, held or not.
LEMMA HoldFields ==
  ASSUME NEW f \in FilterType, NEW c \in Char
  PROVE  /\ SameButHeld(f, Hold(f, c))
         /\ f.dropping = TRUE => Hold(f, c) = f
         /\ f.dropping = FALSE /\ Len(f.buf) >= maxSequence =>
                Hold(f, c).dropping = TRUE /\ Hold(f, c).buf = << >>
         /\ f.dropping = FALSE /\ ~(Len(f.buf) >= maxSequence) =>
                Hold(f, c).dropping = FALSE /\ Hold(f, c).buf = Append(f.buf, c)
<1>1. PICK w : w = Append(f.buf, c)
  OBVIOUS
<1>2. w \in Seq(Char) /\ << >> \in Seq(Char)
  BY <1>1, FilterFields, AppendProperties, EmptySeq
<1>3. f = [policy |-> f.policy, state |-> f.state, buf |-> f.buf, num |-> f.num,
           digits |-> f.digits, dropping |-> f.dropping]
      /\ f.dropping \in BOOLEAN
  BY FilterFields
<1>4. CASE f.dropping = TRUE
  <2>1. Hold(f, c) = f
    BY <1>4 DEF Hold
  <2> QED BY <1>4, <2>1 DEF SameButHeld
<1>5. CASE f.dropping = FALSE /\ Len(f.buf) >= maxSequence
  <2>1. Hold(f, c) = [f EXCEPT !.dropping = TRUE, !.buf = << >>]
    BY <1>5 DEF Hold
  <2>2. Hold(f, c) = [policy |-> f.policy, state |-> f.state, buf |-> << >>, num |-> f.num,
                      digits |-> f.digits, dropping |-> TRUE]
    BY <1>3, <2>1
  <2>3. Hold(f, c) \in FilterType
    BY <1>2, <2>2, FilterFields DEF FilterType
  <2> QED BY <1>5, <2>2, <2>3 DEF SameButHeld
<1>6. CASE f.dropping = FALSE /\ ~(Len(f.buf) >= maxSequence)
  <2>1. Hold(f, c) = [f EXCEPT !.buf = w]
    BY <1>1, <1>6 DEF Hold
  <2>2. Hold(f, c) = [policy |-> f.policy, state |-> f.state, buf |-> w, num |-> f.num,
                      digits |-> f.digits, dropping |-> f.dropping]
    BY <1>3, <2>1
  <2>3. Hold(f, c) \in FilterType
    BY <1>2, <2>2, FilterFields DEF FilterType
  <2> QED BY <1>1, <1>6, <2>2, <2>3 DEF SameButHeld
<1> QED BY <1>3, <1>4, <1>5, <1>6

\* It is held as long as the sequence is within the limit.
LEMMA HoldHolds ==
  ASSUME NEW t \in Seq(Char), NEW q \in Nat \ {0}, NEW n \in Nat, q <= n, Len(t) = n + 1,
         NEW f \in FilterType, HoldsUpTo(t, f, q, n)
  PROVE  HoldsUpTo(t, Hold(f, t[n + 1]), q, n + 1)
<1> DEFINE c == t[n + 1]
           g == Hold(f, c)
<1>1. c \in Char /\ \A i \in q..n : t[i] \in Char
  <2>1. \A i \in 1..n + 1 : t[i] \in Char
    BY ElementOfSeq
  <2> QED BY <2>1
<1>2. maxSequence \in Nat
  BY ScannerAssumption
<1> HIDE DEF c
<1>3. CASE n + 1 - q > maxSequence
  <2>1. f.dropping = TRUE /\ f.buf = << >>
    BY <1>3 DEF HoldsUpTo
  <2>2. g = f
    BY <1>1, <2>1, HoldFields
  <2>3. n + 1 + 1 - q > maxSequence
    BY <1>2, <1>3
  <2> HIDE DEF g
  <2> QED BY <2>1, <2>2, <2>3 DEF HoldsUpTo, g, c
<1>4. CASE ~(n + 1 - q > maxSequence)
  <2>1. f.dropping = FALSE /\ f.buf = SubSeq(t, q, n)
    BY <1>4 DEF HoldsUpTo
  <2>2. Len(f.buf) = n + 1 - q
    <3>1. q \in Int /\ n \in Int /\ n - q + 1 = n + 1 - q
      OBVIOUS
    <3>2. Len(SubSeq(t, q, n)) = (IF q <= n THEN n - q + 1 ELSE 0)
      BY <1>1, <3>1, SubSeqProperties
    <3> QED BY <2>1, <3>1, <3>2
  <2>3. CASE n + 1 - q >= maxSequence
    <3>1. g.dropping = TRUE /\ g.buf = << >>
      <4>1. Len(f.buf) >= maxSequence
        BY <2>2, <2>3
      <4> QED BY <1>1, <2>1, <4>1, HoldFields
    <3>2. n + 1 + 1 - q > maxSequence
      BY <1>2, <2>3
    <3> HIDE DEF g
    <3> QED BY <3>1, <3>2 DEF HoldsUpTo, g, c
  <2>4. CASE ~(n + 1 - q >= maxSequence)
    <3>1. g.dropping = FALSE /\ g.buf = Append(f.buf, c)
      <4>1. ~(Len(f.buf) >= maxSequence)
        BY <2>2, <2>4
      <4> QED BY <1>1, <2>1, <4>1, HoldFields
    <3>2. ~(n + 1 + 1 - q > maxSequence)
      BY <1>2, <2>4
    <3>3. SubSeq(t, q, n + 1) = Append(f.buf, c)
      <4>1. q \in 1..Len(t) /\ n + 1 \in q..Len(t) /\ (n + 1) - 1 = n
        OBVIOUS
      <4>2. SubSeq(t, q, n + 1) = Append(SubSeq(t, q, (n + 1) - 1), t[n + 1])
        BY <4>1, CutMore
      <4> QED BY <2>1, <4>1, <4>2 DEF c
    <3> HIDE DEF g
    <3> QED BY <3>1, <3>2, <3>3 DEF HoldsUpTo, g, c
  <2> QED BY <2>3, <2>4
<1> QED BY <1>3, <1>4

\* A byte of a body.
LEMMA BodyStep ==
  ASSUME NEW s \in Seq(Char), NEW c \in Char, NEW f \in FilterType,
         NEW q \in 1..Len(s) + 1, InBody(s, f, q),
         NEW d \in Seq(Char), NEW o \in Seq(Char), Settled(f.policy, s, q, o)
  PROVE  Reads(Append(s, c), f.policy, d, o, Body([f |-> f, dst |-> d], c))
<1> DEFINE r == Body([f |-> f, dst |-> d], c)
<1>1. PICK t, n : t = Append(s, c) /\ n = Len(s)
  OBVIOUS
<1>2. /\ t \in Seq(Char) /\ Len(t) = n + 1 /\ Extends(t, s) /\ t[n + 1] = c /\ n \in Nat
      /\ \A i \in 1..n : t[i] = s[i]
  BY <1>1, OneMore
<1>3. PICK b \in BodyStarts(s, q) : Runs(s, q, b, n)
  BY <1>1 DEF InBody
<1>4. f.state = "stBody" /\ HoldsUpTo(s, f, q, n) /\ q \in Nat \ {0} /\ n <= Len(s)
  BY <1>1, <1>2 DEF InBody
<1>5. Runs(t, q, b, n) /\ HoldsUpTo(t, f, q, n) /\ b \in BodyStarts(t, q)
  BY <1>2, <1>3, <1>4, HeldGrows
<1>6. b <= n + 1 /\ b \in Nat /\ q + 4 <= b /\ \A i \in b..n : t[i] \notin Stops
  <2>1. b \in q + 4..Len(s) + 1
    BY DEF BodyStarts
  <2> QED BY <1>1, <1>2, <1>5, <2>1 DEF Runs
<1>7. Settled(f.policy, t, q, o)
  BY <1>2, SettledGrows
<1> DEFINE e == n + 1
<1>8. e \in Nat /\ e - 1 = n /\ e \in b..Len(t) /\ q \in 1..Len(t) /\ q \in 1..Len(t) + 1
      /\ e + 1 \in 1..Len(t) + 1 /\ e + 1 = Len(t) + 1 /\ q <= n /\ n <= Len(t)
  BY <1>2, <1>4, <1>6
<1>9. c \in Stops => Ended(t, q, b, e)
  <2> HIDE DEF e
  <2> QED BY <1>2, <1>5, <1>8 DEF Ended, e
<1>10. CASE c = "BEL"
  <2> DEFINE x == Outcome(f.policy, t, q, b, n, "BEL")
  <2>1. r = Emit([f |-> f, dst |-> d], "BEL")
    BY <1>10 DEF Body
  <2>2. r = [f |-> Reset(f), dst |-> d \o x] /\ x \in Seq(Char)
    <3>1. n <= Len(t)
      BY <1>8
    <3>2. EmitsOutcome(f, d, t, q, b, n, "BEL")
      BY <1>2, <1>4, <1>5, <1>6, <3>1, EmitIs
    <3> QED BY <2>1, <3>2 DEF EmitsOutcome
  <2>3. Yields(f.policy, t, q, x, e + 1)
    <3>1. Ended(t, q, b, e) /\ t[e] = "BEL"
      BY <1>2, <1>9, <1>10 DEF Stops
    <3> HIDE DEF e
    <3>2. Yields(f.policy, t, q, Outcome(f.policy, t, q, b, e - 1, "BEL"), e + 1)
      BY <1>2, <1>4, <1>5, <1>8, <3>1, BelYields
    <3> QED BY <1>8, <3>2
  <2> HIDE DEF x, r, e
  <2>4. Settled(f.policy, t, Len(t) + 1, o \o x)
    BY <1>2, <1>7, <1>8, <2>2, <2>3, SettledMoves
  <2>5. Reads(t, f.policy, d, o, r)
    BY <1>2, <2>2, <2>4, ReadsDone
  <2> QED BY <1>1, <2>5 DEF r
<1>11. CASE c = "CAN"
  <2> DEFINE x == << >>
  <2>1. r = [f |-> Reset(f), dst |-> d] /\ x \in Seq(Char) /\ d \o x = d
    BY <1>11, EmptySeq, ConcatEmptySeq DEF Body, Discard
  <2>2. Yields(f.policy, t, q, x, e + 1)
    <3>1. Ended(t, q, b, e) /\ t[e] = "CAN"
      BY <1>2, <1>9, <1>11 DEF Stops
    <3> HIDE DEF e
    <3> QED BY <1>2, <1>4, <1>5, <1>8, <3>1, CanYields
  <2> HIDE DEF x, r, e
  <2>3. Settled(f.policy, t, Len(t) + 1, o \o x)
    BY <1>2, <1>7, <1>8, <2>1, <2>2, SettledMoves
  <2>4. Reads(t, f.policy, d, o, [f |-> Reset(f), dst |-> d \o x])
    BY <1>2, <2>1, <2>3, ReadsDone
  <2> QED BY <1>1, <2>1, <2>4 DEF r
<1>12. CASE c = "ESC"
  <2> DEFINE g == [f EXCEPT !.state = "stBodyEsc"]
  <2>1. r = [f |-> g, dst |-> d]
    BY <1>12 DEF Body
  <2>2. /\ g \in FilterType /\ g.policy = f.policy /\ g.state = "stBodyEsc"
        /\ g.buf = f.buf /\ g.dropping = f.dropping
    BY DEF FilterType
  <2> HIDE DEF g
  <2>3. HoldsUpTo(t, g, q, n)
    BY <1>5, <2>2 DEF HoldsUpTo
  <2>4. t[Len(t)] = "ESC" /\ Len(t) - 1 = n
    BY <1>2, <1>12
  <2>5. Holding(t, g, q)
    BY <1>5, <2>2, <2>3, <2>4 DEF Holding, InBodyEsc
  <2> HIDE DEF r
  <2>6. Reads(t, f.policy, d, o, r)
    BY <1>2, <1>7, <1>8, <2>1, <2>2, <2>5, ReadsSilently
  <2> QED BY <1>1, <2>6 DEF r
<1>13. CASE c \notin Stops
  <2> DEFINE g == Hold(f, c)
  <2>1. r = [f |-> g, dst |-> d]
    BY <1>13 DEF Body, Stops
  <2>2. g \in FilterType /\ g.policy = f.policy /\ g.state = "stBody"
    <3>1. SameButHeld(f, g)
      BY HoldFields
    <3> QED BY <1>4, <3>1 DEF SameButHeld
  <2>3. HoldsUpTo(t, g, q, Len(t))
    <3>1. HoldsUpTo(t, Hold(f, t[n + 1]), q, n + 1)
      BY <1>2, <1>4, <1>5, <1>8, HoldHolds
    <3> QED BY <1>2, <3>1
  <2> HIDE DEF g
  <2>4. Runs(t, q, b, Len(t))
    <3>1. \A i \in b..Len(t) : t[i] \notin Stops
      <4> TAKE i \in b..Len(t)
      <4>1. i = n + 1 \/ i \in b..n
        BY <1>2, <1>6
      <4> QED BY <1>2, <1>6, <1>13, <4>1
    <3>2. b <= Len(t) + 1
      BY <1>2, <1>6
    <3> QED BY <1>5, <3>1, <3>2 DEF Runs
  <2>5. Holding(t, g, q)
    BY <1>5, <2>2, <2>3, <2>4 DEF Holding, InBody
  <2> HIDE DEF r
  <2>6. Reads(t, f.policy, d, o, r)
    BY <1>2, <1>7, <1>8, <2>1, <2>2, <2>5, ReadsSilently
  <2> QED BY <1>1, <2>6 DEF r
<1> QED BY <1>10, <1>11, <1>12, <1>13 DEF Stops

\* The byte after an ESC in a body.
LEMMA BodyEscStep ==
  ASSUME NEW s \in Seq(Char), NEW c \in Char, NEW f \in FilterType,
         NEW q \in 1..Len(s) + 1, InBodyEsc(s, f, q),
         NEW d \in Seq(Char), NEW o \in Seq(Char), Settled(f.policy, s, q, o)
  PROVE  Reads(Append(s, c), f.policy, d, o, BodyEsc([f |-> f, dst |-> d], c))
<1> DEFINE r == BodyEsc([f |-> f, dst |-> d], c)
<1>1. PICK t, e, n : t = Append(s, c) /\ e = Len(s) /\ n = e - 1
  OBVIOUS
<1>2. /\ t \in Seq(Char) /\ Len(t) = e + 1 /\ Extends(t, s) /\ t[e + 1] = c /\ e \in Nat
      /\ \A i \in 1..e : t[i] = s[i]
  BY <1>1, OneMore
<1>3. PICK b \in BodyStarts(s, q) : Runs(s, q, b, n)
  BY <1>1 DEF InBodyEsc
<1>4. HoldsUpTo(s, f, q, n) /\ s[e] = "ESC"
  BY <1>1 DEF InBodyEsc
<1>5. /\ b \in Nat /\ q + 4 <= b /\ n \in Nat /\ n <= Len(s) /\ q \in Nat \ {0} /\ b <= n + 1
      /\ n <= Len(t) /\ e \in b..Len(t) /\ e \in 1..e /\ q \in 1..Len(t) /\ e - 1 = n
      /\ e \in 1..Len(t) + 1 /\ e + 2 \in 1..Len(t) + 1 /\ e + 2 = Len(t) + 1 /\ e + 1 <= Len(t)
      /\ Len(t) > 1 /\ Len(t) - 1 = e
  <2>1. b \in q + 4..Len(s) + 1 /\ b <= n + 1
    BY <1>3 DEF BodyStarts, Runs
  <2> QED BY <1>1, <1>2, <2>1
<1>6. Runs(t, q, b, n) /\ HoldsUpTo(t, f, q, n) /\ b \in BodyStarts(t, q)
  BY <1>2, <1>3, <1>4, <1>5, HeldGrows
<1>7. Settled(f.policy, t, q, o)
  BY <1>2, SettledGrows
<1>8. t[e] = "ESC" /\ Ended(t, q, b, e)
  <2>1. t[e] = "ESC"
    BY <1>2, <1>4, <1>5
  <2> QED BY <1>5, <1>6, <2>1 DEF Ended, Stops
<1>9. CASE c = "\\"
  <2> DEFINE x == Outcome(f.policy, t, q, b, n, "ESC")
  <2>1. r = Emit([f |-> f, dst |-> d], "ESC")
    BY <1>9 DEF BodyEsc
  <2>2. r = [f |-> Reset(f), dst |-> d \o x] /\ x \in Seq(Char)
    <3>1. EmitsOutcome(f, d, t, q, b, n, "ESC")
      BY <1>2, <1>5, <1>6, EmitIs
    <3> QED BY <2>1, <3>1 DEF EmitsOutcome
  <2>3. Yields(f.policy, t, q, x, e + 2)
    <3>1. Yields(f.policy, t, q, Outcome(f.policy, t, q, b, e - 1, "ESC"), e + 2)
      BY <1>2, <1>5, <1>6, <1>8, <1>9, StYields
    <3> QED BY <1>5, <3>1
  <2> HIDE DEF x, r
  <2>4. Settled(f.policy, t, Len(t) + 1, o \o x)
    BY <1>2, <1>5, <1>7, <2>2, <2>3, SettledMoves
  <2>5. Reads(t, f.policy, d, o, r)
    BY <1>2, <2>2, <2>4, ReadsDone
  <2> QED BY <1>1, <2>5 DEF r
<1>10. CASE c # "\\"
  <2> DEFINE x == << >>
             g == HoldEsc(Reset(f))
  <2>1. r = Esc([f |-> g, dst |-> d], c)
    <3>1. Discard([f |-> f, dst |-> d]) = [f |-> Reset(f), dst |-> d]
      BY DEF Discard
    <3>2. [[f |-> Reset(f), dst |-> d] EXCEPT !.f = HoldEsc(@)] = [f |-> g, dst |-> d]
      OBVIOUS
    <3>3. r = Esc([Discard([f |-> f, dst |-> d]) EXCEPT !.f = HoldEsc(@)], c)
      BY <1>10 DEF BodyEsc
    <3> HIDE DEF r, g
    <3> QED BY <3>1, <3>2, <3>3
  <2>2. /\ g \in FilterType /\ g.policy = f.policy /\ g.state = "stEsc"
        /\ g.buf = <<"ESC">> /\ g.dropping = FALSE
    <3>1. Reset(f) \in FilterType /\ Reset(f).policy = f.policy /\ Reset(f).dropping = FALSE
      BY ResetIdle DEF Idle
    <3>2. g.dropping = Reset(f).dropping
      BY <3>1 DEF FilterType, HoldEsc
    <3>3. g \in FilterType /\ g.policy = f.policy /\ g.state = "stEsc" /\ g.buf = <<"ESC">>
      BY <3>1, Literals, Singles DEF FilterType, HoldEsc
    <3> QED BY <3>1, <3>2, <3>3
  <2> HIDE DEF g
  <2>3. Yields(f.policy, t, q, x, e)
    BY <1>2, <1>5, <1>6, <1>8, <1>10, AbortYields
  <2>4. x \in Seq(Char) /\ o \o x = o
    BY EmptySeq, ConcatEmptySeq
  <2> HIDE DEF x, r
  <2>5. Settled(g.policy, t, Len(t) - 1, o)
    <3>1. Settled(f.policy, t, e, o \o x)
      BY <1>2, <1>5, <1>7, <2>3, <2>4, SettledMoves
    <3> QED BY <1>5, <2>2, <2>4, <3>1
  <2>6. t[Len(t) - 1] = "ESC" /\ t[Len(t)] = c
    BY <1>2, <1>5, <1>8
  <2>7. Reads(t, g.policy, d, o, Esc([f |-> g, dst |-> d], t[Len(t)]))
    BY <1>2, <1>5, <2>2, <2>5, <2>6, EscStep
  <2> QED BY <1>1, <2>1, <2>2, <2>6, <2>7 DEF r
<1> QED BY <1>9, <1>10

-----------------------------------------------------------------------------
(* Scanning *)

\* Whatever state the scanner is in, it goes on as it should.
LEMMA ByteStep ==
  ASSUME NEW s \in Seq(Char), NEW c \in Char, NEW f \in FilterType,
         NEW d \in Seq(Char), NEW o \in Seq(Char), ScanInv(s, f, o)
  PROVE  Reads(Append(s, c), f.policy, d, o, ScanByte([f |-> f, dst |-> d], c))
<1> DEFINE st == [f |-> f, dst |-> d]
           r == ScanByte(st, c)
<1>1. PICK q \in 1..Len(s) + 1 : Holding(s, f, q) /\ Settled(f.policy, s, q, o)
  BY DEF ScanInv
<1>2. PICK t : t = Append(s, c)
  OBVIOUS
<1>3. /\ t \in Seq(Char) /\ Len(t) = Len(s) + 1 /\ t[Len(t)] = c /\ Extends(t, s)
      /\ Len(s) \in Nat /\ \A i \in 1..Len(s) : t[i] = s[i]
  BY <1>2, OneMore
<1>4. Settled(f.policy, t, q, o)
  BY <1>1, <1>3, SettledGrows
<1>5. st.f = f
  OBVIOUS
<1>6. CASE Idle(f) /\ q = Len(s) + 1
  <2>1. r = Text(st, c)
    <3> HIDE DEF st
    <3> QED BY <1>5, <1>6 DEF ScanByte, Idle
  <2>2. Len(t) > 0
    BY <1>3
  <2>3. Reads(t, f.policy, d, o, Text(st, t[Len(t)]))
    BY <1>3, <1>4, <1>6, <2>2, TextStep
  <2> HIDE DEF r, st
  <2> QED BY <1>2, <1>3, <2>1, <2>3 DEF r, st
<1>7. CASE InEsc(s, f, q)
  <2>1. f.state = "stEsc" /\ f.buf = <<"ESC">> /\ f.dropping = FALSE /\ q = Len(s) /\ s[q] = "ESC"
    BY <1>7 DEF InEsc
  <2>2. r = Esc(st, c)
    <3> HIDE DEF st
    <3> QED BY <1>5, <2>1 DEF ScanByte
  <2>3. Len(t) > 1 /\ Len(t) - 1 = q /\ q \in 1..Len(s)
    BY <1>3, <2>1
  <2>4. t[Len(t) - 1] = "ESC"
    BY <1>3, <2>1, <2>3
  <2>5. Settled(f.policy, t, Len(t) - 1, o)
    BY <1>4, <2>3
  <2>6. Reads(t, f.policy, d, o, Esc(st, t[Len(t)]))
    BY <1>3, <2>1, <2>3, <2>4, <2>5, EscStep
  <2> HIDE DEF r, st
  <2> QED BY <1>2, <1>3, <2>2, <2>6 DEF r, st
<1>8. CASE InPrefix(s, f, q)
  <2>1. r = Prefix(st, c)
    <3> HIDE DEF st
    <3> QED BY <1>5, <1>8 DEF ScanByte, InPrefix
  <2>2. Reads(t, f.policy, d, o, Prefix(st, c))
    BY <1>1, <1>2, <1>8, PrefixStep
  <2> HIDE DEF r, st
  <2> QED BY <1>2, <2>1, <2>2 DEF r, st
<1>9. CASE InBody(s, f, q)
  <2>1. r = Body(st, c)
    <3> HIDE DEF st
    <3> QED BY <1>5, <1>9 DEF ScanByte, InBody
  <2>2. Reads(t, f.policy, d, o, Body(st, c))
    BY <1>1, <1>2, <1>9, BodyStep
  <2> HIDE DEF r, st
  <2> QED BY <1>2, <2>1, <2>2 DEF r, st
<1>10. CASE InBodyEsc(s, f, q)
  <2>1. r = BodyEsc(st, c)
    <3> HIDE DEF st
    <3> QED BY <1>5, <1>10 DEF ScanByte, InBodyEsc
  <2>2. Reads(t, f.policy, d, o, BodyEsc(st, c))
    BY <1>1, <1>2, <1>10, BodyEscStep
  <2> HIDE DEF r, st
  <2> QED BY <1>2, <2>1, <2>2 DEF r, st
<1> QED BY <1>1, <1>6, <1>7, <1>8, <1>9, <1>10 DEF Holding

\* r is where a call has got to that began with o handed on, now that s is read.
Scanned(s, policy, o, r) ==
    /\ r = [f |-> r.f, dst |-> r.dst] /\ r.f \in FilterType /\ r.f.policy = policy
    /\ r.dst \in Seq(Char) /\ ScanInv(s, r.f, o \o r.dst)

\* One byte further.
LEMMA ScannedOne ==
  ASSUME NEW s \in Seq(Char), NEW c \in Char, NEW policy, NEW o \in Seq(Char), NEW r,
         Scanned(s, policy, o, r)
  PROVE  Scanned(Append(s, c), policy, o, ScanByte(r, c))
<1>1. PICK f \in FilterType, d \in Seq(Char) : f = r.f /\ d = r.dst
  BY DEF Scanned
<1>2. r = [f |-> f, dst |-> d] /\ f.policy = policy /\ ScanInv(s, f, o \o d)
  BY <1>1 DEF Scanned
<1>3. PICK r2, p : r2 = ScanByte([f |-> f, dst |-> d], c) /\ p = o \o d
  OBVIOUS
<1>4. p \in Seq(Char)
  BY <1>3, ConcatProperties
<1>5. Reads(Append(s, c), policy, d, p, r2)
  BY <1>2, <1>3, <1>4, ByteStep
<1>6. PICK x \in Seq(Char) : r2.dst = d \o x /\ ScanInv(Append(s, c), r2.f, p \o x)
  BY <1>5 DEF Reads
<1>7. Regroups(o, d, x)
  BY ConcatRegroups
<1>8. ScanInv(Append(s, c), r2.f, o \o r2.dst) /\ r2.dst \in Seq(Char)
  BY <1>3, <1>6, <1>7, ConcatProperties DEF Regroups
<1>9. Scanned(Append(s, c), policy, o, r2)
  BY <1>5, <1>8 DEF Reads, Scanned
<1> QED BY <1>2, <1>3, <1>9

\* g is the scan of the first k bytes of src after s.
IsScan(g, k, s, src, f, o) ==
    /\ g = [i \in 0..k |-> g[i]] /\ g[0] = [f |-> f, dst |-> << >>]
    /\ \A i \in 1..k : g[i] = ScanByte(g[i - 1], src[i])
    /\ \A i \in 0..k : Scanned(s \o SubSeq(src, 1, i), f.policy, o, g[i])

\* A whole chunk.
LEMMA ScanRuns ==
  ASSUME NEW s \in Seq(Char), NEW src \in Seq(Char), NEW f \in FilterType, NEW o \in Seq(Char),
         ScanInv(s, f, o)
  PROVE  \E g : IsScan(g, Len(src), s, src, f, o)
<1> DEFINE n == Len(src)
           Good(g, k) == IsScan(g, k, s, src, f, o)
           Bad == {k \in 0..n : ~\E g : Good(g, k)}
           start == [f |-> f, dst |-> << >>]
<1>1. n \in Nat /\ n \in 0..n /\ \A i \in 1..n : src[i] \in Char
  BY LenProperties, ElementOfSeq
<1> SUFFICES ASSUME Bad # {} PROVE FALSE
  BY <1>1
<1> HIDE DEF Good
<1>2. Bad \in SUBSET Nat
  BY <1>1
<1>3. PICK k \in Bad : \A j \in Bad : k <= j
  BY <1>2, NatHasLeast
<1>4. k \in 0..n /\ ~\E g : Good(g, k)
  BY <1>3
<1>5. CASE k = 0
  <2> DEFINE h == [i \in 0..0 |-> start]
  <2>1. s \o SubSeq(src, 1, 0) = s
    <3>1. SubSeq(src, 1, 0) = << >>
      <4>1. 1 \in Int /\ 0 \in Int /\ 0 < 1
        OBVIOUS
      <4> QED BY <4>1, SubSeqEmpty
    <3> QED BY <3>1, ConcatEmptySeq
  <2>2. o \o << >> = o /\ << >> \in Seq(Char)
    BY EmptySeq, ConcatEmptySeq
  <2>3. Scanned(s, f.policy, o, start)
    BY <2>2 DEF Scanned
  <2>4. h[0] = start
    OBVIOUS
  <2>5. \A i \in 0..0 : i = 0
    OBVIOUS
  <2>6. \A i \in 1..0 : FALSE
    OBVIOUS
  <2>7. h = [i \in 0..0 |-> h[i]]
    OBVIOUS
  <2> HIDE DEF h
  <2>8. Scanned(s \o SubSeq(src, 1, 0), f.policy, o, h[0])
    BY <2>1, <2>3, <2>4
  <2>9. Good(h, 0)
    BY <2>4, <2>5, <2>6, <2>7, <2>8 DEF Good, IsScan
  <2> QED BY <1>4, <1>5, <2>9
<1>6. CASE k # 0
  <2>1. k - 1 \in 0..n /\ k \in 1..n /\ ~(k <= k - 1) /\ k \in 0..k /\ k - 1 \in 0..k - 1
    BY <1>1, <1>4, <1>6
  <2>2. PICK g : Good(g, k - 1)
    BY <1>3, <2>1
  <2>3. /\ g = [i \in 0..k - 1 |-> g[i]] /\ g[0] = start
        /\ \A i \in 1..k - 1 : g[i] = ScanByte(g[i - 1], src[i])
        /\ \A i \in 0..k - 1 : Scanned(s \o SubSeq(src, 1, i), f.policy, o, g[i])
    BY <2>2 DEF Good, IsScan
  <2> DEFINE v == ScanByte(g[k - 1], src[k])
             h == [i \in 0..k |-> IF i = k THEN v ELSE g[i]]
  <2> HIDE DEF v
  <2>4. h = [i \in 0..k |-> h[i]] /\ h[k] = v
    BY <2>1
  <2>5. \A i \in 0..k - 1 : h[i] = g[i]
    BY <2>1
  <2> HIDE DEF h
  <2>6. h[0] = start
    <3>1. 0 \in 0..k - 1
      BY <2>1
    <3> QED BY <2>3, <2>5, <3>1
  <2>7. \A i \in 1..k : h[i] = ScanByte(h[i - 1], src[i])
    <3> TAKE i \in 1..k
    <3>1. i - 1 \in 0..k - 1 /\ (i # k => i \in 1..k - 1 /\ i \in 0..k - 1)
      BY <2>1
    <3>2. h[i - 1] = g[i - 1]
      BY <2>5, <3>1
    <3>3. CASE i = k
      BY <2>4, <3>2, <3>3 DEF v
    <3>4. CASE i # k
      BY <2>3, <2>5, <3>1, <3>2, <3>4
    <3> QED BY <3>3, <3>4
  <2>8. Scanned(s \o SubSeq(src, 1, k), f.policy, o, v)
    <3> DEFINE p == s \o SubSeq(src, 1, k - 1)
    <3>1. p \in Seq(Char)
      <4>1. 1 \in Int /\ k - 1 \in Int /\ \A i \in 1..k - 1 : src[i] \in Char
        BY <1>1, <2>1
      <4>2. SubSeq(src, 1, k - 1) \in Seq(Char)
        BY <4>1, SubSeqProperties
      <4> QED BY <4>2, ConcatProperties
    <3>2. s \o SubSeq(src, 1, k) = Append(p, src[k])
      BY <2>1, PrefixGrowsByOne
    <3>3. Scanned(p, f.policy, o, g[k - 1]) /\ src[k] \in Char
      BY <1>1, <2>1, <2>3
    <3> HIDE DEF p
    <3>4. Scanned(Append(p, src[k]), f.policy, o, v)
      BY <3>1, <3>3, ScannedOne DEF v
    <3> QED BY <3>2, <3>4
  <2>9. \A i \in 0..k : Scanned(s \o SubSeq(src, 1, i), f.policy, o, h[i])
    <3> TAKE i \in 0..k
    <3>1. i = k \/ i \in 0..k - 1
      BY <2>1
    <3> QED BY <2>3, <2>4, <2>5, <2>8, <3>1
  <2>10. Good(h, k)
    BY <2>4, <2>6, <2>7, <2>9 DEF Good, IsScan
  <2> QED BY <1>4, <2>10
<1> QED BY <1>5, <1>6

\* Scan computes that.
LEMMA ScanIs ==
  ASSUME NEW s \in Seq(Char), NEW src \in Seq(Char), NEW f \in FilterType, NEW o \in Seq(Char),
         ScanInv(s, f, o)
  PROVE  Scanned(s \o src, f.policy, o, Scan(f, src))
<1> DEFINE n == Len(src)
           start == [f |-> f, dst |-> << >>]
           B(x, i) == ScanByte(x, src[i])
           Eq(x) == x = [i \in 0..n |-> IF i = 0 THEN start ELSE B(x[i - 1], i)]
           X == CHOOSE x : Eq(x)
<1>1. n \in Nat /\ n \in 0..n
  BY LenProperties
<1>2. Scan(f, src) = X[n]
  BY DEF Scan
<1>3. PICK g : IsScan(g, Len(src), s, src, f, o)
  BY ScanRuns
<1>4. /\ g = [i \in 0..n |-> g[i]] /\ g[0] = start
      /\ \A i \in 1..n : g[i] = B(g[i - 1], i)
      /\ \A i \in 0..n : Scanned(s \o SubSeq(src, 1, i), f.policy, o, g[i])
  BY <1>3 DEF IsScan
<1> HIDE DEF B, start, n
<1>5. Eq(g)
  <2>1. \A i \in 0..n : g[i] = IF i = 0 THEN start ELSE B(g[i - 1], i)
    <3> TAKE i \in 0..n
    <3>1. i # 0 => i \in 1..n
      BY <1>1
    <3> QED BY <1>4, <3>1
  <2> QED BY <1>4, <2>1
<1>6. Eq(X)
  <2> HIDE DEF Eq
  <2> QED BY <1>5
<1>7. \A i \in 0..n : X[i] = IF i = 0 THEN start ELSE B(X[i - 1], i)
  <2> HIDE DEF X
  <2> QED BY <1>6
<1> HIDE DEF X
<1>8. \A i \in 0..n : X[i] = g[i]
  <2> DEFINE Bad == {i \in 0..n : X[i] # g[i]}
  <2> SUFFICES ASSUME Bad # {} PROVE FALSE
    OBVIOUS
  <2>1. Bad \in SUBSET Nat
    BY <1>1
  <2>2. PICK i \in Bad : \A j \in Bad : i <= j
    BY <2>1, NatHasLeast
  <2>3. i \in 0..n /\ X[i] # g[i]
    BY <2>2
  <2>4. CASE i = 0
    BY <1>4, <1>7, <2>3, <2>4
  <2>5. CASE i # 0
    <3>1. i \in 1..n /\ i - 1 \in 0..n /\ ~(i <= i - 1)
      BY <1>1, <2>3, <2>5
    <3>2. X[i - 1] = g[i - 1]
      BY <2>2, <3>1
    <3> QED BY <1>4, <1>7, <2>3, <2>5, <3>1, <3>2
  <2> QED BY <2>4, <2>5
<1>9. SubSeq(src, 1, n) = src
  BY SubSeqFull DEF n
<1>10. Scanned(s \o SubSeq(src, 1, n), f.policy, o, g[n])
  BY <1>1, <1>4
<1> QED BY <1>1, <1>2, <1>8, <1>9, <1>10

\* What f holds, and the output for it once the input ends, which is handed on
\* if rest is TRUE.
Withheld(f) == IF f.state = "stBodyEsc" /\ ~f.dropping THEN Append(f.buf, "ESC") ELSE f.buf

HeldIs(s, f, q) ==
    /\ Expected(f.policy, s, q, FALSE) = << >>
    /\ Expected(f.policy, s, q, TRUE) = Withheld(f)
    /\ Len(f.buf) <= maxSequence

\* An item that is the rest of the input.
LEMMA OpenItem ==
  ASSUME NEW policy, NEW s \in Seq(Char), NEW q \in 1..Len(s), NEW rest \in BOOLEAN,
         NEW x \in Seq(Char), Item(policy, s, q, rest).out = x,
         Item(policy, s, q, rest).next = Len(s) + 1
  PROVE  Expected(policy, s, q, rest) = x
<1>1. Expected(policy, s, q, rest) = x \o Expected(policy, s, Len(s) + 1, rest)
  BY ExpectedStep
<1>2. Expected(policy, s, Len(s) + 1, rest) = << >>
  BY ExpectedStep
<1> QED BY <1>1, <1>2, ConcatEmptySeq

\* A header not complete yet.
LEMMA OpenHeader ==
  ASSUME NEW policy, NEW s \in Seq(Char), NEW q \in 1..Len(s), MayBeHeader(s, q)
  PROVE  /\ Expected(policy, s, q, FALSE) = << >>
         /\ Expected(policy, s, q, TRUE) = SubSeq(s, q, Len(s))
<1>1. Len(s) \in Nat /\ \A i \in 1..Len(s) : s[i] \in Char
  BY LenProperties, ElementOfSeq
<1>2. BodyStarts(s, q) = {}
  <2> SUFFICES ASSUME NEW b \in BodyStarts(s, q) PROVE FALSE
    OBVIOUS
  <2>1. b \in q + 4..Len(s) + 1 /\ s[b - 1] = "SEP"
    BY DEF BodyStarts, Header
  <2>2. b - 1 \in q + 2..Len(s)
    BY <1>1, <2>1
  <2> QED BY <2>1, <2>2, NoDigit DEF MayBeHeader
<1> DEFINE x == SubSeq(s, q, Len(s))
<1>3. x \in Seq(Char) /\ << >> \in Seq(Char)
  <2>1. \A i \in q..Len(s) : s[i] \in Char
    BY <1>1
  <2> QED BY <1>1, <2>1, SubSeqProperties, EmptySeq
<1>4. q - q <= maxSequence
  BY <1>1, ScannerAssumption
<1> HIDE DEF x
<1>5. \A rest \in BOOLEAN :
        Item(policy, s, q, rest) = [out |-> IF rest THEN x ELSE << >>, next |-> Len(s) + 1]
  BY <1>2, <1>4 DEF Item, x
<1>6. ASSUME NEW rest \in BOOLEAN
      PROVE  Expected(policy, s, q, rest) = IF rest THEN x ELSE << >>
  <2> DEFINE z == IF rest THEN x ELSE << >>
  <2>1. Item(policy, s, q, rest) = [out |-> z, next |-> Len(s) + 1] /\ z \in Seq(Char)
    BY <1>3, <1>5
  <2> HIDE DEF z
  <2>2. Item(policy, s, q, rest).out = z /\ Item(policy, s, q, rest).next = Len(s) + 1
    BY <2>1
  <2>3. Expected(policy, s, q, rest) = z
    BY <2>1, <2>2, OpenItem
  <2> QED BY <2>3 DEF z
<1>7. Expected(policy, s, q, FALSE) = << >> /\ Expected(policy, s, q, TRUE) = x
  BY <1>6
<1> QED BY <1>7 DEF x

\* A string not ended, or whose ST is half seen: i is where its limit counts.
LEMMA OpenString ==
  ASSUME NEW policy, NEW s \in Seq(Char), NEW q \in 1..Len(s), NEW b \in BodyStarts(s, q),
         NEW i \in Int,
         \/ i = Len(s) + 1 /\ Runs(s, q, b, Len(s))
         \/ i = Len(s) /\ Runs(s, q, b, Len(s) - 1) /\ s[i] = "ESC"
  PROVE  /\ Expected(policy, s, q, FALSE) = << >>
         /\ Expected(policy, s, q, TRUE) =
                IF i - q <= maxSequence THEN SubSeq(s, q, Len(s)) ELSE << >>
<1>1. Len(s) \in Nat /\ (\A j \in 1..Len(s) : s[j] \in Char) /\ q \in Nat \ {0}
  BY LenProperties, ElementOfSeq
<1>2. b \in q + 4..Len(s) + 1 /\ b \in Nat \ {0}
  BY <1>1 DEF BodyStarts
<1>3. Extends(s, s)
  BY <1>1 DEF Extends
<1>4. BodyStarts(s, q) = {b} /\ Min(BodyStarts(s, q)) = b
  BY <1>1, <1>3, SameBodyStart
<1> DEFINE e == Stop(s, b)
           x == SubSeq(s, q, Len(s))
           y == IF i - q <= maxSequence THEN x ELSE << >>
<1>5. \/ i = Len(s) + 1 /\ e = 0
      \/ i = Len(s) /\ e = Len(s) /\ e # 0 /\ s[e] = "ESC"
  <2>1. CASE i = Len(s) + 1 /\ Runs(s, q, b, Len(s))
    <3>1. \A j \in b..Len(s) : s[j] \notin Stops
      BY <2>1 DEF Runs
    <3> QED BY <1>1, <1>2, <2>1, <3>1, StopFacts
  <2>2. CASE i = Len(s) /\ Runs(s, q, b, Len(s) - 1) /\ s[i] = "ESC"
    <3>1. b <= Len(s) /\ \A j \in b..Len(s) - 1 : s[j] \notin Stops
      BY <1>1, <1>2, <2>2 DEF Runs
    <3>2. Len(s) \in b..Len(s) /\ s[Len(s)] \in Stops /\ Len(s) # 0 /\ Len(s) \in 1..Len(s)
      BY <1>1, <1>2, <2>2, <3>1 DEF Stops
    <3>3. Stop(s, b) = Len(s)
      BY <1>2, <1>3, <3>1, <3>2, SameStop
    <3> QED BY <2>2, <3>2, <3>3
  <2> QED BY <2>1, <2>2
<1>6. x \in Seq(Char) /\ << >> \in Seq(Char)
  <2>1. \A j \in q..Len(s) : s[j] \in Char
    BY <1>1
  <2> QED BY <1>1, <2>1, SubSeqProperties, EmptySeq
<1>7. ASSUME NEW rest \in BOOLEAN
      PROVE  Item(policy, s, q, rest) = [out |-> IF rest THEN y ELSE << >>, next |-> Len(s) + 1]
  <2> DEFINE z == Min(BodyStarts(s, q))
  <2>1. z = b /\ BodyStarts(s, q) # {} /\ Stop(s, z) = e
    BY <1>4
  <2> HIDE DEF x, e
  <2> QED BY <1>5, <2>1 DEF Item, x, e
<1> HIDE DEF x
<1>8. y \in Seq(Char)
  BY <1>6
<1> HIDE DEF y
<1>9. ASSUME NEW rest \in BOOLEAN
      PROVE  Expected(policy, s, q, rest) = IF rest THEN y ELSE << >>
  <2> DEFINE z == IF rest THEN y ELSE << >>
  <2>1. Item(policy, s, q, rest) = [out |-> z, next |-> Len(s) + 1] /\ z \in Seq(Char)
    BY <1>6, <1>7, <1>8
  <2> HIDE DEF z
  <2>2. Item(policy, s, q, rest).out = z /\ Item(policy, s, q, rest).next = Len(s) + 1
    BY <2>1
  <2>3. Expected(policy, s, q, rest) = z
    BY <2>1, <2>2, OpenItem
  <2> QED BY <2>3 DEF z
<1>10. Expected(policy, s, q, FALSE) = << >> /\ Expected(policy, s, q, TRUE) = y
  BY <1>9
<1> QED BY <1>10 DEF x, y

\* What is held is what is still owed at the end of the input, and never more
\* than the limit.
LEMMA HeldAtEnd ==
  ASSUME NEW s \in Seq(Char), NEW f \in FilterType, NEW q \in 1..Len(s) + 1, Holding(s, f, q)
  PROVE  HeldIs(s, f, q)
<1> DEFINE n == Len(s)
<1>1. n \in Nat /\ maxSequence \in Nat /\ maxDigits \in Nat /\ maxSequence > maxDigits + 3
  BY LenProperties, ScannerAssumption
<1>2. \A i \in 1..n : s[i] \in Char
  BY ElementOfSeq
<1>3. Len(<< >>) = 0 /\ Len(<<"ESC">>) = 1
  OBVIOUS
<1>4. ASSUME q <= n
      PROVE  Len(SubSeq(s, q, n)) = n - q + 1
  <2>1. q \in Int /\ n \in Int /\ \A i \in q..n : s[i] \in Char
    BY <1>1, <1>2
  <2>2. Len(SubSeq(s, q, n)) = IF q <= n THEN n - q + 1 ELSE 0
    BY <2>1, SubSeqProperties
  <2> QED BY <1>4, <2>2
<1>5. CASE Idle(f) /\ q = n + 1
  <2>1. Withheld(f) = << >> /\ Len(f.buf) <= maxSequence
    BY <1>1, <1>3, <1>5 DEF Withheld, Idle
  <2>2. ASSUME NEW rest \in BOOLEAN
        PROVE  Expected(f.policy, s, q, rest) = << >>
    BY <1>5, ExpectedStep
  <2> QED BY <2>1, <2>2 DEF HeldIs
<1>6. CASE InEsc(s, f, q)
  <2>1. q = n /\ s[q] = "ESC" /\ f.buf = <<"ESC">> /\ f.state = "stEsc"
    BY <1>6 DEF InEsc
  <2>2. q \in 1..n /\ ~(q + 1 <= n) /\ n - (q + 1) <= maxDigits /\ \A i \in q + 2..n : FALSE
    BY <1>1, <2>1
  <2>3. MayBeHeader(s, q)
    BY <2>1, <2>2 DEF MayBeHeader
  <2>4. SubSeq(s, q, n) = <<"ESC">>
    BY <2>1, <2>2, CutOne
  <2>5. Withheld(f) = <<"ESC">>
    BY <2>1 DEF Withheld
  <2>6. Len(f.buf) <= maxSequence
    BY <1>1, <1>3, <2>1
  <2> QED BY <2>2, <2>3, <2>4, <2>5, <2>6, OpenHeader DEF HeldIs
<1>7. CASE InPrefix(s, f, q)
  <2>1. /\ f.state = "stPrefix" /\ f.buf = SubSeq(s, q, n) /\ q + 1 <= n
        /\ s[q] = "ESC" /\ s[q + 1] = "]" /\ \A i \in q + 2..n : s[i] \in Digits
    BY <1>7 DEF InPrefix
  <2>2. n - (q + 1) <= maxDigits
    BY <1>7 DEF InPrefix
  <2>3. q \in 1..n
    BY <1>1, <2>1
  <2>4. MayBeHeader(s, q)
    BY <2>1, <2>2 DEF MayBeHeader
  <2>5. Withheld(f) = SubSeq(s, q, n)
    BY <2>1 DEF Withheld
  <2>6. Len(f.buf) = n - q + 1
    BY <1>4, <2>1, <2>3
  <2>7. Len(f.buf) <= maxSequence
    BY <1>1, <2>2, <2>3, <2>6
  <2> QED BY <2>3, <2>4, <2>5, <2>7, OpenHeader DEF HeldIs
<1>8. CASE InBody(s, f, q)
  <2>1. PICK b \in BodyStarts(s, q) : Runs(s, q, b, n)
    BY <1>8 DEF InBody
  <2>2. f.state = "stBody" /\ HoldsUpTo(s, f, q, n)
    BY <1>8 DEF InBody
  <2>3. b \in q + 4..n + 1
    BY DEF BodyStarts
  <2>4. q \in 1..n /\ n + 1 \in Int
    BY <1>1, <2>3
  <2>5. /\ Expected(f.policy, s, q, FALSE) = << >>
        /\ Expected(f.policy, s, q, TRUE) =
               IF (n + 1) - q <= maxSequence THEN SubSeq(s, q, n) ELSE << >>
    <3> DEFINE i == n + 1
    <3>1. i \in Int /\ i = n + 1
      BY <2>4
    <3> HIDE DEF i
    <3> QED BY <2>1, <2>4, <3>1, OpenString DEF i
  <2>6. Withheld(f) = f.buf
    BY <2>2 DEF Withheld
  <2>7. CASE n + 1 - q > maxSequence
    <3>1. f.buf = << >>
      BY <2>2, <2>7 DEF HoldsUpTo
    <3>2. ~((n + 1) - q <= maxSequence)
      BY <1>1, <2>4, <2>7
    <3>3. Len(f.buf) <= maxSequence
      BY <1>1, <1>3, <3>1
    <3>4. Expected(f.policy, s, q, TRUE) = << >>
      BY <2>5, <3>2
    <3> QED BY <2>5, <2>6, <3>1, <3>3, <3>4 DEF HeldIs
  <2>8. CASE ~(n + 1 - q > maxSequence)
    <3>1. f.buf = SubSeq(s, q, n)
      BY <2>2, <2>8 DEF HoldsUpTo
    <3>2. (n + 1) - q <= maxSequence /\ n - q + 1 <= maxSequence
      BY <1>1, <2>4, <2>8
    <3>3. Len(f.buf) = n - q + 1
      BY <1>4, <2>4, <3>1
    <3> QED BY <2>5, <2>6, <3>1, <3>2, <3>3 DEF HeldIs
  <2> QED BY <2>7, <2>8
<1>9. CASE InBodyEsc(s, f, q)
  <2>1. PICK b \in BodyStarts(s, q) : Runs(s, q, b, n - 1)
    BY <1>9 DEF InBodyEsc
  <2>2. f.state = "stBodyEsc" /\ HoldsUpTo(s, f, q, n - 1) /\ s[n] = "ESC"
    BY <1>9 DEF InBodyEsc
  <2>3. b \in q + 4..n + 1 /\ b <= (n - 1) + 1
    BY <2>1 DEF BodyStarts, Runs
  <2>4. q \in 1..n /\ n \in Int /\ n \in 1..n /\ n \in q..n /\ q <= n - 1
    BY <1>1, <2>3
  <2>5. /\ Expected(f.policy, s, q, FALSE) = << >>
        /\ Expected(f.policy, s, q, TRUE) =
               IF n - q <= maxSequence THEN SubSeq(s, q, n) ELSE << >>
    BY <2>1, <2>2, <2>4, OpenString
  <2>6. CASE n - 1 + 1 - q > maxSequence
    <3>1. f.buf = << >> /\ f.dropping = TRUE
      BY <2>2, <2>6 DEF HoldsUpTo
    <3>2. ~(n - q <= maxSequence)
      BY <1>1, <2>4, <2>6
    <3>3. Withheld(f) = << >>
      BY <3>1 DEF Withheld
    <3>4. Len(f.buf) <= maxSequence
      BY <1>1, <1>3, <3>1
    <3>5. Expected(f.policy, s, q, TRUE) = << >>
      BY <2>5, <3>2
    <3> QED BY <2>5, <3>3, <3>4, <3>5 DEF HeldIs
  <2>7. CASE ~(n - 1 + 1 - q > maxSequence)
    <3>1. f.buf = SubSeq(s, q, n - 1) /\ f.dropping = FALSE
      BY <2>2, <2>7 DEF HoldsUpTo
    <3>2. n - q <= maxSequence
      BY <1>1, <2>4, <2>7
    <3>3. SubSeq(s, q, n) = Append(SubSeq(s, q, n - 1), s[n])
      BY <2>4, CutMore
    <3>4. Withheld(f) = SubSeq(s, q, n)
      BY <2>2, <3>1, <3>3 DEF Withheld
    <3>5. Len(f.buf) = n - q
      <4>1. q \in Int /\ n - 1 \in Int /\ \A i \in q..n - 1 : s[i] \in Char
        BY <1>1, <1>2, <2>4
      <4>2. Len(SubSeq(s, q, n - 1)) = IF q <= n - 1 THEN (n - 1) - q + 1 ELSE 0
        BY <4>1, SubSeqProperties
      <4>3. Len(f.buf) = (n - 1) - q + 1
        BY <2>4, <3>1, <4>2
      <4> QED BY <1>1, <2>4, <4>3
    <3> QED BY <2>5, <3>2, <3>4, <3>5 DEF HeldIs
  <2> QED BY <2>6, <2>7
<1> QED BY <1>5, <1>6, <1>7, <1>8, <1>9 DEF Holding

\* r is the scanner at rest after a chunk, with y handed on.
Flushed(r, policy, y) ==
    r = [f |-> r.f, dst |-> y] /\ r.f \in FilterType /\ Idle(r.f) /\ r.f.policy = policy

\* flush hands on what was withheld.
LEMMA FlushIs ==
  ASSUME NEW s \in Seq(Char), NEW f \in FilterType, NEW q, Holding(s, f, q), NEW d \in Seq(Char)
  PROVE  Flushed(Flush([f |-> f, dst |-> d]), f.policy, d \o Withheld(f))
<1> DEFINE r == [f |-> f, dst |-> d]
           g == Reset(f)
<1>1. r.f = f /\ r.dst = d /\ r = [f |-> f, dst |-> d]
  OBVIOUS
<1>2. g \in FilterType /\ Idle(g) /\ g.policy = f.policy
  BY ResetIdle
<1>3. d \o << >> = d
  BY ConcatEmptySeq
<1>4. CASE f.state = "stText"
  <2>1. Idle(f)
    BY <1>4 DEF Holding, InEsc, InPrefix, InBody, InBodyEsc
  <2>2. Withheld(f) = << >>
    BY <1>4, <2>1 DEF Withheld, Idle
  <2>3. Flush(r) = r
    BY <1>4 DEF Flush
  <2>4. Flushed(r, f.policy, d)
    BY <2>1 DEF Flushed
  <2> HIDE DEF r
  <2>5. Flushed(Flush(r), f.policy, d \o Withheld(f))
    BY <1>3, <2>2, <2>3, <2>4
  <2> QED BY <2>5 DEF r
<1>5. CASE f.state # "stText" /\ f.dropping
  <2>1. f.dropping = TRUE
    BY <1>5 DEF FilterType
  <2>2. f.buf = << >>
    BY <2>1 DEF Holding, Idle, InEsc, InPrefix, InBody, InBodyEsc, HoldsUpTo
  <2>3. Withheld(f) = << >>
    BY <2>1, <2>2 DEF Withheld
  <2>4. Flush(r) = [f |-> g, dst |-> d]
    BY <1>1, <1>5 DEF Flush, Discard
  <2> HIDE DEF g
  <2>5. Flushed([f |-> g, dst |-> d], f.policy, d)
    BY <1>2 DEF Flushed
  <2> HIDE DEF r
  <2>6. Flushed(Flush(r), f.policy, d \o Withheld(f))
    BY <1>3, <2>3, <2>4, <2>5
  <2> QED BY <2>6 DEF r
<1>6. CASE f.state = "stBodyEsc" /\ ~f.dropping
  <2> DEFINE f2 == [f EXCEPT !.buf = Append(f.buf, "ESC")]
             r2 == [f |-> f2, dst |-> d]
  <2>1. [r EXCEPT !.f.buf = Append(@, "ESC")] = r2
    <3>1. [r EXCEPT !.f.buf = Append(@, "ESC")] = [r EXCEPT !.f = [r.f EXCEPT !.buf = Append(r.f.buf, "ESC")]]
      OBVIOUS
    <3>2. [r.f EXCEPT !.buf = Append(r.f.buf, "ESC")] = f2
      BY <1>1
    <3> HIDE DEF f2
    <3>3. [r EXCEPT !.f = f2] = r2
      OBVIOUS
    <3> QED BY <3>1, <3>2, <3>3
  <2>2. Flush(r) = Release(r2)
    BY <1>1, <1>6, <2>1 DEF Flush
  <2>3. Release(r2) = [f |-> Reset(f2), dst |-> d \o f2.buf]
    BY DEF Release
  <2>4. f2.buf = Append(f.buf, "ESC") /\ Reset(f2) = g
    BY DEF FilterType, Reset
  <2>5. Withheld(f) = Append(f.buf, "ESC")
    BY <1>6 DEF Withheld
  <2>6. Flush(r) = [f |-> g, dst |-> d \o Withheld(f)]
    BY <2>2, <2>3, <2>4, <2>5
  <2> HIDE DEF g, r, r2, f2
  <2>7. Flushed([f |-> g, dst |-> d \o Withheld(f)], f.policy, d \o Withheld(f))
    BY <1>2 DEF Flushed
  <2>8. Flushed(Flush(r), f.policy, d \o Withheld(f))
    BY <2>6, <2>7
  <2> QED BY <2>8 DEF r
<1>7. CASE f.state # "stText" /\ f.state # "stBodyEsc" /\ ~f.dropping
  <2>1. Flush(r) = [f |-> g, dst |-> d \o f.buf]
    BY <1>1, <1>7 DEF Flush, Release
  <2>2. Withheld(f) = f.buf
    BY <1>7 DEF Withheld
  <2> HIDE DEF g, r
  <2>3. Flushed([f |-> g, dst |-> d \o Withheld(f)], f.policy, d \o Withheld(f))
    BY <1>2 DEF Flushed
  <2>4. Flushed(Flush(r), f.policy, d \o Withheld(f))
    BY <2>1, <2>2, <2>3
  <2> QED BY <2>4 DEF r
<1> QED BY <1>4, <1>5, <1>6, <1>7

\* Before the first byte.
LEMMA ScanStarts ==
  ASSUME NEW f \in FilterType, Idle(f)
  PROVE  ScanInv(<< >>, f, << >>)
<1> DEFINE s == << >>
<1>1. s \in Seq(Char) /\ Len(s) = 0 /\ 1 \in 1..0 + 1
  BY EmptySeq
<1>2. Holding(s, f, 1)
  BY <1>1 DEF Holding
<1> HIDE DEF s
<1>3. ASSUME NEW t \in Seq(Char), NEW rest \in BOOLEAN
      PROVE  Expected(f.policy, t, 1, rest) = << >> \o Expected(f.policy, t, 1, rest)
  <2>1. 1 \in 1..Len(t) + 1
    BY LenProperties
  <2>2. Expected(f.policy, t, 1, rest) \in Seq(Char)
    BY <2>1, ExpectedStep
  <2> QED BY <2>2, ConcatEmptySeq
<1>4. Settled(f.policy, s, 1, << >>)
  BY <1>3 DEF Settled
<1>5. ScanInv(s, f, << >>)
  BY <1>1, <1>2, <1>4 DEF ScanInv
<1> QED BY <1>5 DEF s

-----------------------------------------------------------------------------
(* The filter *)

\* What a scanner has handed on is the output for all it has read, as long as
\* the rest is withheld.
LEMMA OnePiece ==
  ASSUME NEW s \in Seq(Char), NEW f \in FilterType, NEW o \in Seq(Char), ScanInv(s, f, o)
  PROVE  o = Expected(f.policy, s, 1, FALSE) /\ Len(f.buf) <= maxSequence
<1>1. PICK q \in 1..Len(s) + 1 : Holding(s, f, q) /\ Settled(f.policy, s, q, o)
  BY DEF ScanInv
<1>2. Extends(s, s)
  BY LenProperties DEF Extends
<1>3. \A rest \in BOOLEAN : Expected(f.policy, s, 1, rest) = o \o Expected(f.policy, s, q, rest)
  BY <1>1, <1>2 DEF Settled
<1>4. Expected(f.policy, s, 1, FALSE) = o \o Expected(f.policy, s, q, FALSE)
  BY <1>3
<1>5. HeldIs(s, f, q)
  BY <1>1, HeldAtEnd
<1>6. Expected(f.policy, s, q, FALSE) = << >> /\ Len(f.buf) <= maxSequence
  BY <1>5 DEF HeldIs
<1> QED BY <1>4, <1>6, ConcatEmptySeq

\* The output for a chunk of input on its own.
Chunk(policy, src) == Expected(policy, src, 1, TRUE)

\* It is one.
LEMMA ChunkType ==
  ASSUME NEW policy, NEW src \in Seq(Char)
  PROVE  Chunk(policy, src) \in Seq(Char)
<1>1. 1 \in 1..Len(src) + 1
  BY LenProperties
<1>2. \A rest \in BOOLEAN : Expected(policy, src, 1, rest) \in Seq(Char)
  BY <1>1, ExpectedStep
<1> QED BY <1>2 DEF Chunk

\* A scanner at rest hands on just that, and is at rest again.
LEMMA ChunkIs ==
  ASSUME NEW f \in FilterType, Idle(f), NEW src \in Seq(Char)
  PROVE  Flushed(Flush(Scan(f, src)), f.policy, Chunk(f.policy, src))
<1> DEFINE e == << >>
<1>1. e \in Seq(Char) /\ e \o src = src
  BY EmptySeq, ConcatEmptySeq
<1>2. ScanInv(e, f, e)
  BY ScanStarts
<1> HIDE DEF e
<1>3. Scanned(e \o src, f.policy, e, Scan(f, src))
  BY <1>1, <1>2, ScanIs
<1>4. PICK r : r = Scan(f, src)
  OBVIOUS
<1>5. PICK g \in FilterType, d \in Seq(Char) : g = r.f /\ d = r.dst
  BY <1>3, <1>4 DEF Scanned
<1>6. r = [f |-> g, dst |-> d] /\ g.policy = f.policy /\ ScanInv(src, g, e \o d)
  BY <1>1, <1>3, <1>4, <1>5 DEF Scanned
<1>7. ScanInv(src, g, d)
  <2>1. e \o d = d
    BY ConcatEmptySeq DEF e
  <2> QED BY <1>6, <2>1
<1>8. PICK q \in 1..Len(src) + 1 : Holding(src, g, q) /\ Settled(f.policy, src, q, d)
  BY <1>6, <1>7 DEF ScanInv
<1>9. Extends(src, src)
  BY LenProperties DEF Extends
<1>10. \A rest \in BOOLEAN : Expected(f.policy, src, 1, rest) = d \o Expected(f.policy, src, q, rest)
  BY <1>8, <1>9 DEF Settled
<1>11. Chunk(f.policy, src) = d \o Expected(f.policy, src, q, TRUE)
  BY <1>10 DEF Chunk
<1>12. HeldIs(src, g, q)
  BY <1>8, HeldAtEnd
<1>13. Chunk(f.policy, src) = d \o Withheld(g)
  BY <1>6, <1>11, <1>12 DEF HeldIs
<1>14. Flushed(Flush([f |-> g, dst |-> d]), g.policy, d \o Withheld(g))
  BY <1>8, FlushIs
<1> QED BY <1>4, <1>6, <1>13, <1>14

\* The outputs for chunks, one by one.
Chunked(policy, cs) == [i \in 1..Len(cs) |-> Chunk(policy, cs[i])]

\* A chunk more.
LEMMA ChunkMore ==
  ASSUME NEW policy, NEW cs \in Seq(Seq(Char)), NEW src \in Seq(Char)
  PROVE  /\ Chunked(policy, cs) \in Seq(Seq(Char))
         /\ Chunked(policy, Append(cs, src)) = Append(Chunked(policy, cs), Chunk(policy, src))
<1> DEFINE k == Len(cs)
           T == Seq(Char)
           C(x) == Chunk(policy, x)
           a == [i \in 1..k |-> C(cs[i])]
           cs2 == Append(cs, src)
           b == [i \in 1..k + 1 |-> C(cs2[i])]
           c == Append(a, C(src))
<1>1. k \in Nat /\ \A i \in 1..k : cs[i] \in T
  BY LenProperties, ElementOfSeq
<1>2. \A x \in T : C(x) \in T
  BY ChunkType
<1>3. Len(cs2) = k + 1 /\ cs2[k + 1] = src /\ \A i \in 1..k : cs2[i] = cs[i]
  BY AppendProperties
<1> HIDE DEF C, T, cs2, k
<1>4. a \in Seq(T) /\ Len(a) = k /\ \A i \in 1..k : a[i] = C(cs[i])
  BY <1>1, <1>2
<1> HIDE DEF a
<1>5. src \in T
  BY DEF T
<1>6. C(src) \in T
  BY <1>2, <1>5
<1>7. c \in Seq(T) /\ Len(c) = k + 1 /\ c[k + 1] = C(src) /\ \A i \in 1..k : c[i] = a[i]
  BY <1>4, <1>6, AppendProperties
<1>8. \A i \in 1..k + 1 : cs2[i] \in T
  <2> TAKE i \in 1..k + 1
  <2>1. i = k + 1 \/ i \in 1..k
    BY <1>1
  <2> QED BY <1>1, <1>3, <1>5, <2>1
<1>9. b \in Seq(T) /\ Len(b) = k + 1 /\ \A i \in 1..k + 1 : b[i] = C(cs2[i])
  BY <1>1, <1>2, <1>8
<1> HIDE DEF b, c
<1>10. \A i \in 1..Len(b) : b[i] = c[i]
  <2> TAKE i \in 1..Len(b)
  <2>1. i \in 1..k + 1 /\ (i = k + 1 \/ i \in 1..k)
    BY <1>1, <1>9
  <2> QED BY <1>3, <1>4, <1>7, <1>9, <2>1
<1>11. b = c
  BY <1>7, <1>9, <1>10, SeqEqual
<1>12. Chunked(policy, cs) = a /\ Chunked(policy, cs2) = b
  BY <1>3 DEF Chunked, a, b, C, k
<1> QED BY <1>4, <1>11, <1>12 DEF T, c, cs2, C

\* The inductive invariant.
FilterInv ==
    /\ calls \in Seq(Seq(Char)) /\ out \in Seq(Char) /\ filter \in FilterType
    /\ path = "output" => ScanInv(FlattenSeq(calls), filter, out)
    /\ path = "input" => Idle(filter) /\ out = FlattenSeq(Chunked(filter.policy, calls))

\* No chunks, no bytes.
LEMMA FlattenNone == FlattenSeq(<< >>) = << >>
<1> DEFINE s == << >>
           G == [i \in 0..0 |-> << >>]
<1>1. s \in Seq(Seq(Char)) /\ Len(s) = 0
  OBVIOUS
<1>2. G \in [0..0 -> Seq(Char)] /\ G[0] = << >>
  BY EmptySeq
<1> HIDE DEF s, G
<1>3. \A i \in 1..Len(s) : G[i] = G[i - 1] \o s[i]
  BY <1>1
<1>4. FlattenSeq(s) = G[0]
  BY <1>1, <1>2, <1>3, FlattenRun
<1> QED BY <1>2, <1>4 DEF s

\* A filter just made.
LEMMA NewIdle ==
  ASSUME NEW policy \in Policy
  PROVE  New(policy) \in FilterType /\ Idle(New(policy))
<1>1. << >> \in Seq(Char)
  BY EmptySeq
<1> QED BY <1>1 DEF New, FilterType, Idle

\* It holds when the client starts.
LEMMA FilterStarts == FilterInit => FilterInv
<1> SUFFICES ASSUME FilterInit PROVE FilterInv
  OBVIOUS
<1>1. calls = << >> /\ out = << >>
  BY DEF FilterInit
<1>2. PICK policy \in Policy : filter = New(policy)
  BY DEF FilterInit, Policy
<1>3. filter \in FilterType /\ Idle(filter)
  BY <1>2, NewIdle
<1>4. calls \in Seq(Seq(Char)) /\ out \in Seq(Char)
  BY <1>1, EmptySeq
<1>5. ScanInv(FlattenSeq(calls), filter, out)
  BY <1>1, <1>3, FlattenNone, ScanStarts
<1>6. Chunked(filter.policy, calls) = << >>
  <2>1. Len(calls) = 0 /\ \A i \in 1..0 : FALSE
    BY <1>1
  <2>2. Chunked(filter.policy, calls) = [i \in 1..0 |-> Chunk(filter.policy, calls[i])]
    BY <2>1 DEF Chunked
  <2> QED BY <2>2
<1>7. out = FlattenSeq(Chunked(filter.policy, calls))
  BY <1>1, <1>6, FlattenNone
<1> QED BY <1>3, <1>4, <1>5, <1>7 DEF FilterInv

\* Every call keeps it.
LEMMA FilterSteps == FilterInv /\ [FilterNext]_filterVars => FilterInv'
<1> SUFFICES ASSUME FilterInv, [FilterNext]_filterVars PROVE FilterInv'
  OBVIOUS
<1>1. calls \in Seq(Seq(Char)) /\ out \in Seq(Char) /\ filter \in FilterType
  BY DEF FilterInv
<1>2. ASSUME NEW src \in Pieces PROVE src \in Seq(Char)
  <2>1. src \in Seq(STRING)
    BY Osc52Assumption
  <2> QED BY <2>1, Strings, SeqWiden
<1>3. ASSUME NEW src \in Pieces, Filter(src)
      PROVE  FilterInv'
  <2>1. src \in Seq(Char)
    BY <1>2
  <2>2. PICK r, s : r = Scan(filter, src) /\ s = FlattenSeq(calls)
    OBVIOUS
  <2>3. path = "output" /\ filter' = r.f /\ out' = out \o r.dst /\ calls' = Append(calls, src)
        /\ path' = path
    BY <1>3, <2>2 DEF Filter
  <2>4. s \in Seq(Char) /\ FlattenSeq(calls') = s \o src
    BY <1>1, <2>1, <2>2, <2>3, FlattenAppend
  <2>5. ScanInv(s, filter, out)
    BY <2>2, <2>3 DEF FilterInv
  <2>6. Scanned(s \o src, filter.policy, out, r)
    BY <1>1, <2>1, <2>2, <2>4, <2>5, ScanIs
  <2>7. filter' \in FilterType /\ r.dst \in Seq(Char) /\ ScanInv(s \o src, r.f, out \o r.dst)
    BY <2>3, <2>6 DEF Scanned
  <2>8. ScanInv(FlattenSeq(calls'), filter', out')
    BY <2>3, <2>4, <2>7
  <2>9. out' \in Seq(Char)
    BY <1>1, <2>3, <2>7, ConcatProperties
  <2>10. calls' \in Seq(Seq(Char))
    BY <1>1, <2>1, <2>3, AppendProperties
  <2>11. path' # "input"
    BY <2>3
  <2> QED BY <2>7, <2>8, <2>9, <2>10, <2>11 DEF FilterInv
<1>4. ASSUME NEW src \in Pieces, FilterChunk(src)
      PROVE  FilterInv'
  <2>1. src \in Seq(Char)
    BY <1>2
  <2>2. PICK r, x, cs : /\ r = Flush(Scan(filter, src)) /\ x = Chunk(filter.policy, src)
                        /\ cs = Chunked(filter.policy, calls)
    OBVIOUS
  <2>3. path = "input" /\ filter' = r.f /\ out' = out \o r.dst /\ calls' = Append(calls, src)
        /\ path' = path
    BY <1>4, <2>2 DEF FilterChunk, FilteredChunk
  <2>4. Idle(filter) /\ out = FlattenSeq(cs)
    BY <2>2, <2>3 DEF FilterInv
  <2>5. Flushed(r, filter.policy, x)
    BY <1>1, <2>1, <2>2, <2>4, ChunkIs
  <2>6. r.dst = x /\ filter' \in FilterType /\ Idle(filter') /\ filter'.policy = filter.policy
    BY <2>3, <2>5 DEF Flushed
  <2>7. x \in Seq(Char)
    BY <2>1, <2>2, ChunkType
  <2>8. cs \in Seq(Seq(Char)) /\ Chunked(filter.policy, calls') = Append(cs, x)
    BY <1>1, <2>1, <2>2, <2>3, ChunkMore
  <2>9. FlattenSeq(Append(cs, x)) = FlattenSeq(cs) \o x
    BY <2>7, <2>8, FlattenAppend
  <2>10. out' = FlattenSeq(Chunked(filter'.policy, calls'))
    BY <2>3, <2>4, <2>6, <2>8, <2>9
  <2>11. out' \in Seq(Char)
    BY <1>1, <2>3, <2>6, <2>7, ConcatProperties
  <2>12. calls' \in Seq(Seq(Char))
    BY <1>1, <2>1, <2>3, AppendProperties
  <2>13. path' # "output"
    BY <2>3
  <2> QED BY <2>6, <2>10, <2>11, <2>12, <2>13 DEF FilterInv
<1>5. CASE UNCHANGED filterVars
  BY <1>5 DEF filterVars, FilterInv
<1> QED BY <1>3, <1>4, <1>5 DEF FilterNext

\* Server output is filtered as if it had come in one piece (Filter, osc52.go):
\* however the diffs cut it up, the terminal gets exactly what the policy makes
\* of the whole, and never more than maxSequence bytes are held back.
THEOREM OutputAlwaysAsOnePiece == FilterSpec => []OutputAsOnePiece
<1>1. FilterInv => OutputAsOnePiece
  <2> SUFFICES ASSUME FilterInv, path = "output" PROVE OutputAsOnePiece
    BY DEF OutputAsOnePiece
  <2>1. calls \in Seq(Seq(Char)) /\ out \in Seq(Char) /\ filter \in FilterType
        /\ ScanInv(FlattenSeq(calls), filter, out)
    BY DEF FilterInv
  <2>2. << >> \in Seq(Char)
    BY EmptySeq
  <2>3. FlattenSeq(calls) \in Seq(Char)
    BY <2>1, <2>2, FlattenAppend
  <2>4. out = Expected(filter.policy, FlattenSeq(calls), 1, FALSE) /\ Len(filter.buf) <= maxSequence
    BY <2>1, <2>3, OnePiece
  <2> QED BY <2>4 DEF OutputAsOnePiece
<1> QED BY <1>1, FilterStarts, FilterSteps, PTL DEF FilterSpec

\* Local input is filtered read by read (FilterChunk, osc52.go): each is handled
\* as if nothing had come before, and nothing of it is kept for the next.
THEOREM InputAlwaysByChunk == FilterSpec => []InputByChunk
<1>1. FilterInv => InputByChunk
  BY DEF FilterInv, InputByChunk, Chunked, Chunk
<1> QED BY <1>1, FilterStarts, FilterSteps, PTL DEF FilterSpec

-----------------------------------------------------------------------------
(***** The session                                                        *****)

(* The closing handshake *)

\* Where the closing handshake stands.
ClosingTypeOK ==
    /\ pc \in {"top", "select", "returned"}
    /\ shutdownInProgress \in BOOLEAN
    /\ tries \in Nat /\ dueAt \in Nat /\ now \in Nat
    /\ shutdownFrom \in Nat /\ startedAt \in Nat

\* While the loop runs there are transmissions left.
TriesLeft ==
    /\ ~shutdownInProgress => tries = 0
    /\ pc # "returned" => tries < shutdownRetries

\* The clock of the shutdown runs from its start unless a cancellation restarts it.
ClockFrom ==
    shutdownInProgress =>
        /\ startedAt <= now
        /\ ctx # "handled" => shutdownFrom = startedAt

\* The next transmission is due in time, and the loop gets to its top in time.
DueInTime ==
    shutdownInProgress =>
        /\ dueAt <= startedAt + (tries + 1) * SendInterval
        /\ pc = "top" => now <= startedAt + (tries + 1) * SendInterval
        /\ pc = "select" => now < startedAt + (tries + 1) * SendInterval
        /\ pc = "returned" => now <= startedAt + shutdownRetries * SendInterval

\* The timeout was looked at in this round, or is next.
TimeoutInTime ==
    shutdownInProgress =>
        /\ pc = "select" => now <= shutdownFrom + ShutdownTimeout
        /\ now <= shutdownFrom + ShutdownTimeout + 1

ClosingInv == ClosingTypeOK /\ TriesLeft /\ ClockFrom /\ DueInTime /\ TimeoutInTime

\* A later transmission is due later, by a whole interval.
LEMMA Intervals ==
  ASSUME NEW a \in Nat, NEW b \in Nat
  PROVE  /\ a * SendInterval \in Nat
         /\ (a + 1) * SendInterval = a * SendInterval + SendInterval
         /\ a <= b => a * SendInterval <= b * SendInterval
<1>1. SendInterval \in Nat
  BY SessionAssumption
<1>2. ASSUME a <= b PROVE a * SendInterval <= b * SendInterval
  <2>1. PICK c \in Nat : b = a + c
    BY <1>2
  <2>2. b * SendInterval = a * SendInterval + c * SendInterval
    BY <1>1, <2>1
  <2>3. c * SendInterval \in Nat /\ a * SendInterval \in Nat
    BY <1>1
  <2> QED BY <2>2, <2>3
<1> QED BY <1>1, <1>2

\* The invariant bounds the handshake in transmissions and in time.
LEMMA ClosingInvSuffices == ClosingInv => HandshakeBounded
<1> SUFFICES ASSUME ClosingInv, shutdownInProgress
             PROVE  /\ ctx # "handled" => now - startedAt <= ShutdownTimeout + 1
                    /\ now - startedAt <= shutdownRetries * SendInterval
  BY DEF HandshakeBounded
<1>1. ctx # "handled" => now - startedAt <= ShutdownTimeout + 1
  BY SessionAssumption DEF ClosingInv, ClosingTypeOK, ClockFrom, TimeoutInTime
<1>2. CASE pc = "returned"
  <2>1. shutdownRetries * SendInterval \in Nat
    BY SessionAssumption, Intervals
  <2> QED BY <1>1, <1>2, <2>1 DEF ClosingInv, ClosingTypeOK, DueInTime
<1>3. CASE pc # "returned"
  <2>1. tries + 1 <= shutdownRetries /\ tries + 1 \in Nat /\ shutdownRetries \in Nat
    BY <1>3, SessionAssumption DEF ClosingInv, ClosingTypeOK, TriesLeft
  <2> DEFINE x == (tries + 1) * SendInterval
             y == shutdownRetries * SendInterval
  <2>2. x \in Nat /\ y \in Nat /\ x <= y
    BY <2>1, Intervals
  <2>3. now <= startedAt + x
    BY <1>3, <2>2 DEF ClosingInv, ClosingTypeOK, DueInTime
  <2> HIDE DEF x
  <2> QED BY <1>1, <2>2, <2>3 DEF ClosingInv, ClosingTypeOK
<1> QED BY <1>2, <1>3

\* A session begins without a shutdown.
LEMMA ClosingInvInit == SessionInit => ClosingInv
<1> SUFFICES ASSUME SessionInit PROVE ClosingInv
  OBVIOUS
<1>1. /\ pc = "top" /\ shutdownInProgress = FALSE
      /\ tries = 0 /\ dueAt = 0 /\ now = 0 /\ shutdownFrom = 0 /\ startedAt = 0
  BY DEF SessionInit
<1>2. 0 < shutdownRetries
  BY SessionAssumption
<1> QED BY <1>1, <1>2 DEF ClosingInv, ClosingTypeOK, TriesLeft, ClockFrom, DueInTime, TimeoutInTime

\* A shutdown that begins now is in time.
LEMMA ClosingBegins ==
  ASSUME ClosingInv, pc # "returned", ~shutdownInProgress,
         shutdownInProgress', dueAt' \in now..now + SendInterval, startedAt' = now,
         shutdownFrom' = now, tries' = tries, now' = now, pc' \in {"top", "select"}
  PROVE  ClosingInv'
<1>1. /\ tries = 0 /\ now \in Nat /\ SendInterval \in Nat /\ SendInterval > 0
      /\ ShutdownTimeout \in Nat /\ shutdownRetries \in Nat /\ shutdownRetries > 0
  BY SessionAssumption DEF ClosingInv, ClosingTypeOK, TriesLeft
<1>2. (tries + 1) * SendInterval = SendInterval
  BY <1>1
<1> QED BY <1>1, <1>2 DEF ClosingInv, ClosingTypeOK, TriesLeft, ClockFrom, DueInTime, TimeoutInTime

\* The top of the loop sends when a transmission is due, and leaves when the timeout
\* has passed or the retries are spent.
LEMMA ClosingLoopTop ==
  ASSUME ClosingInv, LoopTop
  PROVE  ClosingInv'
<1> DEFINE begins == remoteShutdown /\ ~shutdownInProgress
           count  == IF Due THEN tries + 1 ELSE tries
           from   == IF begins THEN now ELSE shutdownFrom
<1>1. pc = "top" /\ tries' = count /\ shutdownFrom' = from /\ now' = now /\ ctx' = ctx
  BY DEF LoopTop
<1>2. CASE begins
  <2>1. ~Due /\ count = tries /\ from = now
    BY <1>2 DEF Due
  <2>2. /\ shutdownInProgress' /\ dueAt' \in now..now + SendInterval /\ startedAt' = now
        /\ pc' \in {"returned", "select"}
    BY <1>2 DEF LoopTop
  <2>3. CASE pc' = "select"
    BY <1>1, <1>2, <2>1, <2>2, <2>3, ClosingBegins
  <2>4. CASE pc' = "returned"
    <3>1. shutdownRetries * SendInterval \in Nat /\ tries = 0 /\ (0 + 1) * SendInterval = SendInterval
      BY <1>2, SessionAssumption, Intervals DEF ClosingInv, TriesLeft
    <3> DEFINE z == shutdownRetries * SendInterval
    <3>2. z \in Nat /\ SendInterval \in Nat /\ ShutdownTimeout \in Nat /\ now \in Nat
      BY <3>1, SessionAssumption DEF ClosingInv, ClosingTypeOK
    <3> HIDE DEF z
    <3>3. dueAt' \in Nat /\ dueAt' <= now + SendInterval /\ now <= now + z
      BY <2>2, <3>2
    <3>4. (tries' + 1) * SendInterval = SendInterval
      BY <1>1, <2>1, <3>1
    <3>5. DueInTime'
      BY <1>1, <2>2, <2>4, <3>3, <3>4 DEF DueInTime, z
    <3>6. TimeoutInTime' /\ ClockFrom'
      BY <1>1, <2>1, <2>2, <2>4, <3>2 DEF TimeoutInTime, ClockFrom
    <3>7. ClosingTypeOK' /\ TriesLeft'
      BY <1>1, <2>1, <2>2, <2>4, <3>1, <3>2, <3>3 DEF ClosingTypeOK, TriesLeft
    <3> QED BY <3>5, <3>6, <3>7 DEF ClosingInv
  <2> QED BY <2>2, <2>3, <2>4
<1>3. CASE ~begins /\ ~shutdownInProgress
  <2>1. shutdownInProgress' = shutdownInProgress /\ dueAt' = dueAt /\ startedAt' = startedAt /\ pc' = "select"
        /\ tries' = tries /\ shutdownFrom' = shutdownFrom
    BY <1>3 DEF LoopTop, Due, ClosingInv, ClosingTypeOK
  <2> QED BY <1>1, <1>3, <2>1
          DEF ClosingInv, ClosingTypeOK, TriesLeft, ClockFrom, DueInTime, TimeoutInTime
<1>4. CASE shutdownInProgress
  <2>1. /\ shutdownInProgress' = shutdownInProgress /\ startedAt' = startedAt
        /\ dueAt' = (IF Due THEN now + SendInterval ELSE dueAt)
        /\ shutdownFrom' = shutdownFrom
        /\ pc' \in {"returned", "select"}
        /\ pc' = "select" => ~Done(count, from)
    BY <1>4 DEF LoopTop
  <2>2. tries \in Nat /\ now \in Nat /\ shutdownFrom \in Nat /\ tries + 1 <= shutdownRetries
        /\ now <= startedAt + (tries + 1) * SendInterval /\ dueAt <= startedAt + (tries + 1) * SendInterval
        /\ startedAt \in Nat /\ dueAt \in Nat
    BY <1>1, <1>4, SessionAssumption DEF ClosingInv, ClosingTypeOK, TriesLeft, DueInTime
  <2> DEFINE x == (tries + 1) * SendInterval
             y == (count + 1) * SendInterval
             z == shutdownRetries * SendInterval
  <2>3. x \in Nat /\ z \in Nat /\ x <= z
    BY <2>2, Intervals, SessionAssumption
  <2>4. Due => y = x + SendInterval
    <3>1. ((tries + 1) + 1) * SendInterval = x + SendInterval /\ tries + 1 \in Nat
      BY <2>2, Intervals
    <3> QED BY <3>1
  <2>5. ~Due => y = x
    OBVIOUS
  <2>6. now <= startedAt + x /\ dueAt <= startedAt + x
    BY <2>2
  <2> HIDE DEF x, y, z
  <2>7. dueAt' \in Nat /\ dueAt' <= startedAt + y /\ now < startedAt + y
    BY <1>4, <2>1, <2>2, <2>3, <2>4, <2>5, <2>6, SessionAssumption DEF Due
  <2>8. now <= startedAt + z
    BY <2>2, <2>3, <2>6
  <2>9. pc' = "select" => count < shutdownRetries /\ now <= shutdownFrom + ShutdownTimeout
    BY <1>1, <1>4, <2>1, <2>2, SessionAssumption DEF Done
  <2>10. count \in Nat
    BY <2>2
  <2>11. ClosingTypeOK' /\ TriesLeft'
    BY <1>1, <1>4, <2>1, <2>2, <2>7, <2>9, <2>10 DEF ClosingInv, ClosingTypeOK, TriesLeft
  <2>12. ClockFrom' /\ TimeoutInTime'
    BY <1>1, <1>4, <2>1, <2>9 DEF ClosingInv, ClockFrom, TimeoutInTime
  <2>13. DueInTime'
    BY <1>1, <2>1, <2>7, <2>8 DEF DueInTime, y, z
  <2> QED BY <2>11, <2>12, <2>13 DEF ClosingInv
<1> QED BY <1>2, <1>3, <1>4 DEF ClosingInv, ClosingTypeOK

\* From the select the loop goes back to its top with the shutdown as it was.
LEMMA ClosingBackToTop ==
  ASSUME ClosingInv, pc = "select", pc' = "top", ctx' = ctx,
         UNCHANGED <<shutdownInProgress, tries, dueAt, shutdownFrom, startedAt>>,
         now' = now \/ now' = IF shutdownInProgress THEN now + 1 ELSE now
  PROVE  ClosingInv'
<1>1. (tries + 1) * SendInterval \in Nat
  BY Intervals DEF ClosingInv, ClosingTypeOK
<1>2. now' \in Nat /\ (shutdownInProgress => now' \in {now, now + 1}) /\ now \in Nat
  BY DEF ClosingInv, ClosingTypeOK
<1> DEFINE x == (tries + 1) * SendInterval
<1> HIDE DEF x
<1>3. DueInTime'
  <2>1. shutdownInProgress => dueAt <= startedAt + x /\ now < startedAt + x /\ x \in Nat /\ startedAt \in Nat
    BY <1>1 DEF ClosingInv, ClosingTypeOK, DueInTime, x
  <2>2. shutdownInProgress => dueAt <= startedAt + x /\ now' <= startedAt + x
    BY <1>2, <2>1
  <2> QED BY <2>2 DEF DueInTime, x
<1>4. ClosingTypeOK' /\ TriesLeft' /\ ClockFrom'
  BY <1>2 DEF ClosingInv, ClosingTypeOK, TriesLeft, ClockFrom
<1>5. TimeoutInTime'
  BY <1>2, SessionAssumption DEF ClosingInv, ClosingTypeOK, TimeoutInTime
<1> QED BY <1>3, <1>4, <1>5 DEF ClosingInv

\* A cancelled context starts the shutdown, or restarts its clock.
LEMMA ClosingSelectCtx ==
  ASSUME ClosingInv, SelectCtx
  PROVE  ClosingInv'
<1>1. pc = "select" /\ pc' = "top" /\ ctx' = "handled" /\ shutdownFrom' = now /\ now' = now
      /\ shutdownInProgress' = TRUE /\ tries' = tries
  BY DEF SelectCtx, StartShutdown
<1>2. CASE shutdownInProgress
  <2>1. dueAt' = dueAt /\ startedAt' = startedAt
    BY <1>2 DEF SelectCtx, StartShutdown
  <2>2. (tries + 1) * SendInterval \in Nat
    BY Intervals DEF ClosingInv, ClosingTypeOK
  <2>3. ClosingTypeOK' /\ TriesLeft' /\ ClockFrom'
    BY <1>1, <1>2, <2>1 DEF ClosingInv, ClosingTypeOK, TriesLeft, ClockFrom
  <2> DEFINE x == (tries + 1) * SendInterval
  <2>4. dueAt <= startedAt + x /\ now < startedAt + x /\ x \in Nat
    BY <1>1, <1>2, <2>2 DEF ClosingInv, DueInTime
  <2> HIDE DEF x
  <2>5. now <= startedAt + x
    BY <2>4 DEF ClosingInv, ClosingTypeOK
  <2>6. DueInTime'
    BY <1>1, <2>1, <2>4, <2>5 DEF DueInTime, x
  <2>7. TimeoutInTime'
    BY <1>1, SessionAssumption DEF ClosingInv, ClosingTypeOK, TimeoutInTime
  <2> QED BY <2>3, <2>6, <2>7 DEF ClosingInv
<1>3. CASE ~shutdownInProgress
  <2>1. dueAt' \in now..now + SendInterval /\ startedAt' = now
    BY <1>3 DEF SelectCtx, StartShutdown
  <2> QED BY <1>1, <1>3, <2>1, ClosingBegins
<1> QED BY <1>2, <1>3

\* Input may end in the quit escape, which starts it.
LEMMA ClosingSelectInput ==
  ASSUME ClosingInv, SelectInput
  PROVE  ClosingInv'
<1>1. pc = "select" /\ pc' = "top" /\ ctx' = ctx /\ now' = now
  BY DEF SelectInput
<1>2. \/ UNCHANGED closingVars
      \/ ~shutdownInProgress /\ StartShutdown /\ shutdownFrom' = now
  BY DEF SelectInput
<1>3. CASE UNCHANGED closingVars
  BY <1>1, <1>3, ClosingBackToTop DEF closingVars
<1>4. CASE ~shutdownInProgress /\ StartShutdown /\ shutdownFrom' = now
  BY <1>1, <1>4, ClosingBegins DEF StartShutdown
<1> QED BY <1>2, <1>3, <1>4

\* A session that stops in the select is in time.
LEMMA ClosingVersionMismatch ==
  ASSUME ClosingInv, SelectVersionMismatch
  PROVE  ClosingInv'
<1>1. pc = "select" /\ pc' = "returned" /\ ctx' = ctx /\ now' = now /\ UNCHANGED closingVars
  BY DEF SelectVersionMismatch
<1>2. tries + 1 <= shutdownRetries /\ tries + 1 \in Nat /\ shutdownRetries \in Nat
  BY <1>1, SessionAssumption DEF ClosingInv, ClosingTypeOK, TriesLeft
<1> DEFINE x == (tries + 1) * SendInterval
           y == shutdownRetries * SendInterval
<1>3. x \in Nat /\ y \in Nat /\ x <= y
  BY <1>2, Intervals
<1>4. shutdownInProgress => dueAt <= startedAt + x /\ now < startedAt + x
  BY <1>1 DEF ClosingInv, DueInTime
<1> HIDE DEF x, y
<1>5. shutdownInProgress => now <= startedAt + y
  BY <1>3, <1>4 DEF ClosingInv, ClosingTypeOK
<1>6. DueInTime'
  BY <1>1, <1>4, <1>5 DEF DueInTime, closingVars, x, y
<1> QED BY <1>1, <1>6 DEF ClosingInv, ClosingTypeOK, TriesLeft, ClockFrom, TimeoutInTime, closingVars

\* The goroutines around the loop do not touch the handshake.
LEMMA ClosingElsewhere ==
  ASSUME ClosingInv, pc' = pc, now' = now, UNCHANGED closingVars,
         ctx' = ctx \/ (ctx' = "cancelled" /\ ctx # "handled")
  PROVE  ClosingInv'
BY DEF ClosingInv, ClosingTypeOK, TriesLeft, ClockFrom, DueInTime, TimeoutInTime, closingVars

\* Every step preserves the invariant.
LEMMA ClosingInvNext == ClosingInv /\ [SessionNext]_sessionVars => ClosingInv'
<1> SUFFICES ASSUME ClosingInv, [SessionNext]_sessionVars PROVE ClosingInv'
  OBVIOUS
<1>1. CASE LoopTop
  BY <1>1, ClosingLoopTop
<1>2. CASE SelectCtx
  BY <1>2, ClosingSelectCtx
<1>3. CASE SelectInput
  BY <1>3, ClosingSelectInput
<1>4. CASE SelectDatagram
  BY <1>4, ClosingBackToTop DEF SelectDatagram
<1>5. CASE SelectVersionMismatch
  BY <1>5, ClosingVersionMismatch
<1>6. CASE SelectResized
  BY <1>6, ClosingBackToTop DEF SelectResized, closingVars
<1>7. CASE SelectTimer
  BY <1>7, ClosingBackToTop DEF SelectTimer, closingVars
<1>8. CASE PumpInput
  BY <1>8, ClosingElsewhere DEF PumpInput, loopVars
<1>9. CASE WindowChange
  BY <1>9, ClosingElsewhere DEF WindowChange, loopVars
<1>10. CASE Watcher
  BY <1>10, ClosingElsewhere DEF Watcher, WatchResize, PollerStarts, Poll, WatcherStops, loopVars
<1>11. CASE Cancel
  BY <1>11, ClosingElsewhere DEF Cancel
<1>12. CASE UNCHANGED sessionVars
  BY <1>12, ClosingElsewhere DEF sessionVars, loopVars
<1> QED
  BY <1>1, <1>2, <1>3, <1>4, <1>5, <1>6, <1>7, <1>8, <1>9, <1>10, <1>11, <1>12
  DEF SessionNext, Select

\* Once a shutdown has begun the session is over within the retries and the timeout
\* (ShutdownRetries and shutdownTimeout), whatever the server answers and however
\* the loop is woken.
THEOREM HandshakeAlwaysBounded == SessionSpec => []HandshakeBounded
<1>1. SessionInit => ClosingInv
  BY ClosingInvInit
<1>2. ClosingInv /\ [SessionNext]_sessionVars => ClosingInv'
  BY ClosingInvNext
<1> QED BY <1>1, <1>2, ClosingInvSuffices, PTL DEF SessionSpec

-----------------------------------------------------------------------------
(* Escapes *)

\* The escape key is a byte like others.
LEMMA EscapeIsByte == escapeKey \in Char
BY Literals DEF escapeKey

\* Where the run of escape keys that ends before i can begin.
RunBefore(s, i) == {j \in 0..i - 1 : \A k \in j + 1..i - 1 : s[k] = escapeKey}

\* An escape key introduces an escape unless the byte before it does: the
\* parity of the run is the one bit the code remembers.
LEMMA IntroducesStep ==
  ASSUME NEW s, NEW i \in Nat \ {0}
  PROVE  Introduces(s, i) <=> s[i] = escapeKey /\ ~(i > 1 /\ Introduces(s, i - 1))
<1> DEFINE m(j) == Min(RunBefore(s, j))
<1>1. ASSUME NEW j \in Nat \ {0}
      PROVE  /\ RunBefore(s, j) \in SUBSET Nat /\ j - 1 \in RunBefore(s, j)
             /\ m(j) \in RunBefore(s, j) /\ m(j) \in 0..j - 1
             /\ \A y \in RunBefore(s, j) : m(j) <= y
             /\ Introduces(s, j) <=> s[j] = escapeKey /\ (j - 1 - m(j)) % 2 = 0
  <2>1. RunBefore(s, j) \in SUBSET Nat /\ j - 1 \in RunBefore(s, j)
    BY DEF RunBefore
  <2>2. m(j) \in RunBefore(s, j) /\ \A y \in RunBefore(s, j) : m(j) <= y
    BY <2>1, MinNat
  <2>3. m(j) \in 0..j - 1
    BY <2>2 DEF RunBefore
  <2>4. Introduces(s, j) <=> s[j] = escapeKey /\ (j - 1 - m(j)) % 2 = 0
    BY DEF Introduces, RunBefore
  <2> QED BY <2>1, <2>2, <2>3, <2>4
<1>2. CASE i = 1 \/ (i > 1 /\ s[i - 1] # escapeKey)
  <2>1. m(i) = i - 1
    <3> SUFFICES ASSUME m(i) < i - 1 PROVE FALSE
      BY <1>1
    <3>1. m(i) \in 0..i - 1 /\ i - 1 \in m(i) + 1..i - 1
      BY <1>1
    <3>2. s[i - 1] = escapeKey
      BY <1>1, <3>1 DEF RunBefore
    <3> QED BY <1>2, <3>1, <3>2
  <2>2. (i - 1 - m(i)) % 2 = 0
    BY <2>1
  <2>3. ~(i > 1 /\ Introduces(s, i - 1))
    BY <1>2 DEF Introduces
  <2> QED BY <1>1, <2>2, <2>3
<1>3. CASE i > 1 /\ s[i - 1] = escapeKey
  <2>1. i - 1 \in Nat \ {0}
    BY <1>3
  <2>2. \A j \in 0..i - 2 : j \in RunBefore(s, i) <=> j \in RunBefore(s, i - 1)
    <3> TAKE j \in 0..i - 2
    <3>1. /\ j \in 0..i - 1 /\ j \in 0..i - 1 - 1
          /\ \A k \in j + 1..i - 1 : k = i - 1 \/ k \in j + 1..i - 1 - 1
          /\ \A k \in j + 1..i - 1 - 1 : k \in j + 1..i - 1
      BY <2>1
    <3> QED BY <1>3, <3>1 DEF RunBefore
  <2>3. m(i - 1) \in 0..i - 2 /\ m(i - 1) \in RunBefore(s, i) /\ i - 2 \in RunBefore(s, i)
    <3>1. m(i - 1) \in 0..i - 2 /\ i - 2 \in 0..i - 2 /\ i - 2 \in RunBefore(s, i - 1)
          /\ m(i - 1) \in RunBefore(s, i - 1)
      <4>1. i - 1 - 1 = i - 2
        OBVIOUS
      <4> QED BY <1>1, <2>1, <4>1
    <3> QED BY <2>2, <3>1
  <2>4. m(i) \in 0..i - 2 /\ m(i) \in RunBefore(s, i - 1)
    <3>1. m(i) \in 0..i - 1 /\ m(i) <= i - 2 /\ m(i) \in RunBefore(s, i)
      BY <1>1, <2>3
    <3>2. m(i) \in 0..i - 2
      BY <3>1
    <3> QED BY <2>2, <3>1, <3>2
  <2>5. m(i) = m(i - 1)
    <3>1. m(i) <= m(i - 1) /\ m(i - 1) <= m(i)
      BY <1>1, <2>1, <2>3, <2>4
    <3> QED BY <3>1, <2>3, <2>4
  <2> DEFINE x == i - 1 - m(i)
  <2>6. i - 1 - 1 - m(i - 1) = x - 1 /\ x \in Int
    BY <2>4, <2>5
  <2>7. x % 2 = 0 <=> ~((x - 1) % 2 = 0)
    <3> HIDE DEF x
    <3> QED BY <2>6
  <2> QED BY <1>1, <1>3, <2>1, <2>6, <2>7
<1> QED BY <1>2, <1>3

\* Whether i introduces an escape depends on the bytes up to i only.
LEMMA IntroducesPrefix ==
  ASSUME NEW s, NEW t, NEW i \in Nat \ {0}, \A k \in 1..i : s[k] = t[k]
  PROVE  Introduces(s, i) <=> Introduces(t, i)
<1>1. RunBefore(s, i) = RunBefore(t, i)
  <2>1. \A j \in 0..i - 1 : \A k \in j + 1..i - 1 : s[k] = t[k]
    OBVIOUS
  <2> QED BY <2>1 DEF RunBefore
<1>2. s[i] = t[i]
  OBVIOUS
<1>3. Introduces(s, i) <=> s[i] = escapeKey /\ (i - 1 - Min(RunBefore(s, i))) % 2 = 0
  BY DEF Introduces, RunBefore
<1>4. Introduces(t, i) <=> t[i] = escapeKey /\ (i - 1 - Min(RunBefore(t, i))) % 2 = 0
  BY DEF Introduces, RunBefore
<1> QED BY <1>1, <1>2, <1>3, <1>4

\* The quit escapes of s.
Quits(s) == {i \in 2..Len(s) : s[i] = "." /\ Introduces(s, i - 1)}

\* QuitAt is the first of them.
LEMMA QuitFirst ==
  ASSUME NEW s \in Seq(Char)
  PROVE  /\ Quits(s) = {} => QuitAt(s) = Len(s) + 1
         /\ Quits(s) # {} => QuitAt(s) \in Quits(s) /\ \A i \in Quits(s) : QuitAt(s) <= i
         /\ QuitAt(s) > Len(s) <=> Quits(s) = {}
         /\ QuitAt(s) \in Nat
<1>1. Len(s) \in Nat /\ Quits(s) \in SUBSET Nat
  BY LenProperties DEF Quits
<1>2. QuitAt(s) = IF Quits(s) = {} THEN Len(s) + 1 ELSE Min(Quits(s))
  BY DEF QuitAt, Quits
<1>3. ASSUME Quits(s) # {}
      PROVE  Min(Quits(s)) \in Quits(s) /\ \A i \in Quits(s) : Min(Quits(s)) <= i
  BY <1>1, <1>3, MinNat
<1>4. \A i \in Quits(s) : i \in Nat /\ ~(i > Len(s))
  BY <1>1 DEF Quits
<1> QED BY <1>1, <1>2, <1>3, <1>4

\* More bytes do not move the first quit escape.
LEMMA QuitKept ==
  ASSUME NEW s \in Seq(Char), NEW t \in Seq(Char), QuitAt(s) <= Len(s)
  PROVE  /\ QuitAt(s) \in 2..Len(s) /\ QuitAt(s \o t) = QuitAt(s)
         /\ QuitAt(s \o t) <= Len(s \o t)
         /\ SubSeq(s \o t, 1, QuitAt(s) - 1) = SubSeq(s, 1, QuitAt(s) - 1)
<1> DEFINE u == s \o t
           q == QuitAt(s)
<1>1. u \in Seq(Char) /\ Len(u) = Len(s) + Len(t) /\ Len(s) \in Nat /\ Len(t) \in Nat
      /\ \A i \in 1..Len(s) : u[i] = s[i]
  BY LenProperties, ConcatProperties
<1>2. q \in Quits(s) /\ (\A i \in Quits(s) : q <= i) /\ q \in Nat
  <2>1. ~(QuitAt(s) > Len(s))
    BY <1>1, QuitFirst
  <2> QED BY <2>1, QuitFirst
<1>3. q \in 2..Len(s)
  BY <1>2 DEF Quits
<1> HIDE DEF u, q
<1>4. ASSUME NEW i \in 2..Len(s)
      PROVE  i \in Quits(u) <=> i \in Quits(s)
  <2>1. i - 1 \in Nat \ {0} /\ \A k \in 1..i - 1 : u[k] = s[k]
    BY <1>1
  <2>2. Introduces(u, i - 1) <=> Introduces(s, i - 1)
    BY <2>1, IntroducesPrefix
  <2>3. u[i] = s[i] /\ i \in 2..Len(u)
    BY <1>1
  <2> QED BY <2>2, <2>3 DEF Quits
<1>5. q \in Quits(u)
  BY <1>2, <1>3, <1>4
<1>6. QuitAt(u) \in Quits(u) /\ QuitAt(u) <= q /\ QuitAt(u) \in Nat
  BY <1>1, <1>5, QuitFirst
<1>7. QuitAt(u) \in 2..Len(s)
  BY <1>3, <1>6, <1>1 DEF Quits
<1>8. q <= QuitAt(u)
  BY <1>2, <1>4, <1>6, <1>7
<1>9. QuitAt(u) = q /\ q <= Len(u)
  BY <1>1, <1>2, <1>3, <1>6, <1>8
<1>10. SubSeq(u, 1, q - 1) = SubSeq(s, 1, q - 1)
  <2>1. q - 1 \in Nat /\ q - 1 <= Len(s) /\ q - 1 <= Len(u)
    BY <1>1, <1>3
  <2>2. \A i \in 1..q - 1 : u[i] = s[i]
    BY <1>1, <2>1
  <2>3. SubSeq(u, 1, q - 1) = [i \in 1..q - 1 |-> u[i]]
    BY <1>1, <2>1, SubSeqProperties
  <2>4. SubSeq(s, 1, q - 1) = [i \in 1..q - 1 |-> s[i]]
    BY <1>1, <2>1, SubSeqProperties
  <2> QED BY <2>2, <2>3, <2>4
<1> QED BY <1>3, <1>9, <1>10 DEF u, q

\* One more byte makes a quit escape when it is a dot after an introduction.
LEMMA QuitStep ==
  ASSUME NEW s \in Seq(Char), NEW c \in Char, QuitAt(s) > Len(s)
  PROVE  LET u == Append(s, c)
             ends == c = "." /\ Len(s) >= 1 /\ Introduces(s, Len(s))
         IN  /\ ends => QuitAt(u) = Len(s) + 1 /\ QuitAt(u) <= Len(u)
             /\ ~ends => QuitAt(u) > Len(u)
<1> DEFINE u == Append(s, c)
           n == Len(s)
           ends == c = "." /\ n >= 1 /\ Introduces(s, n)
<1>1. /\ u \in Seq(Char) /\ Len(u) = n + 1 /\ n \in Nat /\ u[n + 1] = c
      /\ \A i \in 1..n : u[i] = s[i]
  BY LenProperties, AppendProperties
<1>2. Quits(s) = {}
  BY QuitFirst
<1> HIDE DEF u, n
<1>3. ASSUME NEW i \in 1..n
      PROVE  Introduces(u, i) <=> Introduces(s, i)
  <2>1. i \in Nat \ {0} /\ \A k \in 1..i : u[k] = s[k]
    BY <1>1
  <2> QED BY <2>1, IntroducesPrefix
<1>4. ASSUME NEW i \in 2..n
      PROVE  i \notin Quits(u)
  <2>1. i - 1 \in 1..n /\ u[i] = s[i] /\ i \in 2..Len(s)
    BY <1>1 DEF n
  <2> QED BY <1>2, <1>3, <2>1 DEF Quits
<1>5. n + 1 \in Quits(u) <=> ends
  <2>1. CASE n >= 1
    <3>1. n + 1 \in 2..Len(u) /\ n + 1 - 1 = n /\ n \in 1..n
      BY <1>1, <2>1
    <3> QED BY <1>1, <1>3, <2>1, <3>1 DEF Quits
  <2>2. CASE ~(n >= 1)
    <3>1. n + 1 \notin 2..Len(u)
      BY <1>1, <2>2
    <3> QED BY <2>2, <3>1 DEF Quits
  <2> QED BY <2>1, <2>2
<1>6. \A i \in Quits(u) : i = n + 1
  <2> SUFFICES ASSUME NEW i \in Quits(u), i # n + 1 PROVE FALSE
    OBVIOUS
  <2>1. i \in 2..n
    BY <1>1 DEF Quits
  <2> QED BY <1>4, <2>1
<1>7. ends => QuitAt(u) = n + 1 /\ QuitAt(u) <= Len(u)
  BY <1>1, <1>5, <1>6, QuitFirst
<1>8. ~ends => QuitAt(u) > Len(u)
  BY <1>1, <1>5, <1>6, QuitFirst
<1> QED BY <1>7, <1>8 DEF u, n

\* The keys that bytes without a quit escape stand for.
Keys(s) == FlattenSeq([i \in 1..Len(s) |-> KeysFor(s, i)])

\* They grow by what the last byte contributes.
LEMMA KeysAppend ==
  ASSUME NEW s \in Seq(Char), NEW c \in Char
  PROVE  /\ Keys(s) \in Seq(Char)
         /\ KeysFor(Append(s, c), Len(s) + 1) \in Seq(Char)
         /\ Keys(Append(s, c)) = Keys(s) \o KeysFor(Append(s, c), Len(s) + 1)
<1> DEFINE u == Append(s, c)
           n == Len(s)
           a == [i \in 1..n |-> KeysFor(s, i)]
           x == KeysFor(u, n + 1)
<1>1. /\ u \in Seq(Char) /\ Len(u) = n + 1 /\ n \in Nat /\ u[n + 1] = c
      /\ \A i \in 1..n : u[i] = s[i] /\ s[i] \in Char
  BY LenProperties, AppendProperties, ElementOfSeq
<1>2. ASSUME NEW t \in Seq(Char), NEW i \in 1..Len(t)
      PROVE  KeysFor(t, i) \in Seq(Char)
  <2>1. t[i] \in Char
    BY ElementOfSeq
  <2>2. << >> \in Seq(Char) /\ <<t[i]>> \in Seq(Char) /\ <<escapeKey, t[i]>> \in Seq(Char)
    BY <2>1, EscapeIsByte
  <2> QED BY <2>2 DEF KeysFor
<1>3. a \in Seq(Seq(Char)) /\ Len(a) = n
  <2>1. a \in [1..n -> Seq(Char)]
    BY <1>2
  <2>2. a \in Seq(Seq(Char))
    BY <1>1, <2>1, SeqDef
  <2> QED BY <1>1, <2>2, LenProperties
<1>4. x \in Seq(Char)
  <2>1. n + 1 \in 1..Len(u)
    BY <1>1
  <2> HIDE DEF u
  <2> QED BY <1>1, <1>2, <2>1
<1>5. ASSUME NEW i \in 1..n
      PROVE  KeysFor(u, i) = KeysFor(s, i)
  <2> HIDE DEF u
  <2>1. i \in Nat \ {0} /\ (\A k \in 1..i : u[k] = s[k]) /\ u[i] = s[i]
    BY <1>1
  <2>2. Introduces(u, i) <=> Introduces(s, i)
    BY <2>1, IntroducesPrefix
  <2>3. i > 1 => (Introduces(u, i - 1) <=> Introduces(s, i - 1))
    <3> SUFFICES ASSUME i > 1 PROVE Introduces(u, i - 1) <=> Introduces(s, i - 1)
      OBVIOUS
    <3>1. i - 1 \in Nat \ {0} /\ \A k \in 1..i - 1 : u[k] = s[k]
      BY <2>1
    <3> QED BY <3>1, IntroducesPrefix
  <2> QED BY <2>1, <2>2, <2>3 DEF KeysFor
<1> DEFINE b == [i \in 1..n + 1 |-> KeysFor(u, i)]
<1>6. b = Append(a, x)
  <2>1. Append(a, x) \in Seq(Seq(Char)) /\ Len(Append(a, x)) = n + 1 /\ Append(a, x)[n + 1] = x
        /\ \A i \in 1..n : Append(a, x)[i] = a[i]
    <3> HIDE DEF a, x, n
    <3> QED BY <1>1, <1>3, <1>4, AppendProperties
  <2>2. \A i \in 1..n + 1 : b[i] = Append(a, x)[i]
    <3> TAKE i \in 1..n + 1
    <3>1. CASE i = n + 1
      BY <1>1, <2>1, <3>1
    <3>2. CASE i # n + 1
      <4>1. i \in 1..n
        BY <1>1, <3>2
      <4>2. b[i] = KeysFor(u, i) /\ a[i] = KeysFor(s, i)
        BY <4>1
      <4> QED BY <1>5, <2>1, <4>1, <4>2
    <3> QED BY <3>1, <3>2
  <2>3. b \in Seq(Seq(Char)) /\ Len(b) = n + 1
    <3>1. \A i \in 1..n + 1 : KeysFor(u, i) \in Seq(Char)
      <4> HIDE DEF u
      <4> QED BY <1>1, <1>2
    <3>2. b \in [1..n + 1 -> Seq(Char)] /\ n + 1 \in Nat
      BY <1>1, <3>1
    <3>3. b \in Seq(Seq(Char))
      BY <3>2, SeqDef
    <3> QED BY <3>2, <3>3, LenProperties
  <2> HIDE DEF a, b, x, n
  <2> QED BY <2>1, <2>2, <2>3, SeqEqual
<1>7. Keys(u) = FlattenSeq(b) /\ Keys(s) = FlattenSeq(a)
  BY <1>1 DEF Keys
<1>8. FlattenSeq(a) \in Seq(Char) /\ FlattenSeq(Append(a, x)) = FlattenSeq(a) \o x
  <2> HIDE DEF a, x
  <2> QED BY <1>3, <1>4, FlattenAppend
<1> HIDE DEF a, b
<1> QED BY <1>4, <1>6, <1>7, <1>8

\* What one byte contributes, by what the byte before it was.
LEMMA KeysLast ==
  ASSUME NEW s \in Seq(Char), NEW c \in Char
  PROVE  LET u == Append(s, c)
             n == Len(s)
             after == n >= 1 /\ Introduces(s, n)
         IN  /\ Introduces(u, n + 1) <=> c = escapeKey /\ ~after
             /\ KeysFor(u, n + 1) = IF c = escapeKey /\ ~after THEN << >>
                                    ELSE IF c # escapeKey /\ after THEN <<escapeKey, c>>
                                    ELSE <<c>>
<1> DEFINE u == Append(s, c)
           n == Len(s)
           after == n >= 1 /\ Introduces(s, n)
<1>1. Len(u) = n + 1 /\ n \in Nat /\ u[n + 1] = c /\ \A i \in 1..n : u[i] = s[i]
  BY LenProperties, AppendProperties
<1> HIDE DEF u, n
<1>2. n >= 1 => (Introduces(u, n) <=> Introduces(s, n))
  <2> SUFFICES ASSUME n >= 1 PROVE Introduces(u, n) <=> Introduces(s, n)
    OBVIOUS
  <2>1. n \in Nat \ {0}
    BY <1>1
  <2> QED BY <1>1, <2>1, IntroducesPrefix
<1>3. n + 1 \in Nat \ {0} /\ n + 1 - 1 = n /\ (n + 1 > 1 <=> n >= 1)
  BY <1>1
<1>4. Introduces(u, n + 1) <=> c = escapeKey /\ ~after
  BY <1>1, <1>2, <1>3, IntroducesStep
<1>5. KeysFor(u, n + 1) = IF Introduces(u, n + 1) THEN << >>
                          ELSE IF after /\ c # escapeKey THEN <<escapeKey, c>> ELSE <<c>>
  BY <1>1, <1>2, <1>3 DEF KeysFor
<1> QED BY <1>4, <1>5 DEF u, n

\* What processEscapes has made of the bytes s: the keys out, whether it saw the
\* quit escape, and whether an escape is pending.
Translated(keys, quit, pending, s) ==
    /\ ~quit => /\ QuitAt(s) > Len(s)
                /\ keys = Keys(s)
                /\ pending <=> Len(s) >= 1 /\ Introduces(s, Len(s))
    /\ quit => QuitAt(s) <= Len(s) /\ IsPrefix(Keys(SubSeq(s, 1, QuitAt(s) - 1)), keys)

EscapeState == [out : Seq(Char), quit : BOOLEAN, pending : BOOLEAN]

\* Once the quit escape was seen the keys before it stay where they are,
\* whatever is read and pushed after it.
LEMMA TranslatedAfterQuit ==
  ASSUME NEW s \in Seq(Char), NEW t \in Seq(Char), NEW keys \in Seq(Char), NEW more \in Seq(Char),
         Keys(SubSeq(s, 1, QuitAt(s) - 1)) \in Seq(Char),
         Translated(keys, TRUE, TRUE, s), NEW pending
  PROVE  Translated(keys \o more, TRUE, pending, s \o t)
<1>1. QuitAt(s) <= Len(s) /\ IsPrefix(Keys(SubSeq(s, 1, QuitAt(s) - 1)), keys)
  BY DEF Translated
<1>2. /\ QuitAt(s \o t) = QuitAt(s) /\ QuitAt(s \o t) <= Len(s \o t)
      /\ SubSeq(s \o t, 1, QuitAt(s) - 1) = SubSeq(s, 1, QuitAt(s) - 1)
  BY <1>1, QuitKept
<1>3. IsPrefix(Keys(SubSeq(s, 1, QuitAt(s) - 1)), keys \o more)
  BY <1>1, PrefixGrows
<1> QED BY <1>2, <1>3 DEF Translated

\* The keys before the quit escape are keys.
LEMMA KeysBeforeQuit ==
  ASSUME NEW s \in Seq(Char), QuitAt(s) <= Len(s)
  PROVE  Keys(SubSeq(s, 1, QuitAt(s) - 1)) \in Seq(Char)
<1>1. QuitAt(s) \in 2..Len(s) /\ Len(s) \in Nat
  BY QuitKept, LenProperties, EmptySeq
<1>2. SubSeq(s, 1, QuitAt(s) - 1) \in Seq(Char)
  <2>1. \A i \in 1..QuitAt(s) - 1 : s[i] \in Char
    BY <1>1, ElementOfSeq
  <2>2. 1 \in Int /\ QuitAt(s) - 1 \in Int
    BY <1>1
  <2> QED BY <2>1, <2>2, SubSeqProperties
<1> QED BY <1>2, EscapeIsByte, KeysAppend

\* One byte.
LEMMA EscapeStepTranslates ==
  ASSUME NEW before \in Seq(Char), NEW st \in EscapeState, NEW c \in Char, NEW s \in Seq(Char),
         Translated(before \o st.out, st.quit, st.pending, s)
  PROVE  /\ EscapeStep(st, c) \in EscapeState
         /\ Translated(before \o EscapeStep(st, c).out, EscapeStep(st, c).quit,
                       EscapeStep(st, c).pending, Append(s, c))
<1> DEFINE u == Append(s, c)
           n == Len(s)
           r == EscapeStep(st, c)
<1>1. u \in Seq(Char) /\ Len(u) = n + 1 /\ n \in Nat /\ u = s \o <<c>> /\ <<c>> \in Seq(Char)
  BY LenProperties, AppendProperties, AppendIsConcat
<1>2. st.out \in Seq(Char) /\ st.quit \in BOOLEAN /\ st.pending \in BOOLEAN
      /\ before \o st.out \in Seq(Char)
  BY ConcatProperties DEF EscapeState
<1>3. CASE st.quit
  <2>1. r = st
    BY <1>2, <1>3 DEF EscapeStep
  <2>2. QuitAt(s) <= Len(s) /\ Translated(before \o st.out, TRUE, TRUE, s)
    BY <1>3 DEF Translated
  <2>3. Translated((before \o st.out) \o << >>, TRUE, st.pending, s \o <<c>>)
    BY <1>1, <1>2, <2>2, KeysBeforeQuit, TranslatedAfterQuit, EmptySeq
  <2>4. (before \o st.out) \o << >> = before \o st.out /\ st.quit = TRUE
    BY <1>2, <1>3, ConcatEmptySeq
  <2> QED BY <1>1, <2>1, <2>3, <2>4
<1>4. CASE ~st.quit
  <2> DEFINE after == n >= 1 /\ Introduces(s, n)
             k == KeysFor(u, n + 1)
  <2>1. QuitAt(s) > Len(s) /\ before \o st.out = Keys(s) /\ (st.pending <=> after)
    BY <1>4 DEF Translated
  <2>2. /\ Introduces(u, n + 1) <=> c = escapeKey /\ ~after
        /\ k = IF c = escapeKey /\ ~after THEN << >>
               ELSE IF c # escapeKey /\ after THEN <<escapeKey, c>>
               ELSE <<c>>
    BY KeysLast
  <2>3. /\ c = "." /\ after => QuitAt(u) = n + 1 /\ QuitAt(u) <= Len(u)
        /\ ~(c = "." /\ after) => QuitAt(u) > Len(u)
    BY <2>1, QuitStep
  <2>4. k \in Seq(Char) /\ Keys(s) \in Seq(Char) /\ Keys(u) = Keys(s) \o k
    BY KeysAppend
  <2>5. "." # escapeKey
    BY DEF escapeKey
  <2> HIDE DEF u, k, after
  <2>6. CASE c = "." /\ after
    <3>1. r = [st EXCEPT !.pending = FALSE, !.quit = TRUE, !.out = @]
      BY <1>2, <1>4, <2>1, <2>6 DEF EscapeStep
    <3>2. r \in EscapeState /\ r.out = st.out /\ r.quit = TRUE
      BY <1>2, <3>1 DEF EscapeState
    <3>3. SubSeq(u, 1, QuitAt(u) - 1) = s
      <4>1. QuitAt(u) - 1 = n
        BY <1>1, <2>3, <2>6
      <4>2. SubSeq(u, 1, n) = s
        BY <1>1, AppendProperties DEF u
      <4> QED BY <4>1, <4>2
    <3>4. IsPrefix(Keys(s), Keys(s))
      BY <2>4, LenProperties DEF IsPrefix
    <3> QED BY <2>1, <2>3, <2>6, <3>2, <3>3, <3>4 DEF Translated, u
  <2>7. CASE ~(c = "." /\ after)
    <3>1. /\ r \in EscapeState /\ r.quit = FALSE
          /\ r.out = st.out \o k
          /\ r.pending <=> c = escapeKey /\ ~after
      <4>1. CASE after /\ c = escapeKey
        <5>1. r = [st EXCEPT !.pending = FALSE, !.quit = FALSE, !.out = Append(@, escapeKey)]
          BY <1>2, <1>4, <2>1, <2>5, <4>1 DEF EscapeStep
        <5>2. k = <<escapeKey>> /\ Append(st.out, escapeKey) = st.out \o <<escapeKey>>
              /\ Append(st.out, escapeKey) \in Seq(Char)
          BY <1>2, <2>2, <4>1, AppendProperties, AppendIsConcat
        <5> QED BY <1>2, <4>1, <5>1, <5>2 DEF EscapeState
      <4>2. CASE after /\ c # escapeKey
        <5>1. r = [st EXCEPT !.pending = FALSE, !.quit = FALSE, !.out = @ \o <<escapeKey, c>>]
          BY <1>2, <1>4, <2>1, <2>7, <4>2 DEF EscapeStep
        <5>2. k = <<escapeKey, c>>
          BY <2>2, <4>2
        <5>3. st.out \o k \in Seq(Char)
          BY <1>2, <2>4, ConcatProperties
        <5> QED BY <1>2, <4>2, <5>1, <5>2, <5>3 DEF EscapeState
      <4>3. CASE ~after /\ c = escapeKey
        <5>1. r = [st EXCEPT !.pending = TRUE]
          BY <1>2, <1>4, <2>1, <4>3 DEF EscapeStep
        <5>2. k = << >> /\ st.out \o << >> = st.out
          BY <1>2, <2>2, <4>3, ConcatEmptySeq
        <5> QED BY <1>2, <1>4, <4>3, <5>1, <5>2 DEF EscapeState
      <4>4. CASE ~after /\ c # escapeKey
        <5>1. r = [st EXCEPT !.out = Append(@, c)]
          BY <1>2, <1>4, <2>1, <4>4 DEF EscapeStep
        <5>2. k = <<c>> /\ Append(st.out, c) = st.out \o <<c>> /\ Append(st.out, c) \in Seq(Char)
          BY <1>2, <2>2, <4>4, AppendProperties, AppendIsConcat
        <5> QED BY <1>2, <1>4, <2>1, <4>4, <5>1, <5>2 DEF EscapeState
      <4> QED BY <4>1, <4>2, <4>3, <4>4
    <3> HIDE DEF r
    <3>2. before \o (st.out \o k) = (before \o st.out) \o k
      <4> DEFINE a == st.out
      <4>1. a \in Seq(Char)
        BY <1>2
      <4> HIDE DEF a
      <4>2. Regroups(before, a, k)
        BY <2>4, <4>1, ConcatRegroups
      <4> QED BY <4>2 DEF Regroups, a
    <3>3. before \o r.out = Keys(u)
      BY <2>1, <2>4, <3>1, <3>2
    <3>4. r.pending <=> Len(u) >= 1 /\ Introduces(u, Len(u))
      BY <1>1, <2>2, <3>1
    <3>5. Translated(before \o r.out, r.quit, r.pending, u)
      BY <2>3, <2>7, <3>1, <3>3, <3>4 DEF Translated
    <3> QED BY <3>1, <3>5 DEF r, u
  <2> QED BY <2>6, <2>7
<1> QED BY <1>2, <1>3, <1>4

\* The recursive definition in ProcessEscapes has one value.
LEMMA ProcessRun ==
  ASSUME NEW b \in Seq(Char), NEW g, NEW first,
         first = [out |-> << >>, quit |-> FALSE, pending |-> escapePending],
         g = [i \in 0..Len(b) |-> g[i]],
         g[0] = first, \A i \in 1..Len(b) : g[i] = EscapeStep(g[i - 1], b[i])
  PROVE  ProcessEscapes(b) = g[Len(b)]
<1> DEFINE k == Len(b)
           Eq(f) == f = [i \in 0..k |-> IF i = 0 THEN first ELSE EscapeStep(f[i - 1], b[i])]
           F == CHOOSE f : Eq(f)
<1>1. k \in Nat /\ k \in 0..k
  BY LenProperties
<1>2. \A i \in 0..k : g[i] = IF i = 0 THEN first ELSE EscapeStep(g[i - 1], b[i])
  <2> TAKE i \in 0..k
  <2>1. i # 0 => i \in 1..k
    BY <1>1
  <2> QED BY <2>1
<1>3. Eq(g)
  <2> HIDE DEF k
  <2>1. g = [i \in 0..k |-> g[i]]
    BY DEF k
  <2> QED BY <1>2, <2>1
<1>4. Eq(F)
  <2> HIDE DEF Eq
  <2> QED BY <1>3
<1>5. ProcessEscapes(b) = F[k]
  BY DEF ProcessEscapes
<1>6. \A i \in 0..k : F[i] = IF i = 0 THEN first ELSE EscapeStep(F[i - 1], b[i])
  <2> HIDE DEF F, k
  <2> QED BY <1>4
<1> HIDE DEF F
<1>7. \A i \in 0..k : F[i] = g[i]
  <2> DEFINE Bad == {i \in 0..k : F[i] # g[i]}
  <2> SUFFICES ASSUME Bad # {} PROVE FALSE
    OBVIOUS
  <2>1. Bad \in SUBSET Nat
    BY <1>1
  <2>2. PICK i \in Bad : \A j \in Bad : i <= j
    BY <2>1, NatHasLeast
  <2>3. i \in 0..k /\ F[i] # g[i]
    BY <2>2
  <2>4. CASE i = 0
    BY <1>2, <1>6, <2>3, <2>4
  <2>5. CASE i # 0
    <3>1. i - 1 \in 0..k /\ ~(i <= i - 1)
      BY <1>1, <2>3, <2>5
    <3>2. F[i - 1] = g[i - 1]
      BY <2>2, <3>1
    <3>3. F[i] = EscapeStep(F[i - 1], b[i]) /\ g[i] = EscapeStep(g[i - 1], b[i])
      BY <1>2, <1>6, <2>3, <2>5
    <3> QED BY <2>3, <3>2, <3>3
  <2> QED BY <2>4, <2>5
<1> QED BY <1>1, <1>5, <1>7

\* A step of processEscapes stays in the states, wherever it starts.
LEMMA EscapeStepType ==
  ASSUME NEW st \in EscapeState, NEW c \in Char
  PROVE  EscapeStep(st, c) \in EscapeState
<1>1. st.out \in Seq(Char) /\ st.quit \in BOOLEAN /\ st.pending \in BOOLEAN
  BY DEF EscapeState
<1>2. /\ Append(st.out, c) \in Seq(Char) /\ Append(st.out, escapeKey) \in Seq(Char)
      /\ st.out \o <<escapeKey, c>> \in Seq(Char)
  <2>1. <<escapeKey, c>> \in Seq(Char)
    BY EscapeIsByte
  <2> QED BY <1>1, <2>1, EscapeIsByte, AppendProperties, ConcatProperties
<1>3. CASE st.quit
  BY <1>1, <1>3 DEF EscapeStep
<1>4. CASE ~st.quit /\ st.pending
  <2> DEFINE o == IF c = "." THEN st.out
                  ELSE IF c = escapeKey THEN Append(st.out, escapeKey)
                  ELSE st.out \o <<escapeKey, c>>
  <2>1. o \in Seq(Char)
    BY <1>1, <1>2
  <2>2. EscapeStep(st, c) = [st EXCEPT !.pending = FALSE, !.quit = (c = "."), !.out = o]
    BY <1>1, <1>4 DEF EscapeStep
  <2> HIDE DEF o
  <2> QED BY <2>1, <2>2 DEF EscapeState
<1>5. CASE ~st.quit /\ ~st.pending
  <2>1. EscapeStep(st, c) = IF c = escapeKey THEN [st EXCEPT !.pending = TRUE]
                            ELSE [st EXCEPT !.out = Append(@, c)]
    BY <1>1, <1>5 DEF EscapeStep
  <2> QED BY <1>2, <2>1 DEF EscapeState
<1> QED BY <1>1, <1>3, <1>4, <1>5

\* A chunk goes on where the one before it ended, however stdin was cut.
LEMMA ProcessTranslates ==
  ASSUME NEW b \in Seq(Char), NEW before \in Seq(Char), NEW s \in Seq(Char),
         escapePending \in BOOLEAN
  PROVE  /\ ProcessEscapes(b) \in EscapeState
         /\ Translated(before, FALSE, escapePending, s) =>
                Translated(before \o ProcessEscapes(b).out, ProcessEscapes(b).quit,
                           ProcessEscapes(b).pending, s \o b)
<1> DEFINE k == Len(b)
           first == [out |-> << >>, quit |-> FALSE, pending |-> escapePending]
           step == [a \in Nat \X EscapeState |->
                       IF a[1] + 1 \in 1..k THEN EscapeStep(a[2], b[a[1] + 1]) ELSE a[2]]
<1>1. k \in Nat /\ \A i \in 1..k : b[i] \in Char
  BY LenProperties, ElementOfSeq
<1>2. first \in EscapeState
  BY EmptySeq DEF EscapeState
<1>3. step \in [Nat \X EscapeState -> EscapeState]
  <2> SUFFICES ASSUME NEW a \in Nat \X EscapeState
               PROVE  (IF a[1] + 1 \in 1..k THEN EscapeStep(a[2], b[a[1] + 1]) ELSE a[2]) \in EscapeState
    OBVIOUS
  <2>1. a[2] \in EscapeState
    OBVIOUS
  <2> QED BY <1>1, <2>1, EscapeStepType
<1>4. \E g : IsIteration(g, EscapeState, first, step, k)
  <2> HIDE DEF step, k, first
  <2> QED BY <1>1, <1>2, <1>3, Iterates
<1>5. PICK g \in [0..k -> EscapeState] :
          g[0] = first /\ \A n \in 0..k - 1 : g[n + 1] = step[<<n, g[n]>>]
  BY <1>4 DEF IsIteration
<1>6. ASSUME NEW i \in 1..k
      PROVE  /\ g[i] = EscapeStep(g[i - 1], b[i]) /\ i - 1 \in 0..k
             /\ g[i - 1] \in EscapeState
  <2>1. i - 1 \in 0..k - 1 /\ i - 1 + 1 = i /\ i - 1 \in Nat /\ i - 1 \in 0..k
    BY <1>1
  <2>2. g[i - 1] \in EscapeState /\ <<i - 1, g[i - 1]>> \in Nat \X EscapeState
    BY <2>1
  <2>3. g[i] = step[<<i - 1, g[i - 1]>>]
    BY <1>5, <2>1
  <2>4. step[<<i - 1, g[i - 1]>>] = EscapeStep(g[i - 1], b[i])
    BY <2>1, <2>2
  <2> QED BY <2>1, <2>2, <2>3, <2>4
<1> HIDE DEF step
<1>7. ProcessEscapes(b) = g[k] /\ g[k] \in EscapeState
  <2>1. g = [i \in 0..k |-> g[i]]
    OBVIOUS
  <2>2. g[k] \in EscapeState
    BY <1>1
  <2> QED BY <1>5, <1>6, <2>1, <2>2, ProcessRun
<1>8. ASSUME Translated(before, FALSE, escapePending, s)
      PROVE  Translated(before \o g[k].out, g[k].quit, g[k].pending, s \o b)
  <2> DEFINE upto(i) == s \o SubSeq(b, 1, i)
             Ok(i) == Translated(before \o g[i].out, g[i].quit, g[i].pending, upto(i))
             Bad == {i \in 0..k : ~Ok(i)}
  <2>1. \A i \in 0..k : SubSeq(b, 1, i) \in Seq(Char)
    <3> TAKE i \in 0..k
    <3>1. \A j \in 1..i : b[j] \in Char
      BY <1>1
    <3> QED BY <1>1, <3>1, SubSeqProperties
  <2>2. \A i \in 0..k : upto(i) \in Seq(Char)
    BY <2>1, ConcatProperties
  <2>3. upto(0) = s
    <3>1. SubSeq(b, 1, 0) = << >>
      BY SubSeqEmpty
    <3> QED BY <3>1, ConcatEmptySeq
  <2>4. upto(k) = s \o b
    BY SubSeqFull
  <2>5. ASSUME NEW i \in 1..k
        PROVE  upto(i) = Append(upto(i - 1), b[i])
    <3>1. s \o SubSeq(b, 1, i) = Append(s \o SubSeq(b, 1, i - 1), b[i])
      BY PrefixGrowsByOne
    <3> QED BY <3>1
  <2>6. Ok(0)
    <3>1. g[0].out = << >> /\ g[0].quit = FALSE /\ g[0].pending = escapePending
      BY <1>5
    <3>2. before \o << >> = before
      BY ConcatEmptySeq
    <3> QED BY <1>8, <2>3, <3>1, <3>2
  <2> HIDE DEF upto
  <2>7. ASSUME NEW i \in 1..k, Ok(i - 1)
        PROVE  Ok(i)
    <3> DEFINE st == g[i - 1]
               t == upto(i - 1)
    <3>1. st \in EscapeState /\ b[i] \in Char /\ t \in Seq(Char)
          /\ Translated(before \o st.out, st.quit, st.pending, t)
      BY <1>1, <1>6, <2>2, <2>7
    <3>2. g[i] = EscapeStep(st, b[i]) /\ upto(i) = Append(t, b[i])
      BY <1>6, <2>5
    <3> HIDE DEF st, t
    <3>3. Translated(before \o EscapeStep(st, b[i]).out, EscapeStep(st, b[i]).quit,
                     EscapeStep(st, b[i]).pending, Append(t, b[i]))
      BY <3>1, EscapeStepTranslates
    <3> QED BY <3>2, <3>3
  <2> HIDE DEF Ok
  <2>8. Bad = {}
    <3> SUFFICES ASSUME Bad # {} PROVE FALSE
      OBVIOUS
    <3>1. Bad \in SUBSET Nat
      BY <1>1
    <3>2. PICK i \in Bad : \A j \in Bad : i <= j
      BY <3>1, NatHasLeast
    <3>3. i \in 1..k /\ ~Ok(i)
      BY <1>1, <2>6, <3>2
    <3>4. i - 1 \in 0..k /\ ~(i <= i - 1)
      BY <1>1, <3>3
    <3>5. Ok(i - 1)
      BY <3>2, <3>4
    <3> QED BY <2>7, <3>3, <3>5
  <2>9. Ok(k)
    BY <1>1, <2>8
  <2> QED BY <2>4, <2>9 DEF Ok
<1> QED BY <1>7, <1>8

-----------------------------------------------------------------------------
(* The invariant *)

EscapeTypeOK ==
    /\ disableEscape \in BOOLEAN /\ escapePending \in BOOLEAN
    /\ input \in Seq(Seq(Char)) /\ consumed \in Seq(Char) /\ handed \in Seq(Seq(Char))

QuitSeen == QuitAt(consumed) <= Len(consumed)

\* The keys before the filter.
KeysTyped == FlattenSeq(handed)

\* The filter is at rest between reads, and what the server was sent is what it
\* makes of each of them.
Guards ==
    \/ clipIn = << >> /\ pushedKeys = KeysTyped
    \/ /\ clipIn # << >> /\ clipIn = <<clipIn[1]>>
       /\ clipIn[1] \in FilterType /\ Idle(clipIn[1]) /\ clipIn[1].policy = "Off"
       /\ pushedKeys = FlattenSeq(Chunked("Off", handed))

EscapeInv ==
    /\ EscapeTypeOK
    /\ disableEscape => KeysTyped = consumed
    /\ ~disableEscape => /\ Translated(KeysTyped, QuitSeen, escapePending, consumed)
                         /\ QuitSeen => shutdownInProgress
    /\ Guards

\* The invariant says what the server was sent for what was read.
LEMMA EscapeInvSuffices == EscapeInv => EscapesTranslated
<1> SUFFICES ASSUME EscapeInv PROVE EscapesTranslated
  OBVIOUS
<1>1. consumed \in Seq(Char) /\ Len(consumed) \in Nat /\ QuitAt(consumed) \in Nat
  <2>1. consumed \in Seq(Char)
    BY DEF EscapeInv, EscapeTypeOK
  <2> QED BY <2>1, LenProperties, QuitFirst
<1> DEFINE typed == SubSeq(consumed, 1, QuitAt(consumed) - 1)
<1>2. ASSUME ~disableEscape
      PROVE  IF QuitAt(consumed) > Len(consumed) THEN KeysTyped = Keys(typed)
             ELSE IsPrefix(Keys(typed), KeysTyped) /\ shutdownInProgress
  <2>1. Translated(KeysTyped, QuitSeen, escapePending, consumed) /\ (QuitSeen => shutdownInProgress)
    BY <1>2 DEF EscapeInv
  <2>2. CASE QuitSeen
    BY <1>1, <2>1, <2>2 DEF QuitSeen, Translated
  <2>3. CASE ~QuitSeen
    <3>1. QuitAt(consumed) > Len(consumed)
      BY <1>1, <2>3 DEF QuitSeen
    <3>2. QuitAt(consumed) - 1 = Len(consumed)
      BY <1>1, <3>1, QuitFirst
    <3>3. SubSeq(consumed, 1, QuitAt(consumed) - 1) = consumed
      BY <1>1, <3>2, SubSeqFull
    <3> QED BY <2>1, <2>3, <3>1, <3>3 DEF Translated
  <2> QED BY <2>2, <2>3
<1>3. disableEscape => KeysTyped = consumed
  BY DEF EscapeInv
<1>4. pushedKeys = FlattenSeq([i \in 1..Len(handed) |-> Guarded(handed[i])])
  <2>1. handed \in Seq(Seq(Char)) /\ Guards
    BY DEF EscapeInv, EscapeTypeOK
  <2>2. CASE clipIn = << >>
    <3>1. [i \in 1..Len(handed) |-> Guarded(handed[i])] = [i \in 1..Len(handed) |-> handed[i]]
      BY <2>2 DEF Guarded
    <3>2. [i \in 1..Len(handed) |-> handed[i]] = handed
      BY <2>1
    <3> QED BY <2>1, <2>2, <3>1, <3>2 DEF Guards, KeysTyped
  <2>3. CASE clipIn # << >>
    <3>1. \A keys : Guarded(keys) = Chunk("Off", keys)
      BY <2>3 DEF Guarded, Chunk
    <3>2. [i \in 1..Len(handed) |-> Guarded(handed[i])] = Chunked("Off", handed)
      BY <3>1 DEF Chunked
    <3> QED BY <2>1, <2>3, <3>2 DEF Guards
  <2> QED BY <2>2, <2>3
<1> HIDE DEF typed
<1>5. EscapesTranslated <=>
        LET keys == KeysTyped
        IN  /\ IF disableEscape THEN keys = consumed
               ELSE IF QuitAt(consumed) > Len(consumed) THEN keys = Keys(typed)
               ELSE IsPrefix(Keys(typed), keys) /\ shutdownInProgress
            /\ pushedKeys = FlattenSeq([i \in 1..Len(handed) |-> Guarded(handed[i])])
  BY DEF EscapesTranslated, Keys, KeysTyped, typed
<1> QED BY <1>2, <1>3, <1>4, <1>5

\* What one read of stdin returns is made of bytes.
LEMMA ChunksOfBytes == \A b \in Chunks : b \in Seq(Char)
<1>1. STRING \subseteq Char
  BY DEF Char
<1>2. Seq(STRING) \subseteq Seq(Char)
  BY <1>1, SeqMonotonic
<1> QED BY <1>2, SessionAssumption

\* Nothing was read and nothing was sent.
LEMMA EscapeInvInit == SessionInit => EscapeInv
<1> SUFFICES ASSUME SessionInit PROVE EscapeInv
  OBVIOUS
<1>1. /\ consumed = << >> /\ pushedKeys = << >> /\ input = << >> /\ handed = << >>
      /\ escapePending = FALSE /\ disableEscape \in BOOLEAN
      /\ clipIn = << >> \/ clipIn = <<New("Off")>>
  BY DEF SessionInit
<1>2. << >> \in Seq(Char) /\ << >> \in Seq(Seq(Char)) /\ Len(<< >>) = 0
  BY EmptySeq
<1>3. QuitAt(<< >>) > Len(<< >>) /\ ~(QuitAt(<< >>) <= Len(<< >>))
  <2>1. Quits(<< >>) = {}
    BY <1>2 DEF Quits
  <2>2. QuitAt(<< >>) = 0 + 1
    BY <1>2, <2>1, QuitFirst
  <2> QED BY <1>2, <2>2
<1>4. Keys(<< >>) = << >>
  <2>1. [i \in 1..Len(<< >>) |-> KeysFor(<< >>, i)] = << >>
    BY <1>2
  <2> QED BY <1>2, <2>1 DEF Keys, FlattenSeq
<1>5. Translated(<< >>, FALSE, FALSE, << >>)
  BY <1>2, <1>3, <1>4 DEF Translated
<1>6. QuitSeen = FALSE
  BY <1>1, <1>3 DEF QuitSeen
<1>7. KeysTyped = << >>
  BY <1>1, FlattenNone DEF KeysTyped
<1>8. Chunked("Off", handed) = << >>
  <2>1. Len(handed) = 0 /\ \A i \in 1..0 : FALSE
    BY <1>1
  <2>2. Chunked("Off", handed) = [i \in 1..0 |-> Chunk("Off", handed[i])]
    BY <2>1 DEF Chunked
  <2> QED BY <2>2
<1>9. Guards
  <2>1. CASE clipIn = << >>
    BY <1>1, <1>7, <2>1 DEF Guards
  <2>2. CASE clipIn = <<New("Off")>>
    <3>1. "Off" \in Policy
      BY DEF Policy
    <3>2. New("Off") \in FilterType /\ Idle(New("Off")) /\ New("Off").policy = "Off"
      BY <3>1, NewIdle DEF New
    <3>3. PICK f : f = New("Off")
      OBVIOUS
    <3>4. clipIn # << >> /\ clipIn[1] = f /\ clipIn = <<clipIn[1]>>
      BY <2>2, <3>3
    <3> QED BY <1>1, <1>8, <3>2, <3>3, <3>4, FlattenNone DEF Guards
  <2> QED BY <1>1, <2>1, <2>2
<1> QED BY <1>1, <1>2, <1>5, <1>6, <1>7, <1>9 DEF EscapeInv, EscapeTypeOK

\* A read more, filtered: what the filter makes of it is sent, and it is at rest
\* again.
LEMMA GuardsMore ==
  ASSUME handed \in Seq(Seq(Char)), Guards, NEW keys \in Seq(Char),
         handed' = Append(handed, keys), clipIn' = FilterInput(keys).clipIn,
         pushedKeys' = pushedKeys \o FilterInput(keys).keys
  PROVE  Guards'
<1>1. KeysTyped' = KeysTyped \o keys
  BY FlattenAppend DEF KeysTyped
<1>2. CASE clipIn = << >>
  <2>1. clipIn' = << >> /\ pushedKeys' = pushedKeys \o keys
    BY <1>2 DEF FilterInput
  <2> QED BY <1>1, <1>2, <2>1 DEF Guards
<1>3. CASE clipIn # << >>
  <2>1. PICK f : f = clipIn[1]
    OBVIOUS
  <2>2. /\ clipIn = <<f>> /\ f \in FilterType /\ Idle(f) /\ f.policy = "Off"
        /\ pushedKeys = FlattenSeq(Chunked("Off", handed))
    BY <1>3, <2>1 DEF Guards
  <2>3. PICK x : x = Chunk("Off", keys)
    OBVIOUS
  <2>4. x \in Seq(Char)
    BY <2>3, ChunkType
  <2>5. PICK cs : cs = Chunked("Off", handed)
    OBVIOUS
  <2>6. cs \in Seq(Seq(Char)) /\ Chunked("Off", Append(handed, keys)) = Append(cs, x)
    BY <2>3, <2>5, ChunkMore
  <2>7. FlattenSeq(Append(cs, x)) = FlattenSeq(cs) \o x
    BY <2>4, <2>6, FlattenAppend
  <2>8. Chunked("Off", handed)' = Append(cs, x)
    BY <2>6 DEF Chunked
  <2>9. FilterInput(keys).keys = x /\ \E g \in FilterType :
            FilterInput(keys).clipIn = <<g>> /\ Idle(g) /\ g.policy = "Off"
    <3>1. CASE keys = << >>
      <4>1. x = << >>
        <5>1. Len(keys) + 1 = 1
          BY <3>1
        <5>2. \A rest \in BOOLEAN : Expected("Off", keys, Len(keys) + 1, rest) = << >>
          BY ExpectedStep
        <5> QED BY <2>3, <5>1, <5>2 DEF Chunk
      <4>2. FilterInput(keys).keys = keys /\ FilterInput(keys).clipIn = clipIn
        BY <3>1 DEF FilterInput
      <4> QED BY <2>2, <3>1, <4>1, <4>2
    <3>2. CASE keys # << >>
      <4>1. PICK r : r = FilteredChunk(clipIn[1], keys)
        OBVIOUS
      <4>2. r = Flush(Scan(f, keys))
        BY <2>1, <4>1 DEF FilteredChunk
      <4>3. Flushed(r, "Off", x)
        BY <2>2, <2>3, <4>2, ChunkIs
      <4>4. r.dst = x /\ r.f \in FilterType /\ Idle(r.f) /\ r.f.policy = "Off"
        BY <4>3 DEF Flushed
      <4>5. FilterInput(keys).keys = r.dst /\ FilterInput(keys).clipIn = <<r.f>>
        BY <1>3, <3>2, <4>1 DEF FilterInput
      <4> QED BY <4>4, <4>5
    <3> QED BY <3>1, <3>2
  <2>10. PICK g \in FilterType : FilterInput(keys).clipIn = <<g>> /\ Idle(g) /\ g.policy = "Off"
    BY <2>9
  <2>11. clipIn' # << >> /\ clipIn'[1] = g /\ clipIn' = <<clipIn'[1]>>
    BY <2>10
  <2>12. pushedKeys' = FlattenSeq(Chunked("Off", handed)')
    BY <2>2, <2>5, <2>7, <2>8, <2>9
  <2>13. Chunked("Off", handed)' = Chunked("Off", handed')
    BY DEF Chunked
  <2> QED BY <2>10, <2>11, <2>12, <2>13 DEF Guards
<1> QED BY <1>2, <1>3

\* One chunk is translated from the state the chunk before it left.
LEMMA EscapeSelectInput ==
  ASSUME EscapeInv, SelectInput
  PROVE  EscapeInv'
<1> DEFINE b == Head(input)
           st == ProcessEscapes(b)
<1>1. input \in Seq(Seq(Char)) /\ input # << >> /\ input' = Tail(input) /\ disableEscape' = disableEscape
      /\ consumed' = consumed \o b
  BY DEF SelectInput, EscapeInv, EscapeTypeOK
<1>2. b \in Seq(Char) /\ input' \in Seq(Seq(Char))
  BY <1>1, HeadTailProperties
<1>3. consumed \in Seq(Char) /\ handed \in Seq(Seq(Char)) /\ escapePending \in BOOLEAN
      /\ disableEscape \in BOOLEAN /\ Guards
  BY DEF EscapeInv, EscapeTypeOK
<1>4. consumed' \in Seq(Char)
  BY <1>1, <1>2, <1>3, ConcatProperties
<1>7. ASSUME NEW keys \in Seq(Char), handed' = Append(handed, keys), clipIn' = FilterInput(keys).clipIn,
             pushedKeys' = pushedKeys \o FilterInput(keys).keys
      PROVE  /\ handed' \in Seq(Seq(Char)) /\ KeysTyped \in Seq(Char) /\ Guards'
             /\ KeysTyped' = KeysTyped \o keys
  BY <1>3, <1>7, GuardsMore, AppendProperties, FlattenAppend DEF KeysTyped
<1>5. CASE disableEscape
  <2>1. /\ handed' = Append(handed, b) /\ clipIn' = FilterInput(b).clipIn
        /\ pushedKeys' = pushedKeys \o FilterInput(b).keys /\ escapePending' = escapePending
    BY <1>5 DEF SelectInput
  <2> HIDE DEF b
  <2>2. handed' \in Seq(Seq(Char)) /\ KeysTyped' = KeysTyped \o b /\ Guards'
    BY <1>2, <1>7, <2>1
  <2>3. KeysTyped' = consumed'
    BY <1>1, <1>5, <2>2 DEF EscapeInv
  <2> QED BY <1>1, <1>2, <1>3, <1>4, <1>5, <2>1, <2>2, <2>3 DEF EscapeInv, EscapeTypeOK
<1>6. CASE ~disableEscape
  <2>1. /\ handed' = Append(handed, st.out) /\ clipIn' = FilterInput(st.out).clipIn
        /\ pushedKeys' = pushedKeys \o FilterInput(st.out).keys /\ escapePending' = st.pending
        /\ IF st.quit /\ ~shutdownInProgress THEN StartShutdown /\ shutdownFrom' = now
           ELSE UNCHANGED closingVars
    BY <1>6 DEF SelectInput
  <2>2. (shutdownInProgress \/ st.quit) => shutdownInProgress'
    BY <2>1 DEF StartShutdown, closingVars
  <2> HIDE DEF b
  <2>3. st \in EscapeState
    BY <1>2, <1>3, ProcessTranslates
  <2>4. st.out \in Seq(Char) /\ st.pending \in BOOLEAN /\ st.quit \in BOOLEAN
    BY <2>3 DEF EscapeState
  <2>10. /\ handed' \in Seq(Seq(Char)) /\ KeysTyped \in Seq(Char) /\ Guards'
         /\ KeysTyped' = KeysTyped \o st.out
    <3> HIDE DEF st
    <3> QED BY <1>7, <2>1, <2>4
  <2>5. EscapeTypeOK'
    BY <1>1, <1>2, <1>3, <1>4, <2>1, <2>4, <2>10 DEF EscapeTypeOK
  <2>6. Len(consumed) \in Nat /\ QuitAt(consumed) \in Nat /\ Len(consumed') \in Nat /\ QuitAt(consumed') \in Nat
    BY <1>3, <1>4, LenProperties, QuitFirst
  <2>7. Translated(KeysTyped, QuitSeen, escapePending, consumed) /\ (QuitSeen => shutdownInProgress)
    BY <1>6 DEF EscapeInv
  <2>8. CASE QuitSeen
    <3>1. QuitAt(consumed) <= Len(consumed) /\ Translated(KeysTyped, TRUE, TRUE, consumed)
      BY <2>7, <2>8 DEF QuitSeen, Translated
    <3>2. Translated(KeysTyped \o st.out, TRUE, st.pending, consumed \o b)
      BY <1>2, <1>3, <2>4, <2>10, <3>1, KeysBeforeQuit, TranslatedAfterQuit
    <3>3. QuitAt(consumed \o b) <= Len(consumed \o b)
      BY <1>2, <1>3, <3>1, QuitKept
    <3>4. QuitSeen' = TRUE
      BY <1>1, <3>3 DEF QuitSeen
    <3> QED BY <1>1, <1>6, <2>1, <2>2, <2>5, <2>10, <2>7, <2>8, <3>2, <3>4 DEF EscapeInv
  <2>9. CASE ~QuitSeen
    <3>1. Translated(KeysTyped, FALSE, escapePending, consumed)
      BY <2>7, <2>9 DEF Translated
    <3>2. Translated(KeysTyped \o st.out, st.quit, st.pending, consumed \o b)
      BY <1>2, <1>3, <2>10, <3>1, ProcessTranslates
    <3>3. QuitSeen' = st.quit
      <4>1. st.quit => QuitAt(consumed') <= Len(consumed')
        BY <1>1, <3>2 DEF Translated
      <4>2. ~st.quit => QuitAt(consumed') > Len(consumed')
        BY <1>1, <3>2 DEF Translated
      <4>3. st.quit <=> QuitAt(consumed') <= Len(consumed')
        BY <2>6, <4>1, <4>2
      <4> HIDE DEF st
      <4> QED BY <2>4, <4>3 DEF QuitSeen
    <3> QED BY <1>1, <1>6, <2>1, <2>2, <2>5, <2>10, <3>2, <3>3 DEF EscapeInv
  <2> QED BY <2>8, <2>9
<1> QED BY <1>5, <1>6

\* Nothing else reads the channel, and a shutdown is never taken back.
LEMMA EscapeElsewhere ==
  ASSUME EscapeInv, UNCHANGED keyVars, input' \in Seq(Seq(Char)),
         shutdownInProgress => shutdownInProgress'
  PROVE  EscapeInv'
BY DEF EscapeInv, EscapeTypeOK, QuitSeen, keyVars, KeysTyped, Guards, Chunked

\* Every step preserves the invariant.
LEMMA EscapeInvNext == EscapeInv /\ [SessionNext]_sessionVars => EscapeInv'
<1> SUFFICES ASSUME EscapeInv, [SessionNext]_sessionVars PROVE EscapeInv'
  OBVIOUS
<1>0. input \in Seq(Seq(Char))
  BY DEF EscapeInv, EscapeTypeOK
<1>1. CASE LoopTop
  <2>1. UNCHANGED keyVars /\ input' = input /\ (shutdownInProgress => shutdownInProgress')
    BY <1>1 DEF LoopTop
  <2> QED BY <1>0, <2>1, EscapeElsewhere
<1>2. CASE SelectCtx
  BY <1>0, <1>2, EscapeElsewhere DEF SelectCtx, StartShutdown
<1>3. CASE SelectInput
  BY <1>3, EscapeSelectInput
<1>4. CASE SelectDatagram
  BY <1>0, <1>4, EscapeElsewhere DEF SelectDatagram
<1>5. CASE SelectVersionMismatch
  BY <1>0, <1>5, EscapeElsewhere DEF SelectVersionMismatch, closingVars
<1>6. CASE SelectResized
  BY <1>0, <1>6, EscapeElsewhere DEF SelectResized, closingVars
<1>7. CASE SelectTimer
  BY <1>0, <1>7, EscapeElsewhere DEF SelectTimer, closingVars
<1>8. CASE PumpInput
  <2>1. UNCHANGED keyVars /\ shutdownInProgress' = shutdownInProgress
    BY <1>8 DEF PumpInput, closingVars
  <2>2. PICK b \in Chunks : input' = Append(input, b)
    BY <1>8 DEF PumpInput
  <2>3. input' \in Seq(Seq(Char))
    BY <1>0, <2>2, ChunksOfBytes, AppendProperties
  <2> QED BY <2>1, <2>3, EscapeElsewhere
<1>9. CASE WindowChange
  BY <1>0, <1>9, EscapeElsewhere DEF WindowChange, closingVars
<1>10. CASE Watcher
  BY <1>0, <1>10, EscapeElsewhere DEF Watcher, WatchResize, PollerStarts, Poll, WatcherStops, closingVars
<1>11. CASE Cancel
  BY <1>0, <1>11, EscapeElsewhere DEF Cancel, closingVars
<1>12. CASE UNCHANGED sessionVars
  BY <1>0, <1>12, EscapeElsewhere DEF sessionVars, closingVars
<1> QED
  BY <1>1, <1>2, <1>3, <1>4, <1>5, <1>6, <1>7, <1>8, <1>9, <1>10, <1>11, <1>12
  DEF SessionNext, Select

\* The keys are the translation of all of stdin up to the quit escape
\* (processEscapes), however the reads cut it: a Ctrl-^ at the end of one chunk
\* still governs the first byte of the next.  What each read comes to is sent
\* without its clipboard sequences unless the policy is Full, with escapes and
\* without (filterInput), and the filter holds nothing back for the next.
THEOREM EscapesAlwaysTranslated == SessionSpec => []EscapesTranslated
<1>1. SessionInit => EscapeInv
  BY EscapeInvInit
<1>2. EscapeInv /\ [SessionNext]_sessionVars => EscapeInv'
  BY EscapeInvNext
<1> QED BY <1>1, <1>2, EscapeInvSuffices, PTL DEF SessionSpec

=============================================================================
