------------------------------ MODULE Bootstrap ------------------------------
(***************************************************************************)
(* From the command line to a running client: runSession and runClient in  *)
(* cmd/gosh/root.go, internal/bootstrap and internal/termenv.  Several     *)
(* gosh processes of one user do this at the same time and share one       *)
(* known_hosts file, which each reads twice and may append to.  Only the   *)
(* lines of one host are modelled.                                         *)
(*                                                                         *)
(* golang.org/x/crypto/ssh is external: what its verifier answers, how it  *)
(* negotiates an algorithm and how it goes through authentication methods  *)
(* is modelled from what the code and its tests rely on.                   *)
(***************************************************************************)
EXTENDS Integers, Sequences, FiniteSets, SequencesExt

CONSTANTS Gosh,      \* the processes
          Supported, \* ssh.SupportedAlgorithms().HostKeys, in order of preference
          Insecure,  \* ssh.InsecureAlgorithms().HostKeys
          Defaults,  \* the order x/crypto offers when given none
          Servers,   \* what may answer a dial: functions from algorithms to host keys
          Files,     \* what known_hosts may say about the host at the start
          Endings,   \* whether it ends in a newline then
          Agents     \* the agents that may be reachable, each with one key

(* An algorithm is [type, cert, weak], a host key [type, id, ca] with ca =     *)
(* "none" unless it is a certificate, a line [type, id, ca] where ca says that *)
(* it is a @cert-authority line.                                               *)
ASSUME BootstrapAssumption ==
    /\ ToSet(Defaults) = ToSet(Supported) \cup ToSet(Insecure)
    /\ \A s \in Servers : DOMAIN s \subseteq ToSet(Defaults)
    /\ Endings \subseteq BOOLEAN
    /\ "identity" \notin Agents

Algorithm == [type : STRING, cert : BOOLEAN, weak : BOOLEAN]

\* The library's orders: the weak algorithms are the insecure ones, certificates
\* come first, and the supported ones are ranked alike in both lists.
ASSUME OrderAssumption ==
    /\ Supported \in Seq(Algorithm) /\ Insecure \in Seq(Algorithm) /\ Defaults \in Seq(Algorithm)
    /\ \A a \in ToSet(Defaults) : a \in ToSet(Insecure) <=> a.weak
    /\ \A k, l \in 1..Len(Defaults) : k < l /\ Defaults[l].cert => Defaults[k].cert
    /\ \A i, j \in 1..Len(Supported), k, l \in 1..Len(Defaults) :
           k < l /\ Supported[i] = Defaults[k] /\ Supported[j] = Defaults[l] => i < j

\* The keys there are, with their types.
KeyTypes == {<<l.id, l.type>> : l \in UNION Files}
            \cup UNION {{<<s[a].id, s[a].type>> : a \in DOMAIN s} : s \in Servers}

\* A server's key under an algorithm is of its type, and a certificate if that is
\* one; a key, wherever it occurs, is of one type.
ASSUME KeyAssumption ==
    /\ \A s \in Servers : \A a \in DOMAIN s : s[a].type = a.type /\ (s[a].ca # "none" <=> a.cert)
    /\ \A x, y \in KeyTypes : x[1] = y[1] => x[2] = y[2]

VARIABLES file,      \* known_hosts: [exists, sound (it parses), lines, newline (it ends in one)]
          proc,      \* the processes
          announced, \* ghost: host keys reported as permanently added
          mishaps    \* ghost: was the file absent at the start, the lines truncated
                     \* so far, those swallowed by an unfinished line

vars == <<file, proc, announced, mishaps>>

Policies == {"strict", "accept-new", "insecure"}
passwordTries == 3

\* What a process keeps: its policy, the two readings of known_hosts, the host
\* key it was given, its authentication methods, the prompts left, changes to
\* its terminal, and for the properties what had been announced and not lost when
\* it first read the file, the keys it has at hand and those the server takes.
Blank ==
    [pc |-> "stat", policy |-> "none", known |-> {}, before |-> {}, seen |-> {},
     server |-> << >>, key |-> << >>, left |-> << >>, conns |-> {}, tries |-> 0,
     tty |-> {}, hand |-> {}, takes |-> {}]

Init ==
    /\ file \in [exists : {TRUE}, sound : {TRUE}, lines : Files, newline : Endings]
                \cup {[exists |-> FALSE, sound |-> TRUE, lines |-> {}, newline |-> TRUE]}
    /\ proc \in [Gosh -> {[Blank EXCEPT !.policy = p] : p \in Policies}]
    /\ announced = {}
    /\ mishaps = [absent |-> ~file.exists, truncated |-> {}, swallowed |-> {}]

\* The keys that a mishap took, or may have taken, off the file.
Lost == mishaps.truncated \cup mishaps.swallowed

Over == {"failed", "refused", "denied", "killed", "done"}

\* Process g goes on as p.
Go(g, p) == proc' = [proc EXCEPT ![g] = p]

\* Process g ends; its memory is gone, its terminal is not.
Exit(g, pc) == Go(g, [Blank EXCEPT !.pc = pc, !.tty = proc[g].tty])

Fail(g) == Exit(g, "failed") /\ UNCHANGED <<file, announced, mishaps>>

-----------------------------------------------------------------------------
(* Host keys: HostKeyCallback *)

\* os.Stat; "insecure" looks at nothing.
Stat(g) ==
    LET p == proc[g] IN
    /\ p.pc = "stat"
    /\ IF p.policy = "strict" /\ ~file.exists THEN Fail(g)
       ELSE /\ Go(g, [p EXCEPT !.pc = CASE p.policy = "insecure" -> "auth methods"
                                        [] file.exists          -> "read"
                                        [] OTHER                -> "create"])
            /\ UNCHANGED <<file, announced, mishaps>>

\* os.WriteFile(path, nil) truncates whatever is there by now.
CreateFile(g) ==
    LET p == proc[g] IN
    /\ p.pc = "create"
    /\ \/ Fail(g)
       \/ /\ file' = [exists |-> TRUE, sound |-> TRUE, lines |-> {}, newline |-> TRUE]
          /\ mishaps' = [mishaps EXCEPT !.truncated = @ \cup file.lines]
          /\ Go(g, [p EXCEPT !.pc = "read"])
          /\ UNCHANGED announced

\* knownhosts.New: a file with one bad line is refused as a whole.
ReadKnownHosts(g) ==
    LET p == proc[g] IN
    /\ p.pc = "read"
    /\ \/ Fail(g)
       \/ /\ file.sound
          /\ Go(g, [p EXCEPT !.pc = "auth methods", !.known = file.lines,
                             !.before = announced \ Lost])
          /\ UNCHANGED <<file, announced, mishaps>>

\* knownhosts: a certificate needs its authority, a plain key a line of its
\* own; an error for a plain key carries all lines of the host.
Verify(lines, key) ==
    CASE key.ca # "none" -> IF \E l \in lines : l.ca /\ l.id = key.ca THEN "ok" ELSE "no authority"
      [] \E l \in lines : ~l.ca /\ l.id = key.id -> "ok"
      [] lines = {} -> "unknown"
      [] OTHER -> "mismatch"

\* Slip: a key of a type not on record counts as new.
UnknownByType(lines, key) ==
    \/ Verify(lines, key) = "unknown"
    \/ Verify(lines, key) = "mismatch" /\ key.type \notin {l.type : l \in lines}

\* acceptNew: only an error that carries no line at all.
IsUnknown(lines, key) == Verify(lines, key) = "unknown"

\* Slip: the file is written anew with what was read at the start.
OverwriteLine(g, l) == file' = [file EXCEPT !.lines = proc[g].known \cup {l}]

\* The line as it is on file after a whole append.  After a last line without a
\* newline it becomes part of that line: of its comment, or of its key.
AppendLine(g, l) ==
    \/ /\ file.newline
       /\ file' = [file EXCEPT !.lines = @ \cup {l}]
    \/ /\ ~file.newline
       /\ \E sound \in BOOLEAN : file' = [file EXCEPT !.sound = sound, !.newline = TRUE]

\* The handshake is done; what it needed is dropped.
Authenticate(g) == Go(g, [Blank EXCEPT !.pc = "auth", !.left = proc[g].left])

\* acceptNew's append of key to the file.  A failed write may leave a part of
\* the line, which does not parse unless it continues an unfinished one, or all
\* of it but the newline.
AppendKey(g) ==
    LET p == proc[g]
        k == p.key[1]
        l == [type |-> k.type, id |-> k.id, ca |-> FALSE]
    IN  \/ Fail(g)
        \/ /\ \/ \E sound \in BOOLEAN :
                    /\ file.newline => ~sound
                    /\ file' = [file EXCEPT !.sound = sound, !.newline = FALSE]
              \/ file.newline /\ file' = [file EXCEPT !.lines = @ \cup {l}, !.newline = FALSE]
           /\ Exit(g, "failed")
           /\ UNCHANGED <<announced, mishaps>>
        \/ /\ AppendLine(g, l)
           /\ mishaps' = [mishaps EXCEPT !.swallowed = @ \cup (IF file.newline THEN {} ELSE {l})]
           /\ announced' = announced \cup {l}
           /\ Authenticate(g)

\* The callback ssh.Dial calls, with the reading made by HostKeyCallback.
VerifyHostKey(g) ==
    LET p == proc[g] IN
    /\ p.pc = "verify"
    /\ CASE p.key = << >> -> Fail(g)  \* no common algorithm
         [] p.key # << >> /\ (p.policy = "insecure" \/ Verify(p.known, p.key[1]) = "ok") ->
                Authenticate(g) /\ UNCHANGED <<file, announced, mishaps>>
         [] p.key # << >> /\ p.policy = "accept-new" /\ IsUnknown(p.known, p.key[1]) ->
                AppendKey(g)
         [] OTHER -> Exit(g, "refused") /\ UNCHANGED <<file, announced, mishaps>>

-----------------------------------------------------------------------------
(* Host key algorithms: knownHostKeyAlgorithms *)

\* The types on record, read off the error for a key that cannot match.
RecordedHostKeyTypes(lines) == {l.type : l \in lines}

\* Every algorithm that yields a key of a recorded type.
HostKeyAlgorithmsFor(types) == {a \in ToSet(Defaults) : a.type \in types}

\* The algorithms of the list that are in the set.
Only(algos, set) ==
    FlattenSeq([i \in 1..Len(algos) |-> IF algos[i] \in set THEN <<algos[i]>> ELSE << >>])

\* The weak algorithms only where this host is recorded under one.
CandidateHostKeyAlgorithms(preferred) == Supported \o Only(Insecure, preferred)

\* Slip: what is recorded comes first, certificate or not.
RankedRecordedFirst(algos, preferred) ==
    Only(algos, preferred) \o Only(algos, ToSet(algos) \ preferred)

\* Certificates before plain keys; within each half, what is recorded first.
Ranked(algos, preferred) ==
    LET cert  == {a \in ToSet(algos) : a.cert}
        plain == {a \in ToSet(algos) : ~a.cert}
    IN  Only(algos, cert \cap preferred) \o Only(algos, cert \ preferred)
            \o Only(algos, plain \cap preferred) \o Only(algos, plain \ preferred)

\* With nothing on record the library's defaults are left alone.
KnownHostKeyAlgorithms(lines) ==
    LET preferred == HostKeyAlgorithmsFor(RecordedHostKeyTypes(lines))
    IN  IF preferred = {} THEN Defaults
        ELSE Ranked(CandidateHostKeyAlgorithms(preferred), preferred)

\* The first algorithm of the client's order that the server has a key for.
Negotiated(order, server) == Only(order, DOMAIN server)

\* The key exchange's host key, or << >>.
HostKey(order, server) ==
    LET common == Negotiated(order, server)
    IN  IF common = << >> THEN << >> ELSE <<server[common[1]]>>

\* Run up to the host key callback: known_hosts is read again, for the
\* preference only.
Dial(g) ==
    LET p == proc[g]
        lines == IF p.policy = "insecure" \/ ~file.sound THEN {} ELSE file.lines
    IN  /\ p.pc = "dial"
        /\ \/ Fail(g)
           \/ \E s \in Servers :
                 /\ Go(g, [p EXCEPT !.pc = "verify", !.seen = lines, !.server = s,
                                    !.key = HostKey(KnownHostKeyAlgorithms(lines), s)])
                 /\ UNCHANGED <<file, announced, mishaps>>

-----------------------------------------------------------------------------
(* Authentication: authMethods, agentSigners *)

\* The chain, given whether there is an identity, whether some agent answered
\* the dial and whether there is a terminal to prompt at.
AuthChain(identity, agents, tty) ==
    (IF identity THEN <<"identity">> ELSE << >>)
    \o (IF agents THEN <<"agents">> ELSE << >>)
    \o (IF tty THEN <<"password">> ELSE << >>)

\* authMethods with a key file that needs no passphrase, or none.
AuthMethods(g) ==
    LET p == proc[g] IN
    /\ p.pc = "auth methods"
    /\ \/ Fail(g)  \* the key file cannot be read or parsed
       \/ \E identity, agents, tty \in BOOLEAN :
              LET chain == AuthChain(identity, agents, tty) IN
              IF chain = << >> THEN Fail(g)
              ELSE /\ Go(g, [p EXCEPT !.pc = "dial", !.left = chain])
                   /\ UNCHANGED <<file, announced, mishaps>>

\* An encrypted key file and a terminal: term.ReadPassword turns off the echo.
AskPassphrase(g) ==
    /\ proc[g].pc = "auth methods"
    /\ Go(g, [proc[g] EXCEPT !.pc = "passphrase", !.tty = {"no echo"}])
    /\ UNCHANGED <<file, announced, mishaps>>

\* The echo is back whatever was typed; a wrong passphrase ends the session.
PassphraseTyped(g) ==
    LET p == [proc[g] EXCEPT !.tty = {}] IN
    /\ proc[g].pc = "passphrase"
    /\ \/ Go(g, [Blank EXCEPT !.pc = "failed"])
       \/ \E agents \in BOOLEAN :
             Go(g, [p EXCEPT !.pc = "dial", !.left = AuthChain(TRUE, agents, TRUE)])
    /\ UNCHANGED <<file, announced, mishaps>>

\* The library's opening request.  Of the agents that answered the dial (conns),
\* some may be dead by now; takes are the keys at hand that the server accepts.
NoneAuth(g) ==
    LET p == proc[g] IN
    /\ p.pc = "auth"
    /\ \E conns \in IF "agents" \in ToSet(p.left) THEN SUBSET Agents \ {{}} ELSE {{}},
          live \in SUBSET Agents :
          LET hand == (live \cap conns) \cup ({"identity"} \cap ToSet(p.left)) IN
          \E takes \in SUBSET hand :
             Go(g, [p EXCEPT !.pc = "offer", !.conns = conns, !.hand = hand, !.takes = takes])
    /\ UNCHANGED <<file, announced, mishaps>>

\* Slip: an agent that does not answer fails them all.
AllOrNothing(p) == IF p.conns \subseteq p.hand THEN p.conns ELSE {}

\* agentSigners: an agent that does not answer is passed over.
Signers(p) == p.conns \cap p.hand

\* RFC 4252 names, by which the library keeps track of what it has tried.
Method(m) == IF m = "password" THEN "password" ELSE "publickey"

\* After a failure the library goes on to the next entry of another method name.
NextMethods(left) == SelectSeq(left, LAMBDA m : Method(m) # Method(Head(left)))

\* No method is left.
Deny(g) == Go(g, [Blank EXCEPT !.pc = "denied", !.hand = proc[g].hand,
                                               !.takes = proc[g].takes])

\* The identity or the agents' keys are offered.
OfferKeys(g) ==
    LET p == proc[g]
        keys == IF Head(p.left) = "agents" THEN Signers(p) ELSE {"identity"}
        left == NextMethods(p.left)
    IN  /\ p.pc = "offer" /\ Method(Head(p.left)) = "publickey"
        /\ CASE keys \cap p.takes # {} -> Go(g, [Blank EXCEPT !.pc = "exec"])
             [] keys \cap p.takes = {} /\ left # << >> -> Go(g, [p EXCEPT !.left = left])
             [] OTHER -> Deny(g)
        /\ UNCHANGED <<file, announced, mishaps>>

\* A password prompt, up to three times.
AskPassword(g) ==
    /\ proc[g].pc = "offer" /\ Head(proc[g].left) = "password"
    /\ Go(g, [proc[g] EXCEPT !.pc = "password", !.tty = {"no echo"}, !.tries = @ + 1])
    /\ UNCHANGED <<file, announced, mishaps>>

PasswordTyped(g) ==
    /\ proc[g].pc = "password"
    /\ \/ Go(g, [Blank EXCEPT !.pc = "exec"])
       \/ /\ proc[g].tries < passwordTries
          /\ Go(g, [proc[g] EXCEPT !.pc = "offer", !.tty = {}])
       \/ Deny(g)  \* the last attempt, or nothing could be read
    /\ UNCHANGED <<file, announced, mishaps>>

-----------------------------------------------------------------------------
(* The session *)

\* The rest of Run: mosh-server may not start, or its answer be unusable.
ExecServer(g) ==
    /\ proc[g].pc = "exec"
    /\ \/ Fail(g)
       \/ /\ Go(g, [proc[g] EXCEPT !.pc = "client"])
          /\ UNCHANGED <<file, announced, mishaps>>

\* gosh connect goes straight to runClient, with the key in its environment.
Connect(g) ==
    /\ proc[g].pc = "stat"
    /\ \/ Fail(g)
       \/ /\ Go(g, [Blank EXCEPT !.pc = "client"])
          /\ UNCHANGED <<file, announced, mishaps>>

\* Slip: the console's output mode stays when raw mode fails.
LeaveVT(g) == proc[g].tty \cup {"vt"}

\* MakeRaw undoes enableVT when it cannot go on.
UndoVT(g) == proc[g].tty

\* runClient: the console's output mode (Windows) and raw mode, in this order.
\* From here on a signal only cancels the session's context.
MakeRaw(g) ==
    LET p == proc[g] IN
    /\ p.pc = "client"
    /\ \/ Go(g, [p EXCEPT !.pc = "failed"])                       \* enableVT fails
       \/ Go(g, [p EXCEPT !.pc = "failed", !.tty = UndoVT(g)])    \* raw mode fails
       \/ Go(g, [p EXCEPT !.pc = "running", !.tty = @ \cup {"vt", "raw"}])
       \/ Go(g, [p EXCEPT !.pc = "running"])                      \* not interactive
    /\ UNCHANGED <<file, announced, mishaps>>

\* Slip: an error of client.New is returned as it is.
RestoreIfRun(g, ran) == IF ran THEN {} ELSE proc[g].tty

\* Restore, called after Run and deferred for the return before it.
Restore(g, ran) == {}

\* client.New fails, or Run returns.
EndClient(g) ==
    /\ proc[g].pc = "running"
    /\ \E ran \in BOOLEAN : Go(g, [proc[g] EXCEPT !.pc = "done", !.tty = Restore(g, ran)])
    /\ UNCHANGED <<file, announced, mishaps>>

\* A signal before runClient kills the process where it stands, a password
\* prompt included.
Kill(g) ==
    /\ proc[g].pc \notin Over \cup {"running"}
    /\ Exit(g, "killed")
    /\ UNCHANGED <<file, announced, mishaps>>

Step(g) ==
    \/ Stat(g) \/ CreateFile(g) \/ ReadKnownHosts(g)
    \/ AuthMethods(g) \/ AskPassphrase(g) \/ PassphraseTyped(g)
    \/ Dial(g) \/ VerifyHostKey(g)
    \/ NoneAuth(g) \/ OfferKeys(g) \/ AskPassword(g) \/ PasswordTyped(g)
    \/ ExecServer(g) \/ Connect(g) \/ MakeRaw(g) \/ EndClient(g) \/ Kill(g)

Next == \E g \in Gosh : Step(g)

Spec == Init /\ [][Next]_vars

-----------------------------------------------------------------------------
(* Properties *)

\* A host key is refused only for a reason (hostkey.go knownHostKeyAlgorithms).
\* With the same reading for both uses, a key the default order would have
\* verified under an algorithm that is not weak is verified, unless the server
\* has certificates of several authorities; and a server without certificates is
\* asked for a recorded type whenever it has one, so a mismatch means that a key
\* of a recorded type did change.
NoFalseAlarm ==
    \A g \in Gosh :
        LET p == proc[g]
            default == Negotiated(Defaults, p.server)
            ok == p.key # << >> /\ Verify(p.known, p.key[1]) = "ok"
            recorded == {a \in DOMAIN p.server : a.type \in RecordedHostKeyTypes(p.known)}
            oneAuthority == \A a, b \in DOMAIN p.server :
                                a.cert /\ b.cert => p.server[a].ca = p.server[b].ca
        IN  p.pc = "verify" /\ p.policy # "insecure" /\ p.seen = p.known =>
            /\ /\ default # << >> /\ ~default[1].weak /\ oneAuthority
               /\ Verify(p.known, p.server[default[1]]) = "ok"
               => ok
            /\ (\A a \in DOMAIN p.server : ~a.cert) /\ recorded # {}
               => p.key # << >> /\ p.key[1].type \in {a.type : a \in recorded}

\* What was "permanently added" (acceptNew) stays a line of the file however
\* processes interleave and whichever writes fail, cut short or not.  Two mishaps
\* lose a key: a process that saw no file truncates it later, which cannot happen
\* to a file there from the start; and a line appended to an unfinished one, with
\* no newline at the start or after an append cut short, becomes part of that.
\* A file with a line cut short keeps its keys, but is refused as a whole.
AddedForGood ==
    /\ announced \ Lost \subseteq file.lines
    /\ ~mishaps.absent => mishaps.truncated = {}

\* A changed key is always fatal (hostkey.go:27): a process that read the file
\* after another one had announced a key of this host never adds a second one,
\* whatever the server presents and whatever happens to the file in between,
\* unless the key was lost before the reading.
NoSecondFirstUse ==
    [][\A g \in Gosh : announced' # announced /\ proc'[g] # proc[g] => proc[g].before = {}]_vars

\* Authentication is denied only if no agent that still answers has a key the
\* server takes: one dead agent does not blank the others (agentSigners).  With
\* an identity file the agents are not asked at all, see TriedInOrder.
AgentsFallThrough ==
    \A g \in Gosh : proc[g].pc = "denied" /\ "identity" \notin proc[g].hand
                    => proc[g].takes = {}

\* "SSH authentication tries, in order: an explicit -i identity file, every
\* reachable ssh-agent, and an interactive password prompt" (README.md:38).
TriedInOrder ==
    \A g \in Gosh : proc[g].pc = "denied" => proc[g].takes = {}

\* Whichever step fails, gosh leaves the terminal as it found it (runClient,
\* MakeRaw); only a signal at a prompt leaves it without echo.
TerminalRestored ==
    \A g \in Gosh : proc[g].pc \in Over =>
        proc[g].tty \subseteq (IF proc[g].pc = "killed" THEN {"no echo"} ELSE {})

=============================================================================
