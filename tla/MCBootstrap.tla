----------------------------- MODULE MCBootstrap -----------------------------
(* Three key types stand for x/crypto's six; the orders are the library's.   *)
EXTENDS Bootstrap, TLC

Algo(type, cert, weak) == [type |-> type, cert |-> cert, weak |-> weak]

rsaCert == Algo("rsa", TRUE, FALSE)
sshRsaCert == Algo("rsa", TRUE, TRUE)
ecdsaCert == Algo("ecdsa", TRUE, FALSE)
edCert == Algo("ed25519", TRUE, FALSE)
ecdsa == Algo("ecdsa", FALSE, FALSE)
rsa == Algo("rsa", FALSE, FALSE)
sshRsa == Algo("rsa", FALSE, TRUE)
ed == Algo("ed25519", FALSE, FALSE)

MCSupported == <<rsaCert, ecdsaCert, edCert, ecdsa, rsa, ed>>
MCInsecure == <<sshRsaCert, sshRsa>>
MCDefaults == <<rsaCert, sshRsaCert, ecdsaCert, edCert, ecdsa, rsa, sshRsa, ed>>

Key(type, id) == [type |-> type, id |-> id, ca |-> "none"]
Line(type, id, ca) == [type |-> type, id |-> id, ca |-> ca]

\* A host, the same after a reinstallation, one with a certificate for its first
\* key, an old one, one with only a weak certificate, and one with certificates
\* for all its keys.
MCServers ==
    { (ecdsa :> Key("ecdsa", "e1") @@ ed :> Key("ed25519", "d1")),
      (ecdsa :> Key("ecdsa", "e2") @@ ed :> Key("ed25519", "d2")),
      (ecdsaCert :> [type |-> "ecdsa", id |-> "e1", ca |-> "c"] @@ ed :> Key("ed25519", "d1")),
      (sshRsa :> Key("rsa", "r1") @@ ed :> Key("ed25519", "d2")),
      (sshRsaCert :> [type |-> "rsa", id |-> "r1", ca |-> "c"]),
      (ecdsaCert :> [type |-> "ecdsa", id |-> "e1", ca |-> "c"]
           @@ edCert :> [type |-> "ed25519", id |-> "d1", ca |-> "c"]) }

\* Nothing; one type; a stale line beside a good one; an authority.
MCFiles ==
    { {}, {Line("ed25519", "d1", FALSE)},
      {Line("ed25519", "d1", FALSE), Line("rsa", "r1", FALSE)},
      {Line("ed25519", "c", TRUE)} }

Interchangeable == Permutations(Gosh) \cup Permutations(Agents)

=============================================================================
