---------------------------- MODULE CertAuthority ----------------------------
(***************************************************************************)
(* The file-backed certificate authority (`pipeshellx ca init|issue|sign|  *)
(* revoke`), the node's enrolment (`node keygen`) and the node that is     *)
(* started from the resulting files.                                       *)
(*                                                                         *)
(* A command reads files, computes, and then makes its writes one by one.  *)
(* A secret file is replaced atomically; every other file is truncated and *)
(* rewritten in place, so that a crash or a full disk can leave a cut one. *)
(* Between two writes the command may stop.  Commands do not overlap: the  *)
(* directory has no lock, and its operator runs one at a time.             *)
(*                                                                         *)
(* A key is a number; a CA certificate is the number of its key; a leaf    *)
(* certificate is [serial, san, key, signer, anchor], anchor being the CA  *)
(* certificate whose name it carries and signer the key that signed it.    *)
(***************************************************************************)
EXTENDS Naturals, Sequences, FiniteSets, SequencesExt

CONSTANTS
    Sans,        \* the identities an operator asks for
    MaxKeys,     \* bound: key pairs generated in a behaviour
    MaxCerts,    \* bound: leaf certificates in a behaviour
    MaxRevokes   \* bound: `ca revoke` commands in a behaviour

ASSUME CaAssumption == MaxKeys \in Nat /\ MaxCerts \in Nat /\ MaxRevokes \in Nat

VARIABLES
    disk,     \* disk[f]: the content of file f, [st, v]
    cmd,      \* the command under way: [op, writes, serial], or Idle
    issued,   \* the leaf certificates in the order of their serials
    node,     \* the running node: the texts it read at start, and what was revoked then
    history   \* [keys, revokes, revoked, listCut]

vars == <<disk, cmd, issued, node, history>>

Files == {"ca.key", "ca.crt", "revoked.txt", "crl.pem", "n.key", "n.csr", "n.crt"}
Missing == [st |-> "missing", v |-> 0]
Whole(content) == [st |-> "whole", v |-> content]
IsWhole(f) == disk[f].st = "whole"

Idle == [op |-> "none", writes |-> <<>>, serial |-> 0]
Write(f, content) == [file |-> f, content |-> content]
NotRunning == [running |-> FALSE]

Init ==
    /\ disk = [f \in Files |-> Missing]
    /\ cmd = Idle
    /\ issued = <<>>
    /\ node = NotRunning
    /\ history = [keys |-> 0, revokes |-> 0, revoked |-> {}, listCut |-> FALSE]

-----------------------------------------------------------------------------
(* CertificateAuthority                                                    *)

\* mutant: the key and the certificate are loaded but not compared
loadUnchecked == IsWhole("ca.key") /\ IsWhole("ca.crt")

\* load() of ca.key and ca.crt succeeds: both parse and belong together.
load ==
    /\ IsWhole("ca.key") /\ IsWhole("ca.crt")
    /\ disk["ca.crt"].v = disk["ca.key"].v

\* A serial no certificate has: 127 random bits.
setSerialRandom == Len(issued) + 1

\* A leaf for the public key, with the identity the operator named and a fresh
\* serial, signed with the CA's key and naming the CA's certificate as issuer.
buildAndSignLeaf(san, key) ==
    [serial |-> setSerialRandom, san |-> san, key |-> key,
     signer |-> disk["ca.key"].v, anchor |-> disk["ca.crt"].v]

\* issueCrl(): signed by the CA, listing every serial given.
issueCrl(serials) == [signer |-> disk["ca.key"].v, serials |-> ToSet(serials)]

\* generateCsr(): the public key and a proof that the private one is held; the
\* identity in it is ignored by `ca sign`.
generateCsr(san, key) == [key |-> key, san |-> san]

\* signCsr(): the request's key, the operator's identity.
signCsr(csr, san) == buildAndSignLeaf(san, csr.key)

\* The serial of a certificate in a file, as a set: empty when it does not parse.
serialHex(f) == IF IsWhole(f) THEN {disk[f].v.serial} ELSE {}

-----------------------------------------------------------------------------
(* The commands up to their first write                                    *)

MayStart == cmd = Idle
FreshKey == history.keys + 1
UseKey == history.keys < MaxKeys /\ history' = [history EXCEPT !.keys = @ + 1]

\* The key first, then the certificate; an existing CA is overwritten.
caInit ==
    /\ MayStart /\ UseKey
    /\ cmd' = [Idle EXCEPT !.op = "init",
                           !.writes = <<Write("ca.key", FreshKey), Write("ca.crt", FreshKey)>>]
    /\ UNCHANGED <<disk, issued, node>>

caIssue ==
    /\ MayStart /\ UseKey /\ load /\ Len(issued) < MaxCerts
    /\ \E san \in Sans :
          LET leaf == buildAndSignLeaf(san, FreshKey)
          IN  /\ issued' = Append(issued, leaf)
              /\ cmd' = [Idle EXCEPT !.op = "issue",
                                     !.writes = <<Write("n.key", FreshKey), Write("n.crt", leaf)>>]
    /\ UNCHANGED <<disk, node>>

nodeKeygen ==
    /\ MayStart /\ UseKey
    /\ \E san \in Sans :
          cmd' = [Idle EXCEPT !.op = "keygen",
                              !.writes = <<Write("n.key", FreshKey), Write("n.csr", generateCsr(san, FreshKey))>>]
    /\ UNCHANGED <<disk, issued, node>>

caSign ==
    /\ MayStart /\ load /\ IsWhole("n.csr") /\ Len(issued) < MaxCerts
    /\ \E san \in Sans :
          LET leaf == signCsr(disk["n.csr"].v, san)
          IN  /\ issued' = Append(issued, leaf)
              /\ cmd' = [Idle EXCEPT !.op = "sign", !.writes = <<Write("n.crt", leaf)>>]
    /\ UNCHANGED <<disk, node, history>>

\* An operator may spell a serial with leading zeros or in lower case.
Spellings == {"canonical", "padded", "lower", "not hexadecimal"}
Spelled(serial, spelling) == [serial |-> serial, spelling |-> spelling]
canonicalSerialHex(text) == [ok |-> text.spelling # "not hexadecimal", serial |-> text.serial]

\* revoked.txt as read back: one canonical serial per line, without repetition.
ReadList == IF IsWhole("revoked.txt") THEN disk["revoked.txt"].v ELSE <<>>

\* mutant: the list is rebuilt from this revocation alone
revokedSerialsOnlyNew(serial) == <<serial>>

revokedSerials(serial) ==
    IF serial \in ToSet(ReadList) THEN ReadList ELSE Append(ReadList, serial)

writesOfRevoke(serials) ==
    <<Write("revoked.txt", serials), Write("crl.pem", issueCrl(serials))>>

\* The serials an operator can name: those --serial spells in hexadecimal, and
\* that of the certificate in --cert.
Named ==
    {text.serial : text \in {t \in {canonicalSerialHex(Spelled(issued[i].serial, spelling)) :
                                        i \in DOMAIN issued, spelling \in Spellings} : t.ok}}
    \cup serialHex("n.crt")

\* The list is read, the CRL computed from all of it, and then the list and the
\* CRL are written.
caRevoke ==
    /\ MayStart /\ load /\ history.revokes < MaxRevokes
    /\ \E serial \in Named :
          cmd' = [op |-> "revoke", serial |-> serial, writes |-> writesOfRevoke(revokedSerials(serial))]
    /\ history' = [history EXCEPT !.revokes = @ + 1]
    /\ UNCHANGED <<disk, issued, node>>

-----------------------------------------------------------------------------
(* The writes                                                              *)

Secret(f) == f \in {"ca.key", "n.key"}

\* What the last write completes: a revocation is reported as done.
Acknowledge(c) ==
    IF c.op = "revoke" THEN [history EXCEPT !.revoked = @ \cup {c.serial}] ELSE history

writeFile ==
    /\ cmd.writes # <<>>
    /\ disk' = [disk EXCEPT ![cmd.writes[1].file] = Whole(cmd.writes[1].content)]
    /\ cmd' = IF Len(cmd.writes) = 1 THEN Idle ELSE [cmd EXCEPT !.writes = Tail(@)]
    /\ history' = IF Len(cmd.writes) = 1 THEN Acknowledge(cmd) ELSE history
    /\ UNCHANGED <<issued, node>>

\* What a truncating write that does not finish can leave.  A cut list is still
\* a list: some first lines, and perhaps the first digits of the next, which
\* are the number of some other certificate (0).  Cut PEM text does not parse;
\* a file of no bytes is told apart because readers test for it.
CutList(list) ==
    {SubSeq(list, 1, n) : n \in 0 .. (Len(list) - 1)}
    \cup {Append(SubSeq(list, 1, n), 0) : n \in 0 .. (Len(list) - 1)}
Cut(w) ==
    IF w.file = "revoked.txt" THEN {Whole(list) : list \in CutList(w.content)}
    ELSE {[st |-> "cut", v |-> 0], [st |-> "empty", v |-> 0]}

\* A crash inside a truncating write, or its failure: the command ends.
writeIsCut ==
    /\ cmd.writes # <<>> /\ ~Secret(cmd.writes[1].file)
    /\ \E content \in Cut(cmd.writes[1]) : disk' = [disk EXCEPT ![cmd.writes[1].file] = content]
    /\ history' = [history EXCEPT !.listCut = @ \/ cmd.writes[1].file = "revoked.txt"]
    /\ cmd' = Idle
    /\ UNCHANGED <<issued, node>>

\* A crash between two writes, a write that cannot even open its file, or a
\* secret whose replacement fails: the file keeps its old content.
atomicWriteFails ==
    /\ cmd.writes # <<>>
    /\ cmd' = Idle
    /\ UNCHANGED <<disk, issued, node, history>>

-----------------------------------------------------------------------------
(* The node                                                                *)

\* readFile(): any bytes will do; only a file that cannot be opened is refused.
readFile(f) == IF disk[f].st = "missing" THEN {} ELSE {disk[f]}

\* `pipeshellx node --cert --key --ca [--crl]`: the files are read once, and their
\* contents are only looked at by TLS.
nodeStart ==
    /\ ~node.running
    /\ \E cert \in readFile("n.crt"), key \in readFile("n.key"), ca \in readFile("ca.crt") :
        \E withCrl \in BOOLEAN :
            /\ withCrl => readFile("crl.pem") # {}
            /\ node' = [running |-> TRUE, withCrl |-> withCrl, cert |-> cert, key |-> key, ca |-> ca,
                        crl |-> IF withCrl THEN disk["crl.pem"] ELSE Missing,
                        revokedBefore |-> history.revoked, listCut |-> history.listCut]
    /\ UNCHANGED <<disk, cmd, issued, history>>

nodeStop ==
    /\ node.running
    /\ node' = NotRunning
    /\ UNCHANGED <<disk, cmd, issued, history>>

\* A CRL text of no bytes counts as none given.
ChecksCrl(n) == n.withCrl /\ n.crl.st # "empty"

useCertificatePem(n) == n.cert.st = "whole"
usePrivateKeyPem(n) == n.key.st = "whole" /\ n.cert.v.key = n.key.v   \* and is the certificate's
trustCaPem(n) == n.ca.st = "whole"
useCrlPem(n) == n.crl.st = "whole"

\* Tls::create(), when a connection is accepted.
TlsCreated(n) ==
    useCertificatePem(n) /\ usePrivateKeyPem(n) /\ trustCaPem(n) /\ (ChecksCrl(n) => useCrlPem(n))

\* The handshake verifies a peer's certificate (by OpenSSL).
Admits(n, leaf) ==
    /\ TlsCreated(n)
    /\ leaf.signer = n.ca.v /\ leaf.anchor = n.ca.v
    /\ ChecksCrl(n) => n.crl.v.signer = n.ca.v /\ leaf.serial \notin n.crl.v.serials

Next ==
    \/ caInit \/ caIssue \/ nodeKeygen \/ caSign \/ caRevoke
    \/ writeFile \/ writeIsCut \/ atomicWriteFails
    \/ nodeStart \/ nodeStop

Spec == Init /\ [][Next]_vars

-----------------------------------------------------------------------------
(* Properties                                                              *)

(***************************************************************************)
(* A revocation that `ca revoke` reported stays in force: a node started   *)
(* with --crl after it, from the files of the CA directory, refuses the    *)
(* certificate, whatever commands ran, failed or crashed in between.  Two  *)
(* cuts are excepted, for the code does not recover from them: a cut       *)
(* revoked.txt, from which the next CRL is computed, and a crl.pem of no   *)
(* bytes, which the node takes for no CRL (ca_command.cpp caRevoke,        *)
(* node_command.cpp nodeSubcommand, tls.cpp create).                       *)
(***************************************************************************)
RevokedStaysRefused ==
    (node.running /\ node.withCrl /\ node.crl.st # "empty" /\ ~node.listCut) =>
        \A i \in DOMAIN issued :
            issued[i].serial \in node.revokedBefore => ~Admits(node, issued[i])

(***************************************************************************)
(* The CA directory never signs across two authorities: every leaf is      *)
(* signed by the key of the CA certificate it names, also after an `init`  *)
(* over an existing CA stopped between ca.key and ca.crt, and once written *)
(* whole the node's certificate is one the CA really issued                *)
(* (certificate_authority.cpp load, ca_command.cpp caInit/caIssue/caSign). *)
(***************************************************************************)
OneAuthority ==
    /\ \A i \in DOMAIN issued : issued[i].signer = issued[i].anchor
    /\ IsWhole("n.crt") => disk["n.crt"].v \in ToSet(issued)

(***************************************************************************)
(* The CRL never claims more than the list it was made from and, with no   *)
(* cut, never less: what is in crl.pem is in revoked.txt, and every        *)
(* reported revocation is in revoked.txt (ca_command.cpp caRevoke: the     *)
(* list is written before the CRL).                                        *)
(***************************************************************************)
ListCoversCrl ==
    ~history.listCut =>
        /\ history.revoked \subseteq ToSet(ReadList)
        /\ IsWhole("crl.pem") => disk["crl.pem"].v.serials \subseteq ToSet(ReadList)

\* Revocation survives failures and crashes, in the node that loads the CRL and
\* in the files the next CRL is made from (caRevoke, nodeStart).
RevocationDurable == RevokedStaysRefused /\ ListCoversCrl
=============================================================================
