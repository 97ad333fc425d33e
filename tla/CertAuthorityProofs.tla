------------------------- MODULE CertAuthorityProofs -------------------------
(***************************************************************************)
(* The certificate authority's files tell one story, for any number of     *)
(* keys, certificates and revocations and however its commands crash: it   *)
(* never signs across two authorities, and a reported revocation stays in  *)
(* force as far as the code can keep it.                                   *)
(***************************************************************************)
EXTENDS CertAuthority, SequenceTheorems, TLAPS

Leaf == [serial : Nat, san : Sans, key : Nat, signer : Nat, anchor : Nat]
Crl == [signer : Nat, serials : SUBSET Nat]

\* What a file holds when it is whole.
Content(f) ==
    CASE f = "revoked.txt" -> Seq(Nat)
      [] f = "crl.pem" -> Crl
      [] f = "n.csr" -> [key : Nat, san : Sans]
      [] f = "n.crt" -> Leaf
      [] OTHER -> Nat

\* A write of a command, with the content its file is to have.
PendingWrite == UNION {[file : {f}, content : Content(f)] : f \in Files}

\* The types of the variables.
CaTypeOK ==
    /\ DOMAIN disk = Files
    /\ \A f \in Files : IsWhole(f) => disk[f].v \in Content(f)
    /\ cmd \in [op : {"none", "init", "issue", "keygen", "sign", "revoke"},
                writes : Seq(PendingWrite), serial : Nat]
    /\ issued \in Seq(Leaf)
    /\ history \in [keys : Nat, revokes : Nat, revoked : SUBSET Nat, listCut : BOOLEAN]

\* A certificate about to be written is an issued one.
LeavesPending ==
    \A i \in 1 .. Len(cmd.writes) :
        cmd.writes[i].file = "n.crt" => cmd.writes[i].content \in ToSet(issued)

\* Only a revocation writes the list and the CRL, the CRL last.
RevocationsPending ==
    /\ Len(cmd.writes) <= 2
    /\ cmd.op = "revoke" =>
          /\ cmd.writes # <<>>
          /\ cmd.writes[Len(cmd.writes)].file = "crl.pem"
          /\ Len(cmd.writes) = 2 => cmd.writes[1].file = "revoked.txt"
    /\ cmd.op # "revoke" =>
          \A i \in 1 .. Len(cmd.writes) : cmd.writes[i].file \notin {"revoked.txt", "crl.pem"}

\* The CRL about to be written.
NextCrl == cmd.writes[Len(cmd.writes)].content.serials

\* As long as no list was cut, the CRL a revocation is about to write lists what
\* was reported, what is being revoked and what the list says.
NextCrlCovers ==
    (cmd.op = "revoke" /\ ~history.listCut) =>
        /\ history.revoked \subseteq NextCrl /\ cmd.serial \in NextCrl
        /\ ToSet(ReadList) \subseteq NextCrl
        /\ Len(cmd.writes) = 1 => NextCrl \subseteq ToSet(ReadList)
        /\ Len(cmd.writes) = 2 => ToSet(cmd.writes[1].content) = NextCrl

\* A whole crl.pem lists every reported revocation.
CrlCurrent ==
    (~history.listCut /\ IsWhole("crl.pem")) => history.revoked \subseteq disk["crl.pem"].v.serials

\* So does the one a node has read.
NodeCrlCurrent ==
    (node.running /\ ~node.listCut /\ node.crl.st = "whole") =>
        node.revokedBefore \subseteq node.crl.v.serials

\* The inductive invariant of the CA directory and the node.
CaInv ==
    /\ CaTypeOK /\ OneAuthority
    /\ LeavesPending /\ RevocationsPending /\ NextCrlCovers
    /\ ListCoversCrl /\ CrlCurrent /\ NodeCrlCurrent

-----------------------------------------------------------------------------
\* Appending adds one element.
LEMMA ToSetAppend ==
    ASSUME NEW S, NEW s \in Seq(S), NEW e \in S
    PROVE  Append(s, e) \in Seq(S) /\ ToSet(Append(s, e)) = ToSet(s) \cup {e}
<1>1. /\ Append(s, e) \in Seq(S) /\ Len(Append(s, e)) = Len(s) + 1
      /\ \A i \in 1 .. Len(s) : Append(s, e)[i] = s[i]
      /\ Append(s, e)[Len(s) + 1] = e
  OBVIOUS
<1>2. /\ DOMAIN Append(s, e) = 1 .. Len(s) + 1 /\ DOMAIN s = 1 .. Len(s) /\ Len(s) \in Nat
  BY <1>1
<1>3. ToSet(Append(s, e)) \subseteq ToSet(s) \cup {e}
  <2> SUFFICES ASSUME NEW i \in 1 .. Len(s) + 1 PROVE Append(s, e)[i] \in ToSet(s) \cup {e}
    BY <1>2 DEF ToSet
  <2>1. i \in 1 .. Len(s) \/ i = Len(s) + 1
    BY <1>2
  <2>2. QED
    BY <1>1, <1>2, <2>1 DEF ToSet
<1>4. ToSet(s) \cup {e} \subseteq ToSet(Append(s, e))
  <2>1. e \in ToSet(Append(s, e))
    <3>1. Len(s) + 1 \in DOMAIN Append(s, e)
      BY <1>2
    <3>2. QED
      BY <1>1, <3>1 DEF ToSet
  <2>2. ASSUME NEW i \in DOMAIN s PROVE s[i] \in ToSet(Append(s, e))
    <3>1. i \in DOMAIN Append(s, e) /\ Append(s, e)[i] = s[i]
      BY <1>1, <1>2, <2>2
    <3>2. QED
      BY <3>1 DEF ToSet
  <2>3. QED
    BY <2>1, <2>2 DEF ToSet
<1>5. QED
  BY <1>1, <1>3, <1>4

\* The elements of a sequence.
LEMMA ToSetTyped ==
    ASSUME NEW S, NEW s \in Seq(S)
    PROVE  /\ ToSet(s) \subseteq S
           /\ \A i \in 1 .. Len(s) : s[i] \in ToSet(s)
           /\ \A e \in ToSet(s) : \E i \in 1 .. Len(s) : e = s[i]
BY DEF ToSet

\* A write of fitting content.
LEMMA WriteTyped ==
    ASSUME NEW f \in Files, NEW content \in Content(f)
    PROVE  /\ Write(f, content) \in PendingWrite
           /\ Write(f, content).file = f /\ Write(f, content).content = content
<1>1. Write(f, content) \in [file : {f}, content : Content(f)]
  BY DEF Write
<1>2. QED
  BY <1>1 DEF Write, PendingWrite

\* What is written fits its file.
LEMMA PendingTyped ==
    ASSUME NEW w \in PendingWrite
    PROVE  w.file \in Files /\ w.content \in Content(w.file)
BY DEF PendingWrite

\* The contents of each file.
LEMMA Contents ==
    /\ Content("ca.key") = Nat /\ Content("ca.crt") = Nat /\ Content("n.key") = Nat
    /\ Content("n.csr") = [key : Nat, san : Sans] /\ Content("n.crt") = Leaf
    /\ Content("revoked.txt") = Seq(Nat) /\ Content("crl.pem") = Crl
    /\ Files = {"ca.key", "ca.crt", "revoked.txt", "crl.pem", "n.key", "n.csr", "n.crt"}
BY DEF Content, Files

\* revoked.txt as read is a sequence of serials.
LEMMA ReadListTyped ==
    ASSUME CaTypeOK
    PROVE  ReadList \in Seq(Nat)
BY Contents DEF CaTypeOK, ReadList

-----------------------------------------------------------------------------
\* An empty directory.
LEMMA CaInit == Init => CaInv
<1> SUFFICES ASSUME Init PROVE CaInv
  OBVIOUS
<1>1. \A f \in Files : ~IsWhole(f)
  BY DEF Init, IsWhole, Missing
<1>2. /\ cmd.writes = <<>> /\ cmd.op = "none" /\ cmd.serial = 0 /\ Len(cmd.writes) = 0
      /\ cmd \in [op : {"none", "init", "issue", "keygen", "sign", "revoke"},
                  writes : Seq(PendingWrite), serial : Nat]
  BY DEF Init, Idle
<1>3. CaTypeOK
  BY <1>1, <1>2 DEF Init, CaTypeOK
<1>4. OneAuthority
  BY <1>1, Contents DEF Init, OneAuthority
<1>5. LeavesPending /\ RevocationsPending /\ NextCrlCovers
  BY <1>2 DEF LeavesPending, RevocationsPending, NextCrlCovers
<1>6. ListCoversCrl /\ CrlCurrent /\ NodeCrlCurrent
  BY <1>1, Contents DEF Init, ListCoversCrl, CrlCurrent, NodeCrlCurrent, NotRunning
<1>7. QED
  BY <1>3, <1>4, <1>5, <1>6 DEF CaInv

\* A command other than revoke has read its files and computed its writes.
Planned(op, ws) ==
    /\ op \in {"init", "issue", "keygen", "sign"}
    /\ ws \in Seq(PendingWrite) /\ Len(ws) <= 2
    /\ cmd' = [Idle EXCEPT !.op = op, !.writes = ws]
    /\ \A i \in 1 .. Len(ws) :
          /\ ws[i].file \notin {"revoked.txt", "crl.pem"}
          /\ ws[i].file = "n.crt" => ws[i].content \in ToSet(issued')
    /\ issued' \in Seq(Leaf) /\ ToSet(issued) \subseteq ToSet(issued')
    /\ \A i \in DOMAIN issued' : issued'[i].signer = issued'[i].anchor
    /\ history' \in [keys : Nat, revokes : Nat, revoked : SUBSET Nat, listCut : BOOLEAN]
    /\ history'.revoked = history.revoked /\ history'.listCut = history.listCut
    /\ UNCHANGED <<disk, node>>

\* It has not touched a file yet.
LEMMA CommandKeeps ==
    ASSUME CaInv, NEW op, NEW ws, Planned(op, ws)
    PROVE  CaInv'
<1> USE DEF Planned
<1>1. /\ cmd'.op = op /\ cmd'.writes = ws /\ cmd'.serial = 0
      /\ cmd' \in [op : {"none", "init", "issue", "keygen", "sign", "revoke"},
                   writes : Seq(PendingWrite), serial : Nat]
  BY DEF Idle
<1>2. CaTypeOK'
  BY <1>1 DEF CaInv, CaTypeOK, IsWhole
<1>3. OneAuthority'
  BY DEF CaInv, OneAuthority, IsWhole
<1>4. LeavesPending' /\ RevocationsPending' /\ NextCrlCovers'
  BY <1>1 DEF LeavesPending, RevocationsPending, NextCrlCovers
<1>5. ListCoversCrl' /\ CrlCurrent' /\ NodeCrlCurrent'
  BY DEF CaInv, ListCoversCrl, CrlCurrent, NodeCrlCurrent, ReadList, IsWhole
<1>6. QED
  BY <1>2, <1>3, <1>4, <1>5 DEF CaInv

\* Taking a fresh key.
LEMMA KeyTaken ==
    ASSUME CaInv, UseKey
    PROVE  /\ FreshKey \in Nat
           /\ history' \in [keys : Nat, revokes : Nat, revoked : SUBSET Nat, listCut : BOOLEAN]
           /\ history'.revoked = history.revoked /\ history'.listCut = history.listCut
BY DEF CaInv, CaTypeOK, UseKey, FreshKey

\* A leaf signed after load() names the authority that signed it.
LEMMA LeafIssued ==
    ASSUME CaInv, load, NEW san \in Sans, NEW key \in Nat,
           issued' = Append(issued, buildAndSignLeaf(san, key))
    PROVE  /\ buildAndSignLeaf(san, key) \in Leaf
           /\ issued' \in Seq(Leaf)
           /\ ToSet(issued') = ToSet(issued) \cup {buildAndSignLeaf(san, key)}
           /\ \A i \in DOMAIN issued' : issued'[i].signer = issued'[i].anchor
<1> DEFINE leaf == buildAndSignLeaf(san, key)
<1>1. disk["ca.key"].v \in Nat /\ disk["ca.crt"].v = disk["ca.key"].v
  BY Contents DEF CaInv, CaTypeOK, load
<1>2. issued \in Seq(Leaf) /\ Len(issued) + 1 \in Nat
  BY DEF CaInv, CaTypeOK
<1>3. leaf \in Leaf /\ leaf.signer = leaf.anchor
  BY <1>1, <1>2 DEF buildAndSignLeaf, setSerialRandom, Leaf
<1> HIDE DEF leaf
<1>4. issued' = Append(issued, leaf)
  BY DEF leaf
<1>5. issued' \in Seq(Leaf) /\ ToSet(issued') = ToSet(issued) \cup {leaf}
  BY <1>2, <1>3, <1>4, ToSetAppend
<1>6. \A i \in DOMAIN issued' : issued'[i].signer = issued'[i].anchor
  <2>1. \A e \in ToSet(issued) : e.signer = e.anchor
    BY <1>2, ToSetTyped DEF CaInv, OneAuthority
  <2>2. QED
    BY <1>3, <1>5, <2>1 DEF ToSet
<1>7. QED
  BY <1>3, <1>5, <1>6 DEF leaf

\* `ca init`.
LEMMA CaInitKeeps == CaInv /\ caInit => CaInv'
<1> SUFFICES ASSUME CaInv, caInit PROVE CaInv'
  OBVIOUS
<1> DEFINE ws == <<Write("ca.key", FreshKey), Write("ca.crt", FreshKey)>>
<1>1. /\ cmd = Idle /\ UseKey /\ cmd' = [Idle EXCEPT !.op = "init", !.writes = ws]
      /\ UNCHANGED <<disk, issued, node>>
  BY DEF caInit, MayStart
<1>2. /\ FreshKey \in Nat
      /\ history' \in [keys : Nat, revokes : Nat, revoked : SUBSET Nat, listCut : BOOLEAN]
      /\ history'.revoked = history.revoked /\ history'.listCut = history.listCut
  BY <1>1, KeyTaken
<1>3. /\ Write("ca.key", FreshKey) \in PendingWrite /\ Write("ca.key", FreshKey).file = "ca.key"
      /\ Write("ca.crt", FreshKey) \in PendingWrite /\ Write("ca.crt", FreshKey).file = "ca.crt"
  BY <1>2, Contents, WriteTyped
<1>4. /\ ws \in Seq(PendingWrite) /\ Len(ws) = 2 /\ ws # <<>>
      /\ \A i \in 1 .. Len(ws) : ws[i].file \in {"ca.key", "ca.crt"}
  BY <1>3
<1>5. /\ issued' \in Seq(Leaf) /\ ToSet(issued) \subseteq ToSet(issued')
      /\ \A i \in DOMAIN issued' : issued'[i].signer = issued'[i].anchor
  BY <1>1 DEF CaInv, CaTypeOK, OneAuthority
<1> HIDE DEF ws
<1>6. Planned("init", ws)
  BY <1>1, <1>2, <1>4, <1>5 DEF Planned
<1>7. QED
  BY <1>6, CommandKeeps

\* `node keygen`.
LEMMA KeygenKeeps == CaInv /\ nodeKeygen => CaInv'
<1> SUFFICES ASSUME CaInv, nodeKeygen PROVE CaInv'
  OBVIOUS
<1>1. PICK san \in Sans :
        cmd' = [Idle EXCEPT !.op = "keygen",
                            !.writes = <<Write("n.key", FreshKey), Write("n.csr", generateCsr(san, FreshKey))>>]
  BY DEF nodeKeygen
<1> DEFINE ws == <<Write("n.key", FreshKey), Write("n.csr", generateCsr(san, FreshKey))>>
<1>2. cmd = Idle /\ UseKey /\ UNCHANGED <<disk, issued, node>>
  BY DEF nodeKeygen, MayStart
<1>3. /\ FreshKey \in Nat
      /\ history' \in [keys : Nat, revokes : Nat, revoked : SUBSET Nat, listCut : BOOLEAN]
      /\ history'.revoked = history.revoked /\ history'.listCut = history.listCut
  BY <1>2, KeyTaken
<1>4. generateCsr(san, FreshKey) \in Content("n.csr")
  BY <1>3, Contents DEF generateCsr
<1>5. /\ Write("n.key", FreshKey) \in PendingWrite /\ Write("n.key", FreshKey).file = "n.key"
      /\ Write("n.csr", generateCsr(san, FreshKey)) \in PendingWrite
      /\ Write("n.csr", generateCsr(san, FreshKey)).file = "n.csr"
  BY <1>3, <1>4, Contents, WriteTyped
<1>6. /\ ws \in Seq(PendingWrite) /\ Len(ws) = 2 /\ ws # <<>>
      /\ \A i \in 1 .. Len(ws) : ws[i].file \in {"n.key", "n.csr"}
  BY <1>5
<1>7. /\ issued' \in Seq(Leaf) /\ ToSet(issued) \subseteq ToSet(issued')
      /\ \A i \in DOMAIN issued' : issued'[i].signer = issued'[i].anchor
  BY <1>2 DEF CaInv, CaTypeOK, OneAuthority
<1>8. cmd' = [Idle EXCEPT !.op = "keygen", !.writes = ws]
  BY <1>1
<1> HIDE DEF ws
<1>9. Planned("keygen", ws)
  BY <1>2, <1>3, <1>6, <1>7, <1>8 DEF Planned
<1>10. QED
  BY <1>9, CommandKeeps

\* `ca issue`.
LEMMA IssueKeeps == CaInv /\ caIssue => CaInv'
<1> SUFFICES ASSUME CaInv, caIssue PROVE CaInv'
  OBVIOUS
<1>1. PICK san \in Sans :
        /\ issued' = Append(issued, buildAndSignLeaf(san, FreshKey))
        /\ cmd' = [Idle EXCEPT !.op = "issue",
                               !.writes = <<Write("n.key", FreshKey),
                                            Write("n.crt", buildAndSignLeaf(san, FreshKey))>>]
  BY DEF caIssue
<1> DEFINE leaf == buildAndSignLeaf(san, FreshKey)
           ws == <<Write("n.key", FreshKey), Write("n.crt", leaf)>>
<1>2. cmd = Idle /\ UseKey /\ load /\ UNCHANGED <<disk, node>>
  BY DEF caIssue, MayStart
<1>3. /\ FreshKey \in Nat
      /\ history' \in [keys : Nat, revokes : Nat, revoked : SUBSET Nat, listCut : BOOLEAN]
      /\ history'.revoked = history.revoked /\ history'.listCut = history.listCut
  BY <1>2, KeyTaken
<1>4. /\ leaf \in Leaf /\ issued' \in Seq(Leaf) /\ ToSet(issued') = ToSet(issued) \cup {leaf}
      /\ \A i \in DOMAIN issued' : issued'[i].signer = issued'[i].anchor
  BY <1>1, <1>2, <1>3, LeafIssued
<1>5. cmd' = [Idle EXCEPT !.op = "issue", !.writes = ws]
  BY <1>1
<1> HIDE DEF leaf
<1>6. /\ Write("n.key", FreshKey) \in PendingWrite /\ Write("n.key", FreshKey).file = "n.key"
      /\ Write("n.crt", leaf) \in PendingWrite /\ Write("n.crt", leaf).file = "n.crt"
      /\ Write("n.crt", leaf).content = leaf
  BY <1>3, <1>4, Contents, WriteTyped
<1>7. /\ ws \in Seq(PendingWrite) /\ Len(ws) = 2 /\ ws # <<>>
      /\ \A i \in 1 .. Len(ws) :
            /\ ws[i].file \in {"n.key", "n.crt"}
            /\ ws[i].file = "n.crt" => ws[i].content = leaf
  BY <1>6
<1> HIDE DEF ws
<1>8. Planned("issue", ws)
  <2>1. \A i \in 1 .. Len(ws) :
          /\ ws[i].file \notin {"revoked.txt", "crl.pem"}
          /\ ws[i].file = "n.crt" => ws[i].content \in ToSet(issued')
    BY <1>4, <1>7
  <2>2. QED
    BY <1>2, <1>3, <1>4, <1>5, <1>7, <2>1 DEF Planned
<1>9. QED
  BY <1>8, CommandKeeps

\* `ca sign`.
LEMMA SignKeeps == CaInv /\ caSign => CaInv'
<1> SUFFICES ASSUME CaInv, caSign PROVE CaInv'
  OBVIOUS
<1>1. PICK san \in Sans :
        /\ issued' = Append(issued, signCsr(disk["n.csr"].v, san))
        /\ cmd' = [Idle EXCEPT !.op = "sign",
                               !.writes = <<Write("n.crt", signCsr(disk["n.csr"].v, san))>>]
  BY DEF caSign
<1> DEFINE key == disk["n.csr"].v.key
           leaf == buildAndSignLeaf(san, key)
           ws == <<Write("n.crt", leaf)>>
<1>2. cmd = Idle /\ load /\ UNCHANGED <<disk, node, history>> /\ IsWhole("n.csr")
  BY DEF caSign, MayStart
<1>3. key \in Nat
  <2>1. disk["n.csr"].v \in [key : Nat, san : Sans]
    BY <1>2, Contents DEF CaInv, CaTypeOK
  <2>2. QED
    BY <2>1
<1>4. issued' = Append(issued, leaf) /\ cmd' = [Idle EXCEPT !.op = "sign", !.writes = ws]
  BY <1>1 DEF signCsr
<1> HIDE DEF key
<1>5. /\ leaf \in Leaf /\ issued' \in Seq(Leaf) /\ ToSet(issued') = ToSet(issued) \cup {leaf}
      /\ \A i \in DOMAIN issued' : issued'[i].signer = issued'[i].anchor
  BY <1>2, <1>3, <1>4, LeafIssued
<1> HIDE DEF leaf
<1>6. /\ Write("n.crt", leaf) \in PendingWrite /\ Write("n.crt", leaf).file = "n.crt"
      /\ Write("n.crt", leaf).content = leaf
  BY <1>5, Contents, WriteTyped
<1>7. /\ ws \in Seq(PendingWrite) /\ Len(ws) = 1 /\ ws # <<>>
      /\ \A i \in 1 .. Len(ws) : ws[i].file = "n.crt" /\ ws[i].content = leaf
  BY <1>6
<1>8. history' \in [keys : Nat, revokes : Nat, revoked : SUBSET Nat, listCut : BOOLEAN]
      /\ history' = history
  BY <1>2 DEF CaInv, CaTypeOK
<1> HIDE DEF ws
<1>9. Planned("sign", ws)
  BY <1>2, <1>4, <1>5, <1>7, <1>8 DEF Planned
<1>10. QED
  BY <1>9, CommandKeeps

\* `ca revoke`: the CRL is computed from the whole list and the new serial.
LEMMA RevokeKeeps == CaInv /\ caRevoke => CaInv'
<1> SUFFICES ASSUME CaInv, caRevoke PROVE CaInv'
  OBVIOUS
<1>1. PICK serial \in Named :
        cmd' = [op |-> "revoke", serial |-> serial, writes |-> writesOfRevoke(revokedSerials(serial))]
  BY DEF caRevoke
<1> DEFINE list == revokedSerials(serial)
           crl == issueCrl(list)
           ws == <<Write("revoked.txt", list), Write("crl.pem", crl)>>
<1>2. /\ load /\ UNCHANGED <<disk, issued, node>>
      /\ history' = [history EXCEPT !.revokes = @ + 1]
  BY DEF caRevoke
<1>3. serial \in Nat
  <2>1. \A i \in DOMAIN issued : issued[i].serial \in Nat
    <3>1. issued \in Seq(Leaf)
      BY DEF CaInv, CaTypeOK
    <3>2. \A i \in DOMAIN issued : issued[i] \in Leaf
      BY <3>1
    <3>3. QED
      BY <3>2 DEF Leaf
  <2>2. serialHex("n.crt") \subseteq Nat
    <3>1. IsWhole("n.crt") => disk["n.crt"].v \in Leaf
      BY Contents DEF CaInv, CaTypeOK
    <3>2. QED
      BY <3>1 DEF serialHex, Leaf
  <2>3. CASE serial \in serialHex("n.crt")
    BY <2>2, <2>3
  <2>4. CASE serial \notin serialHex("n.crt")
    <3>1. PICK i \in DOMAIN issued, spelling \in Spellings :
            serial = canonicalSerialHex(Spelled(issued[i].serial, spelling)).serial
      BY <2>4 DEF Named
    <3>2. QED
      BY <2>1, <3>1 DEF canonicalSerialHex, Spelled
  <2>5. QED
    BY <2>3, <2>4
<1>4. ReadList \in Seq(Nat)
  BY ReadListTyped DEF CaInv
<1>5. list \in Seq(Nat) /\ ToSet(list) = ToSet(ReadList) \cup {serial}
  BY <1>3, <1>4, ToSetAppend DEF revokedSerials
<1>6. crl \in Crl /\ crl.serials = ToSet(list)
  <2>1. disk["ca.key"].v \in Nat
    BY <1>2, Contents DEF CaInv, CaTypeOK, load
  <2>2. ToSet(list) \subseteq Nat
    BY <1>5, ToSetTyped
  <2>3. QED
    BY <2>1, <2>2 DEF issueCrl, Crl
<1>7. cmd' = [op |-> "revoke", serial |-> serial, writes |-> ws]
  BY <1>1 DEF writesOfRevoke
<1> HIDE DEF list, crl
<1>8. /\ Write("revoked.txt", list) \in PendingWrite /\ Write("revoked.txt", list).file = "revoked.txt"
      /\ Write("revoked.txt", list).content = list
      /\ Write("crl.pem", crl) \in PendingWrite /\ Write("crl.pem", crl).file = "crl.pem"
      /\ Write("crl.pem", crl).content = crl
  BY <1>5, <1>6, Contents, WriteTyped
<1>9. /\ ws \in Seq(PendingWrite) /\ Len(ws) = 2 /\ ws # <<>>
      /\ ws[1].file = "revoked.txt" /\ ws[1].content = list
      /\ ws[2].file = "crl.pem" /\ ws[2].content = crl
  BY <1>8
<1> HIDE DEF ws
<1>10. /\ cmd'.op = "revoke" /\ cmd'.writes = ws /\ cmd'.serial = serial
       /\ cmd' \in [op : {"none", "init", "issue", "keygen", "sign", "revoke"},
                    writes : Seq(PendingWrite), serial : Nat]
  BY <1>3, <1>7, <1>9
<1>11. /\ history' \in [keys : Nat, revokes : Nat, revoked : SUBSET Nat, listCut : BOOLEAN]
       /\ history'.revoked = history.revoked /\ history'.listCut = history.listCut
  <2>1. history \in [keys : Nat, revokes : Nat, revoked : SUBSET Nat, listCut : BOOLEAN]
    BY DEF CaInv, CaTypeOK
  <2>2. QED
    BY <1>2, <2>1
<1>12. ReadList' = ReadList /\ \A f : IsWhole(f)' = IsWhole(f)
  BY <1>2 DEF ReadList, IsWhole
<1>13. CaTypeOK'
  BY <1>2, <1>10, <1>11, <1>12 DEF CaInv, CaTypeOK
<1>14. OneAuthority'
  BY <1>2, <1>12 DEF CaInv, OneAuthority
<1>15. LeavesPending'
  <2>1. \A i \in 1 .. 2 : ws[i].file # "n.crt"
    BY <1>9
  <2>2. QED
    BY <1>9, <1>10, <2>1 DEF LeavesPending
<1>16. RevocationsPending'
  <2>1. ws[Len(ws)].file = "crl.pem" /\ Len(ws) <= 2
    BY <1>9
  <2>2. /\ Len(cmd'.writes) <= 2 /\ cmd'.writes # <<>>
        /\ cmd'.writes[Len(cmd'.writes)].file = "crl.pem" /\ cmd'.writes[1].file = "revoked.txt"
    BY <1>9, <1>10, <2>1
  <2>3. QED
    BY <1>10, <2>2 DEF RevocationsPending
<1>17. NextCrlCovers'
  <2>1. NextCrl' = ToSet(list)
    BY <1>6, <1>9, <1>10 DEF NextCrl
  <2>2. ~history.listCut => history.revoked \subseteq ToSet(ReadList)
    BY DEF CaInv, ListCoversCrl
  <2>3. QED
    BY <1>5, <1>9, <1>10, <1>11, <1>12, <2>1, <2>2 DEF NextCrlCovers
<1>18. ListCoversCrl' /\ CrlCurrent' /\ NodeCrlCurrent'
  BY <1>2, <1>11, <1>12 DEF CaInv, ListCoversCrl, CrlCurrent, NodeCrlCurrent
<1>19. QED
  BY <1>13, <1>14, <1>15, <1>16, <1>17, <1>18 DEF CaInv

-----------------------------------------------------------------------------
\* A command that is over has nothing left to write.
LEMMA NothingPending ==
    ASSUME cmd' = Idle
    PROVE  /\ LeavesPending' /\ RevocationsPending' /\ NextCrlCovers'
           /\ cmd' \in [op : {"none", "init", "issue", "keygen", "sign", "revoke"},
                        writes : Seq(PendingWrite), serial : Nat]
<1>1. /\ cmd'.op = "none" /\ cmd'.writes = <<>> /\ Len(cmd'.writes) = 0
      /\ cmd' \in [op : {"none", "init", "issue", "keygen", "sign", "revoke"},
                   writes : Seq(PendingWrite), serial : Nat]
  BY DEF Idle
<1>2. QED
  BY <1>1 DEF LeavesPending, RevocationsPending, NextCrlCovers

\* The write a command makes next: the file, its content, and what comes after.
LEMMA NextWrite ==
    ASSUME CaInv, cmd.writes # <<>>
    PROVE  /\ cmd.writes \in Seq(PendingWrite) /\ Len(cmd.writes) \in {1, 2}
           /\ cmd.writes[1].file \in Files
           /\ cmd.writes[1].content \in Content(cmd.writes[1].file)
           /\ cmd.writes[1].file = "n.crt" => cmd.writes[1].content \in ToSet(issued)
           /\ cmd.op # "revoke" => cmd.writes[1].file \notin {"revoked.txt", "crl.pem"}
           /\ (cmd.op = "revoke" /\ Len(cmd.writes) = 2) => cmd.writes[1].file = "revoked.txt"
           /\ (cmd.op = "revoke" /\ Len(cmd.writes) = 1) => cmd.writes[1].file = "crl.pem"
           /\ Len(cmd.writes) = 2 => /\ Tail(cmd.writes) \in Seq(PendingWrite)
                                     /\ Len(Tail(cmd.writes)) = 1
                                     /\ Tail(cmd.writes)[1] = cmd.writes[2]
<1>1. /\ cmd.writes \in Seq(PendingWrite) /\ Len(cmd.writes) <= 2
      /\ LeavesPending /\ RevocationsPending
  BY DEF CaInv, CaTypeOK, RevocationsPending
<1>2. Len(cmd.writes) \in {1, 2}
  <2> DEFINE ws == cmd.writes
             n == Len(ws)
  <2>1. ws \in Seq(PendingWrite) /\ ws # <<>> /\ n <= 2
    BY <1>1
  <2> HIDE DEF ws
  <2>2. n \in Nat /\ n # 0
    BY <2>1, EmptySeq
  <2> HIDE DEF n
  <2>3. n \in {1, 2}
    BY <2>1, <2>2
  <2>4. QED
    BY <2>3 DEF ws, n
<1>3. cmd.writes[1] \in PendingWrite /\ 1 \in 1 .. Len(cmd.writes)
  BY <1>1, <1>2
<1>4. cmd.writes[1].file \in Files /\ cmd.writes[1].content \in Content(cmd.writes[1].file)
  BY <1>3, PendingTyped
<1>5. /\ cmd.writes[1].file = "n.crt" => cmd.writes[1].content \in ToSet(issued)
      /\ cmd.op # "revoke" => cmd.writes[1].file \notin {"revoked.txt", "crl.pem"}
      /\ (cmd.op = "revoke" /\ Len(cmd.writes) = 2) => cmd.writes[1].file = "revoked.txt"
      /\ (cmd.op = "revoke" /\ Len(cmd.writes) = 1) => cmd.writes[1].file = "crl.pem"
  BY <1>1, <1>3 DEF LeavesPending, RevocationsPending
<1>6. Len(cmd.writes) = 2 => /\ Tail(cmd.writes) \in Seq(PendingWrite)
                             /\ Len(Tail(cmd.writes)) = 1
                             /\ Tail(cmd.writes)[1] = cmd.writes[2]
  BY <1>1
<1>7. QED
  BY <1>1, <1>2, <1>4, <1>5, <1>6

\* A file that gets its new content keeps the disk well-typed and the node's
\* certificate an issued one.
LEMMA WholeFileKeeps ==
    ASSUME CaInv, cmd.writes # <<>>, UNCHANGED issued,
           disk' = [disk EXCEPT ![cmd.writes[1].file] = Whole(cmd.writes[1].content)]
    PROVE  /\ DOMAIN disk' = Files
           /\ disk'[cmd.writes[1].file].st = "whole"
           /\ disk'[cmd.writes[1].file].v = cmd.writes[1].content
           /\ \A g \in Files : g # cmd.writes[1].file => disk'[g] = disk[g]
           /\ \A g \in Files : IsWhole(g)' => disk'[g].v \in Content(g)
           /\ OneAuthority'
<1> DEFINE f == cmd.writes[1].file
           c == cmd.writes[1].content
<1>1. f \in Files /\ c \in Content(f) /\ (f = "n.crt" => c \in ToSet(issued))
  BY NextWrite
<1>2. DOMAIN disk = Files /\ \A g \in Files : IsWhole(g) => disk[g].v \in Content(g)
  BY DEF CaInv, CaTypeOK
<1>3. disk' = [disk EXCEPT ![f] = Whole(c)]
  OBVIOUS
<1> HIDE DEF f, c
<1>4. DOMAIN disk' = Files /\ disk'[f] = Whole(c) /\ \A g \in Files : g # f => disk'[g] = disk[g]
  BY <1>1, <1>2, <1>3
<1>5. disk'[f].st = "whole" /\ disk'[f].v = c
  BY <1>4 DEF Whole
<1>6. \A g \in Files : IsWhole(g)' => disk'[g].v \in Content(g)
  BY <1>1, <1>2, <1>4, <1>5 DEF IsWhole
<1>7. OneAuthority'
  <2>1. IsWhole("n.crt")' => disk'["n.crt"].v \in ToSet(issued)
    <3>1. CASE f = "n.crt"
      BY <1>1, <1>5, <3>1
    <3>2. CASE f # "n.crt"
      BY <1>4, <3>2, Contents DEF CaInv, OneAuthority, IsWhole
    <3>3. QED
      BY <3>1, <3>2
  <2>2. QED
    BY <2>1 DEF CaInv, OneAuthority
<1>8. QED
  BY <1>4, <1>5, <1>6, <1>7 DEF f, c

\* A write of a command that does not revoke.
LEMMA OrdinaryWriteKeeps ==
    ASSUME CaInv, writeFile, cmd.op # "revoke"
    PROVE  CaInv'
<1>1. /\ cmd.writes # <<>> /\ UNCHANGED <<issued, node>>
      /\ disk' = [disk EXCEPT ![cmd.writes[1].file] = Whole(cmd.writes[1].content)]
      /\ history' = history
      /\ cmd' = IF Len(cmd.writes) = 1 THEN Idle ELSE [cmd EXCEPT !.writes = Tail(@)]
  BY DEF writeFile, Acknowledge
<1>2. /\ DOMAIN disk' = Files /\ OneAuthority'
      /\ \A g \in Files : g # cmd.writes[1].file => disk'[g] = disk[g]
      /\ \A g \in Files : IsWhole(g)' => disk'[g].v \in Content(g)
  BY <1>1, WholeFileKeeps
<1>3. disk'["revoked.txt"] = disk["revoked.txt"] /\ disk'["crl.pem"] = disk["crl.pem"]
  BY <1>1, <1>2, NextWrite, Contents
<1>4. /\ cmd' \in [op : {"none", "init", "issue", "keygen", "sign", "revoke"},
                   writes : Seq(PendingWrite), serial : Nat]
      /\ LeavesPending' /\ RevocationsPending' /\ NextCrlCovers'
  <2>1. CASE Len(cmd.writes) = 1
    BY <1>1, <2>1, NothingPending
  <2>2. CASE Len(cmd.writes) # 1
    <3>1. Len(cmd.writes) = 2
      BY <1>1, <2>2, NextWrite
    <3>2. /\ Tail(cmd.writes) \in Seq(PendingWrite) /\ Len(Tail(cmd.writes)) = 1
          /\ Tail(cmd.writes)[1] = cmd.writes[2]
      BY <1>1, <3>1, NextWrite
    <3>3. cmd \in [op : {"none", "init", "issue", "keygen", "sign", "revoke"},
                  writes : Seq(PendingWrite), serial : Nat]
      BY DEF CaInv, CaTypeOK
    <3>4. /\ cmd'.writes = Tail(cmd.writes) /\ cmd'.op = cmd.op
          /\ cmd' \in [op : {"none", "init", "issue", "keygen", "sign", "revoke"},
                       writes : Seq(PendingWrite), serial : Nat]
      BY <1>1, <2>2, <3>2, <3>3
    <3>5. /\ cmd.writes[2].file \notin {"revoked.txt", "crl.pem"}
          /\ cmd.writes[2].file = "n.crt" => cmd.writes[2].content \in ToSet(issued)
      BY <3>1 DEF CaInv, LeavesPending, RevocationsPending
    <3>6. \A i \in 1 .. Len(cmd'.writes) : cmd'.writes[i] = cmd.writes[2]
      BY <3>2, <3>4
    <3>7. QED
      BY <1>1, <3>2, <3>4, <3>5, <3>6 DEF LeavesPending, RevocationsPending, NextCrlCovers
  <2>3. QED
    BY <2>1, <2>2
<1>5. CaTypeOK'
  BY <1>1, <1>2, <1>4 DEF CaInv, CaTypeOK
<1>6. ListCoversCrl' /\ CrlCurrent' /\ NodeCrlCurrent'
  BY <1>1, <1>3 DEF CaInv, ListCoversCrl, CrlCurrent, NodeCrlCurrent, ReadList, IsWhole
<1>7. QED
  BY <1>2, <1>4, <1>5, <1>6 DEF CaInv

\* The two writes of a revocation: the list, which covers the CRL there is, and
\* the CRL computed with it, which completes the revocation.
LEMMA RevocationWriteKeeps ==
    ASSUME CaInv, writeFile, cmd.op = "revoke"
    PROVE  CaInv'
<1>1. /\ cmd.writes # <<>> /\ UNCHANGED <<issued, node>>
      /\ disk' = [disk EXCEPT ![cmd.writes[1].file] = Whole(cmd.writes[1].content)]
      /\ history' = IF Len(cmd.writes) = 1 THEN Acknowledge(cmd) ELSE history
      /\ cmd' = IF Len(cmd.writes) = 1 THEN Idle ELSE [cmd EXCEPT !.writes = Tail(@)]
  BY DEF writeFile
<1>2. /\ DOMAIN disk' = Files /\ OneAuthority'
      /\ disk'[cmd.writes[1].file].st = "whole"
      /\ disk'[cmd.writes[1].file].v = cmd.writes[1].content
      /\ \A g \in Files : g # cmd.writes[1].file => disk'[g] = disk[g]
      /\ \A g \in Files : IsWhole(g)' => disk'[g].v \in Content(g)
  BY <1>1, WholeFileKeeps
<1>3. /\ cmd \in [op : {"none", "init", "issue", "keygen", "sign", "revoke"},
                  writes : Seq(PendingWrite), serial : Nat]
      /\ history \in [keys : Nat, revokes : Nat, revoked : SUBSET Nat, listCut : BOOLEAN]
      /\ issued \in Seq(Leaf)
  BY DEF CaInv, CaTypeOK
<1>4. CASE Len(cmd.writes) = 2
  <2>1. cmd.writes[1].file = "revoked.txt"
    BY <1>1, <1>4, NextWrite
  <2>2. /\ disk'["revoked.txt"].st = "whole" /\ disk'["revoked.txt"].v = cmd.writes[1].content
        /\ disk'["crl.pem"] = disk["crl.pem"]
    BY <1>2, <2>1, Contents
  <2>3. /\ Tail(cmd.writes) \in Seq(PendingWrite) /\ Len(Tail(cmd.writes)) = 1
        /\ Tail(cmd.writes)[1] = cmd.writes[2]
    BY <1>1, <1>4, NextWrite
  <2>4. /\ cmd'.op = "revoke" /\ cmd'.serial = cmd.serial /\ cmd'.writes = Tail(cmd.writes)
        /\ cmd' \in [op : {"none", "init", "issue", "keygen", "sign", "revoke"},
                     writes : Seq(PendingWrite), serial : Nat]
        /\ history' = history
    <3>1. cmd' = [cmd EXCEPT !.writes = Tail(cmd.writes)] /\ history' = history
      BY <1>1, <1>4
    <3>2. cmd'.op = "revoke" /\ cmd'.serial = cmd.serial /\ cmd'.writes = Tail(cmd.writes)
      BY <1>3, <3>1
    <3>3. cmd' \in [op : {"none", "init", "issue", "keygen", "sign", "revoke"},
                    writes : Seq(PendingWrite), serial : Nat]
      BY <1>3, <2>3, <3>1
    <3>4. QED
      BY <3>1, <3>2, <3>3
  <2>5. /\ cmd.writes[2].file = "crl.pem" /\ cmd'.writes[1] = cmd.writes[2]
        /\ Len(cmd'.writes) = 1 /\ cmd'.writes # <<>>
    BY <1>4, <2>3, <2>4 DEF CaInv, RevocationsPending
  <2>6. NextCrl' = NextCrl
    BY <1>4, <2>5 DEF NextCrl
  <2>7. ReadList' = cmd.writes[1].content
    BY <2>2 DEF ReadList, IsWhole
  <2>8. ~history.listCut =>
          /\ history.revoked \subseteq NextCrl /\ cmd.serial \in NextCrl
          /\ ToSet(ReadList) \subseteq NextCrl
          /\ ToSet(ReadList') = NextCrl
    BY <1>4, <2>7 DEF CaInv, NextCrlCovers
  <2>9. LeavesPending' /\ RevocationsPending'
    <3>1. \A i \in 1 .. Len(cmd'.writes) : cmd'.writes[i].file = "crl.pem"
      BY <2>5
    <3>2. LeavesPending'
      BY <3>1 DEF LeavesPending
    <3>3. cmd'.writes[Len(cmd'.writes)].file = "crl.pem" /\ Len(cmd'.writes) <= 2 /\ Len(cmd'.writes) # 2
      BY <2>5
    <3>4. RevocationsPending'
      BY <2>4, <2>5, <3>3 DEF RevocationsPending
    <3>5. QED
      BY <3>2, <3>4
  <2>10. NextCrlCovers'
    <3> SUFFICES ASSUME ~history.listCut
                 PROVE  /\ history'.revoked \subseteq NextCrl' /\ cmd'.serial \in NextCrl'
                        /\ ToSet(ReadList)' \subseteq NextCrl'
                        /\ Len(cmd'.writes) = 1 => NextCrl' \subseteq ToSet(ReadList)'
                        /\ Len(cmd'.writes) = 2 => ToSet(cmd'.writes[1].content) = NextCrl'
      BY <2>4 DEF NextCrlCovers
    <3>1. history'.revoked \subseteq NextCrl' /\ cmd'.serial \in NextCrl'
      BY <2>4, <2>6, <2>8
    <3>2. ToSet(ReadList)' = NextCrl'
      BY <2>6, <2>8
    <3>3. Len(cmd'.writes) # 2
      BY <2>5
    <3>4. QED
      BY <3>1, <3>2, <3>3
  <2>11. ListCoversCrl' /\ CrlCurrent' /\ NodeCrlCurrent'
    BY <1>1, <2>2, <2>4, <2>8 DEF CaInv, ListCoversCrl, CrlCurrent, NodeCrlCurrent, IsWhole
  <2>12. CaTypeOK'
    BY <1>1, <1>2, <1>3, <2>4 DEF CaTypeOK
  <2>13. QED
    BY <1>2, <2>9, <2>10, <2>11, <2>12 DEF CaInv
<1>5. CASE Len(cmd.writes) = 1
  <2>1. cmd.writes[1].file = "crl.pem"
    BY <1>1, <1>5, NextWrite
  <2>2. /\ disk'["crl.pem"].st = "whole" /\ disk'["crl.pem"].v.serials = NextCrl
        /\ disk'["revoked.txt"] = disk["revoked.txt"]
    BY <1>2, <1>5, <2>1, Contents DEF NextCrl
  <2>3. /\ history'.revoked = history.revoked \cup {cmd.serial} /\ history'.listCut = history.listCut
        /\ history' \in [keys : Nat, revokes : Nat, revoked : SUBSET Nat, listCut : BOOLEAN]
    BY <1>1, <1>3, <1>5 DEF Acknowledge
  <2>4. ReadList' = ReadList
    BY <2>2 DEF ReadList, IsWhole
  <2>5. ~history.listCut =>
          /\ history.revoked \subseteq NextCrl /\ cmd.serial \in NextCrl
          /\ ToSet(ReadList) = NextCrl
    BY <1>5 DEF CaInv, NextCrlCovers
  <2>6. /\ LeavesPending' /\ RevocationsPending' /\ NextCrlCovers'
        /\ cmd' \in [op : {"none", "init", "issue", "keygen", "sign", "revoke"},
                     writes : Seq(PendingWrite), serial : Nat]
    BY <1>1, <1>5, NothingPending
  <2>7. CaTypeOK'
    BY <1>1, <1>2, <1>3, <2>3, <2>6 DEF CaTypeOK
  <2>8. ListCoversCrl' /\ CrlCurrent' /\ NodeCrlCurrent'
    BY <1>1, <2>2, <2>3, <2>4, <2>5 DEF CaInv, ListCoversCrl, CrlCurrent, NodeCrlCurrent
  <2>9. QED
    BY <1>2, <2>6, <2>7, <2>8 DEF CaInv
<1>6. QED
  BY <1>1, <1>4, <1>5, NextWrite

\* A write that is cut: the list is then no longer to be relied on, and anything
\* else is not whole.
LEMMA CutWriteKeeps ==
    ASSUME CaInv, writeIsCut
    PROVE  CaInv'
<1> DEFINE f == cmd.writes[1].file
           c == cmd.writes[1].content
<1>1. /\ cmd.writes # <<>> /\ cmd' = Idle /\ UNCHANGED <<issued, node>>
      /\ history' = [history EXCEPT !.listCut = @ \/ f = "revoked.txt"]
  BY DEF writeIsCut
<1>2. PICK left \in Cut(cmd.writes[1]) : disk' = [disk EXCEPT ![f] = left]
  BY DEF writeIsCut
<1>3. f \in Files /\ c \in Content(f)
  BY <1>1, NextWrite
<1>4. left.st = "whole" => f = "revoked.txt" /\ left.v \in Seq(Nat)
  <2>1. CASE f = "revoked.txt"
    <3>1. PICK list \in CutList(c) : left = Whole(list)
      BY <1>2, <2>1 DEF Cut
    <3>2. c \in Seq(Nat)
      BY <1>3, <2>1, Contents
    <3> HIDE DEF c
    <3>3. ASSUME NEW n \in 0 .. (Len(c) - 1)
          PROVE  SubSeq(c, 1, n) \in Seq(Nat) /\ Append(SubSeq(c, 1, n), 0) \in Seq(Nat)
      <4>1. \A i \in 1 .. n : c[i] \in Nat
        BY <3>2, <3>3
      <4>2. n \in Int /\ 1 \in Int
        BY <3>3
      <4>3. SubSeq(c, 1, n) \in Seq(Nat)
        BY <4>1, <4>2, SubSeqProperties
      <4>4. QED
        BY <4>3, AppendProperties
    <3>4. list \in Seq(Nat)
      BY <3>1, <3>3 DEF CutList
    <3>5. QED
      BY <2>1, <3>1, <3>4 DEF Whole
  <2>2. CASE f # "revoked.txt"
    BY <1>2, <2>2 DEF Cut
  <2>3. QED
    BY <2>1, <2>2
<1>5. DOMAIN disk = Files /\ \A g \in Files : IsWhole(g) => disk[g].v \in Content(g)
  BY DEF CaInv, CaTypeOK
<1> HIDE DEF f, c
<1>6. DOMAIN disk' = Files /\ disk'[f] = left /\ \A g \in Files : g # f => disk'[g] = disk[g]
  BY <1>2, <1>3, <1>5
<1>7. \A g \in Files : IsWhole(g)' => disk'[g].v \in Content(g)
  BY <1>3, <1>4, <1>5, <1>6, Contents DEF IsWhole
<1>8. /\ history' \in [keys : Nat, revokes : Nat, revoked : SUBSET Nat, listCut : BOOLEAN]
      /\ history'.revoked = history.revoked
      /\ ~history'.listCut => ~history.listCut /\ f # "revoked.txt"
  <2>1. history \in [keys : Nat, revokes : Nat, revoked : SUBSET Nat, listCut : BOOLEAN]
    BY DEF CaInv, CaTypeOK
  <2>2. PICK b \in BOOLEAN : b = (history.listCut \/ f = "revoked.txt")
    BY <2>1
  <2>3. history' = [history EXCEPT !.listCut = b]
    BY <1>1, <2>2
  <2>4. history'.listCut = b /\ history'.revoked = history.revoked
    BY <2>1, <2>3
  <2>5. history' \in [keys : Nat, revokes : Nat, revoked : SUBSET Nat, listCut : BOOLEAN]
    BY <2>1, <2>2, <2>3
  <2>6. QED
    BY <2>2, <2>4, <2>5
<1>9. /\ LeavesPending' /\ RevocationsPending' /\ NextCrlCovers'
      /\ cmd' \in [op : {"none", "init", "issue", "keygen", "sign", "revoke"},
                   writes : Seq(PendingWrite), serial : Nat]
  BY <1>1, NothingPending
<1>10. CaTypeOK'
  BY <1>1, <1>6, <1>7, <1>8, <1>9 DEF CaInv, CaTypeOK
<1>11. OneAuthority'
  <2>1. IsWhole("n.crt")' => IsWhole("n.crt") /\ disk'["n.crt"] = disk["n.crt"]
    BY <1>3, <1>4, <1>6, Contents DEF IsWhole
  <2>2. QED
    BY <1>1, <2>1 DEF CaInv, OneAuthority
<1>12. ListCoversCrl' /\ CrlCurrent'
  <2> SUFFICES ASSUME ~history'.listCut PROVE ListCoversCrl' /\ CrlCurrent'
    BY DEF ListCoversCrl, CrlCurrent
  <2>1. disk'["revoked.txt"] = disk["revoked.txt"]
    BY <1>6, <1>8, Contents
  <2>2. IsWhole("crl.pem")' => IsWhole("crl.pem") /\ disk'["crl.pem"] = disk["crl.pem"]
    BY <1>3, <1>4, <1>6, Contents DEF IsWhole
  <2>3. ReadList' = ReadList
    BY <2>1 DEF ReadList, IsWhole
  <2>4. QED
    BY <1>8, <2>2, <2>3 DEF CaInv, ListCoversCrl, CrlCurrent
<1>13. NodeCrlCurrent'
  BY <1>1 DEF CaInv, NodeCrlCurrent
<1>14. QED
  BY <1>9, <1>10, <1>11, <1>12, <1>13 DEF CaInv

\* A write that leaves its file alone ends the command.
LEMMA FailedWriteKeeps ==
    ASSUME CaInv, atomicWriteFails
    PROVE  CaInv'
<1>1. cmd' = Idle /\ UNCHANGED <<disk, issued, node, history>>
  BY DEF atomicWriteFails
<1>2. /\ LeavesPending' /\ RevocationsPending' /\ NextCrlCovers'
      /\ cmd' \in [op : {"none", "init", "issue", "keygen", "sign", "revoke"},
                   writes : Seq(PendingWrite), serial : Nat]
  BY <1>1, NothingPending
<1>3. CaTypeOK' /\ OneAuthority'
  BY <1>1, <1>2 DEF CaInv, CaTypeOK, OneAuthority, IsWhole
<1>4. ListCoversCrl' /\ CrlCurrent' /\ NodeCrlCurrent'
  BY <1>1 DEF CaInv, ListCoversCrl, CrlCurrent, NodeCrlCurrent, ReadList, IsWhole
<1>5. QED
  BY <1>2, <1>3, <1>4 DEF CaInv

\* A node that starts reads the files as they are; one that stops forgets them.
LEMMA NodeKeeps ==
    ASSUME CaInv, nodeStart \/ nodeStop
    PROVE  CaInv'
<1>1. UNCHANGED <<disk, cmd, issued, history>>
  BY DEF nodeStart, nodeStop
<1>2. NodeCrlCurrent'
  <2>1. CASE nodeStop
    BY <2>1 DEF nodeStop, NodeCrlCurrent, NotRunning
  <2>2. CASE nodeStart
    <3>1. PICK cert, key, ca, withCrl :
             node' = [running |-> TRUE, withCrl |-> withCrl, cert |-> cert, key |-> key, ca |-> ca,
                      crl |-> IF withCrl THEN disk["crl.pem"] ELSE Missing,
                      revokedBefore |-> history.revoked, listCut |-> history.listCut]
      BY <2>2 DEF nodeStart
    <3>2. /\ node'.crl = disk["crl.pem"] \/ node'.crl = Missing
          /\ node'.revokedBefore = history.revoked /\ node'.listCut = history.listCut
      BY <3>1
    <3>3. node'.crl.st = "whole" => node'.crl = disk["crl.pem"]
      BY <3>2 DEF Missing
    <3>4. QED
      BY <3>2, <3>3 DEF CaInv, CrlCurrent, NodeCrlCurrent, IsWhole
  <2>3. QED
    BY <2>1, <2>2
<1>3. CaTypeOK' /\ OneAuthority'
  BY <1>1 DEF CaInv, CaTypeOK, OneAuthority, IsWhole
<1>4. LeavesPending' /\ RevocationsPending' /\ NextCrlCovers'
  BY <1>1 DEF CaInv, LeavesPending, RevocationsPending, NextCrlCovers, NextCrl, ReadList, IsWhole
<1>5. ListCoversCrl' /\ CrlCurrent'
  BY <1>1 DEF CaInv, ListCoversCrl, CrlCurrent, ReadList, IsWhole
<1>6. QED
  BY <1>2, <1>3, <1>4, <1>5 DEF CaInv

-----------------------------------------------------------------------------
\* Every step of a command, a crash or a node keeps the invariant.
LEMMA CaStep == CaInv /\ [Next]_vars => CaInv'
<1> SUFFICES ASSUME CaInv, [Next]_vars PROVE CaInv'
  OBVIOUS
<1>1. CASE caInit
  BY <1>1, CaInitKeeps
<1>2. CASE caIssue
  BY <1>2, IssueKeeps
<1>3. CASE nodeKeygen
  BY <1>3, KeygenKeeps
<1>4. CASE caSign
  BY <1>4, SignKeeps
<1>5. CASE caRevoke
  BY <1>5, RevokeKeeps
<1>6. CASE writeFile
  BY <1>6, OrdinaryWriteKeeps, RevocationWriteKeeps
<1>7. CASE writeIsCut
  BY <1>7, CutWriteKeeps
<1>8. CASE atomicWriteFails
  BY <1>8, FailedWriteKeeps
<1>9. CASE nodeStart \/ nodeStop
  BY <1>9, NodeKeeps
<1>10. CASE UNCHANGED vars
  <2>1. UNCHANGED <<disk, cmd, issued, node, history>>
    BY <1>10 DEF vars
  <2>2. CaTypeOK' /\ OneAuthority'
    BY <2>1 DEF CaInv, CaTypeOK, OneAuthority, IsWhole
  <2>3. LeavesPending' /\ RevocationsPending' /\ NextCrlCovers'
    BY <2>1 DEF CaInv, LeavesPending, RevocationsPending, NextCrlCovers, NextCrl, ReadList, IsWhole
  <2>4. ListCoversCrl' /\ CrlCurrent' /\ NodeCrlCurrent'
    BY <2>1 DEF CaInv, ListCoversCrl, CrlCurrent, NodeCrlCurrent, ReadList, IsWhole
  <2>5. QED
    BY <2>2, <2>3, <2>4 DEF CaInv
<1>11. QED
  BY <1>1, <1>2, <1>3, <1>4, <1>5, <1>6, <1>7, <1>8, <1>9, <1>10 DEF Next

LEMMA CaInvariant == Spec => []CaInv
<1>1. Init => CaInv
  BY CaInit
<1>2. CaInv /\ [Next]_vars => CaInv'
  BY CaStep
<1>3. QED
  BY <1>1, <1>2, PTL DEF Spec

(***************************************************************************)
(* Every certificate the CA directory ever issues names the authority      *)
(* whose key signed it, and the node's certificate, once whole, is one of  *)
(* them, wherever `ca init`, `issue` and `sign` crash                      *)
(* (certificate_authority.cpp load, ca_command.cpp).                       *)
(***************************************************************************)
THEOREM AuthorityNeverSplit == Spec => []OneAuthority
<1>1. CaInv => OneAuthority
  BY DEF CaInv
<1>2. QED
  BY <1>1, CaInvariant, PTL

(***************************************************************************)
(* A reported revocation stays in force: crl.pem and revoked.txt keep it   *)
(* and a node started with --crl afterwards refuses the certificate,       *)
(* except after the two cuts the property names (ca_command.cpp caRevoke,  *)
(* node_command.cpp, tls.cpp create).                                      *)
(***************************************************************************)
THEOREM RevocationsDurable == Spec => []RevocationDurable
<1>1. CaInv => RevocationDurable
  <2> SUFFICES ASSUME CaInv PROVE RevokedStaysRefused
    BY DEF CaInv, RevocationDurable
  <2> SUFFICES ASSUME node.running, node.withCrl, node.crl.st # "empty", ~node.listCut,
                      NEW i \in DOMAIN issued, issued[i].serial \in node.revokedBefore,
                      Admits(node, issued[i])
               PROVE  FALSE
    BY DEF RevokedStaysRefused
  <2>1. ChecksCrl(node)
    BY DEF ChecksCrl
  <2>2. node.crl.st = "whole" /\ issued[i].serial \notin node.crl.v.serials
    BY <2>1 DEF Admits, TlsCreated, useCrlPem
  <2>3. node.revokedBefore \subseteq node.crl.v.serials
    BY <2>2 DEF CaInv, NodeCrlCurrent
  <2>4. QED
    BY <2>2, <2>3
<1>2. QED
  BY <1>1, CaInvariant, PTL
=============================================================================
