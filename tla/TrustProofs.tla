---------------------------- MODULE TrustProofs -----------------------------
(***************************************************************************)
(* What is proved about the trust state: for any number of peers, hosts    *)
(* and requests, and whatever fails to be written, no stale record shadows *)
(* a current one, and a peer that was removed stays a stranger.            *)
(***************************************************************************)
EXTENDS Trust, ListProofs

CertOnce(recs) == \A i, j \in DOMAIN recs : recs[i].cert = recs[j].cert => i = j

OnePin(recs) ==
  \A i, j \in DOMAIN recs :
    recs[i].host = recs[j].host \/ recs[i].cert = recs[j].cert => i = j

\* The records: in memory each host and each certificate is there once, under
\* what was accepted last for that host; the file may still hold old duplicates
\* of hosts; neither names a stranger.
RecordInv ==
  /\ records \in Seq(Record) /\ OnePin(records)
  /\ file # Torn => file \in Seq(Record) /\ CertOnce(file)
  /\ \A i \in DOMAIN records :
       records[i].host \in DOMAIN pinned /\ pinned[records[i].host] = records[i].cert
  /\ \A f \in strangers : f \notin Certs(records)
  /\ file # Torn => \A f \in strangers : f \notin Certs(file)

\* The sessions: a stranger's is about to end or was missed by its removal, and
\* so was a stranger's request that had passed the check.
SessionInv ==
  /\ \A f \in strangers \cap DOMAIN links : f \in ending \cup outlived
  /\ \A c \in passed : c.cert \in strangers => c.cert \in outlived

TrustInv == RecordInv /\ SessionInv

-----------------------------------------------------------------------------
(* TrustState                                                              *)

\* Records that are kept are records there were, and different ones stay so.
LEMMA KeptRecords ==
  ASSUME NEW recs \in Seq(Record), NEW keep \in SUBSET DOMAIN recs
  PROVE  /\ Retain(recs, keep) \in Seq(Record)
         /\ \A n \in DOMAIN Retain(recs, keep) : \E i \in keep : Retain(recs, keep)[n] = recs[i]
         /\ CertOnce(recs) => CertOnce(Retain(recs, keep))
         /\ OnePin(recs) => OnePin(Retain(recs, keep))
<1> DEFINE kept == Retain(recs, keep)
<1>1. kept \in Seq(Record)
  BY RetainKeeps
<1>2. PICK from \in [DOMAIN Retain(recs, keep) -> keep] :
        /\ \A n \in DOMAIN Retain(recs, keep) : Retain(recs, keep)[n] = recs[from[n]]
        /\ \A m, n \in DOMAIN Retain(recs, keep) : m < n => from[m] < from[n]
        /\ \A m, n \in DOMAIN Retain(recs, keep) : from[m] = from[n] => m = n
        /\ \A i \in keep : \E n \in DOMAIN Retain(recs, keep) : from[n] = i
  BY RetainKeeps
<1>3. /\ \A n \in DOMAIN kept : from[n] \in keep /\ from[n] \in DOMAIN recs /\ kept[n] = recs[from[n]]
      /\ \A m, n \in DOMAIN kept : from[m] = from[n] => m = n
  BY <1>2
<1> HIDE DEF kept
<1>4. CertOnce(recs) => CertOnce(kept)
  BY <1>3 DEF CertOnce
<1>5. ASSUME OnePin(recs), NEW m \in DOMAIN kept, NEW n \in DOMAIN kept,
             kept[m].host = kept[n].host \/ kept[m].cert = kept[n].cert
      PROVE  m = n
  <2>1. from[m] \in DOMAIN recs /\ from[n] \in DOMAIN recs
        /\ kept[m] = recs[from[m]] /\ kept[n] = recs[from[n]]
    BY <1>3
  <2>2. from[m] = from[n]
    BY <1>5, <2>1 DEF OnePin
  <2> QED
    BY <1>3, <2>2
<1>6. \A n \in DOMAIN kept : \E i \in keep : kept[n] = recs[i]
  BY <1>3
<1>7. OnePin(recs) => OnePin(kept)
  BY <1>5 DEF OnePin
<1> QED
  BY <1>1, <1>4, <1>6, <1>7 DEF kept

\* dedup_host_pins leaves one record per host, the newest.
LEMMA DedupLemma ==
  ASSUME NEW recs \in Seq(Record), CertOnce(recs)
  PROVE  /\ Dedup(recs) \in Seq(Record) /\ OnePin(Dedup(recs))
         /\ \A n \in DOMAIN Dedup(recs) :
              LET r == Dedup(recs)[n]
              IN  r.host \in DOMAIN NewestPins(recs) /\ NewestPins(recs)[r.host] = r.cert
         /\ Certs(Dedup(recs)) \subseteq Certs(recs)
<1> DEFINE keep == {i \in DOMAIN recs : \A j \in DOMAIN recs : j > i => recs[j].host # recs[i].host}
           kept == Retain(recs, keep)
           last(h) == CHOOSE i \in DOMAIN recs :
                        recs[i].host = h /\ \A j \in DOMAIN recs : recs[j].host = h => j <= i
<1>0. Dedup(recs) = kept
  BY DEF Dedup
<1>1. DOMAIN recs = 1..Len(recs) /\ Len(recs) \in Nat
  OBVIOUS
<1>2. keep \in SUBSET DOMAIN recs
  OBVIOUS
<1>3. /\ kept \in Seq(Record) /\ CertOnce(kept)
      /\ \A n \in DOMAIN kept : \E i \in keep : kept[n] = recs[i]
  BY <1>2, KeptRecords
<1>4. \A i \in keep : i \in DOMAIN recs
  OBVIOUS
<1>5. \A i, j \in keep : recs[i].host = recs[j].host => i = j
  BY <1>1
<1>6. ASSUME NEW i \in keep
      PROVE  last(recs[i].host) = i
  <2>1. \A j \in DOMAIN recs : recs[j].host = recs[i].host => j <= i
    BY <1>1
  <2>2. ASSUME NEW k \in DOMAIN recs, recs[k].host = recs[i].host,
               \A j \in DOMAIN recs : recs[j].host = recs[i].host => j <= k
        PROVE  k = i
    BY <1>1, <2>1, <2>2
  <2> QED
    BY <2>1, <2>2
<1>7. DOMAIN NewestPins(recs) = {recs[i].host : i \in DOMAIN recs}
  BY DEF NewestPins
<1>8. \A h \in DOMAIN NewestPins(recs) : NewestPins(recs)[h] = recs[last(h)].cert
  BY DEF NewestPins
<1> HIDE DEF kept, last, keep
<1>9. OnePin(kept)
  BY <1>3, <1>5 DEF OnePin, CertOnce
<1>10. ASSUME NEW n \in DOMAIN kept
       PROVE  kept[n].host \in DOMAIN NewestPins(recs) /\ NewestPins(recs)[kept[n].host] = kept[n].cert
  <2>1. PICK i \in keep : kept[n] = recs[i]
    BY <1>3
  <2>2. i \in DOMAIN recs
    BY <1>4
  <2>3. kept[n].host \in DOMAIN NewestPins(recs)
    BY <1>7, <2>1, <2>2
  <2>4. last(kept[n].host) = i
    BY <1>6, <2>1
  <2> QED
    BY <1>8, <2>1, <2>3, <2>4
<1>11. Certs(kept) \subseteq Certs(recs)
  BY <1>3, <1>4 DEF Certs
<1> QED
  BY <1>0, <1>3, <1>9, <1>10, <1>11

\* After accept the host's record is that of the certificate, which has no other
\* one, and every other record is one there was.
LEMMA AcceptedLemma ==
  ASSUME NEW recs \in Seq(Record), OnePin(recs), NEW cert \in Certificate, NEW h \in Host
  PROVE  /\ Accepted(recs, cert, h) \in Seq(Record) /\ OnePin(Accepted(recs, cert, h))
         /\ \A n \in DOMAIN Accepted(recs, cert, h) :
              LET r == Accepted(recs, cert, h)[n]
              IN  \/ r.host = h /\ r.cert = cert
                  \/ r.host # h /\ r.cert # cert /\ \E i \in DOMAIN recs : r = recs[i]
<1> DEFINE keep == {i \in DOMAIN recs : recs[i].cert = cert \/ recs[i].host # h}
           rest == Retain(recs, keep)
           all  == Accepted(recs, cert, h)
<1>0. keep \in SUBSET DOMAIN recs
  OBVIOUS
<1>1. /\ rest \in Seq(Record) /\ OnePin(rest)
      /\ \A n \in DOMAIN rest : \E i \in keep : rest[n] = recs[i]
  BY <1>0, KeptRecords
<1>2. \A n \in DOMAIN rest : rest[n].cert = cert \/ rest[n].host # h
  BY <1>1
<1>3. \A n \in DOMAIN rest : \E i \in DOMAIN recs : rest[n] = recs[i]
  BY <1>1
<1>4. all = IF cert \in Certs(rest)
            THEN [i \in DOMAIN rest |->
                    IF rest[i].cert = cert THEN [rest[i] EXCEPT !.host = h] ELSE rest[i]]
            ELSE Append(rest, [host |-> h, cert |-> cert])
  BY DEF Accepted
<1>5. \A n \in DOMAIN rest : rest[n] \in Record
  BY <1>1
<1>6. DOMAIN rest = 1..Len(rest) /\ Len(rest) \in Nat
  BY <1>1
<1> HIDE DEF rest, all, keep
<1>7. CASE cert \in Certs(rest)
  <2>1. DOMAIN all = DOMAIN rest
    BY <1>4, <1>7
  <2>2. ASSUME NEW n \in DOMAIN rest
        PROVE  /\ all[n] \in Record
               /\ rest[n].cert = cert => all[n].host = h /\ all[n].cert = cert
               /\ rest[n].cert # cert => all[n] = rest[n]
    <3>1. all[n] = IF rest[n].cert = cert THEN [rest[n] EXCEPT !.host = h] ELSE rest[n]
      BY <1>4, <1>7
    <3>2. rest[n] \in Record
      BY <1>5
    <3> QED
      BY <3>1, <3>2 DEF Record
  <2>3. all \in Seq(Record)
    <3>1. all \in [1..Len(rest) -> Record]
      BY <1>4, <1>6, <1>7, <2>2
    <3> QED
      BY <1>6, <3>1
  <2>4. ASSUME NEW i \in DOMAIN rest, NEW j \in DOMAIN rest,
               all[i].host = all[j].host \/ all[i].cert = all[j].cert
        PROVE  i = j
    <3>1. rest[i].cert = cert /\ rest[j].cert = cert => i = j
      BY <1>1 DEF OnePin
    <3>2. rest[i].cert # cert /\ rest[j].cert # cert => i = j
      BY <1>1, <2>2, <2>4 DEF OnePin
    <3>3. ~ (rest[i].cert = cert /\ rest[j].cert # cert)
      BY <1>2, <2>2, <2>4
    <3>4. ~ (rest[i].cert # cert /\ rest[j].cert = cert)
      BY <1>2, <2>2, <2>4
    <3> QED
      BY <3>1, <3>2, <3>3, <3>4
  <2>5. OnePin(all)
    BY <2>1, <2>4 DEF OnePin
  <2>6. \A n \in DOMAIN all :
          \/ all[n].host = h /\ all[n].cert = cert
          \/ all[n].host # h /\ all[n].cert # cert /\ \E i \in DOMAIN recs : all[n] = recs[i]
    BY <1>2, <1>3, <2>1, <2>2
  <2> QED
    BY <2>3, <2>5, <2>6 DEF all
<1>8. CASE cert \notin Certs(rest)
  <2> DEFINE new == [host |-> h, cert |-> cert]
  <2>1. new \in Record /\ new.host = h /\ new.cert = cert
    BY DEF Record
  <2>2. all = Append(rest, new)
    BY <1>4, <1>8
  <2> HIDE DEF new
  <2>3. all \in Seq(Record) /\ DOMAIN all = 1..(Len(rest) + 1)
    BY <1>1, <2>1, <2>2
  <2>4. \A n \in DOMAIN all : (n \in DOMAIN rest /\ all[n] = rest[n])
                              \/ (n = Len(rest) + 1 /\ all[n] = new)
    BY <1>1, <1>6, <2>1, <2>2, <2>3
  <2>5. \A n \in DOMAIN rest : rest[n].cert # cert /\ rest[n].host # h
    BY <1>2, <1>8 DEF Certs
  <2>6. OnePin(all)
    BY <1>1, <2>1, <2>4, <2>5 DEF OnePin
  <2>7. \A n \in DOMAIN all :
          \/ all[n].host = h /\ all[n].cert = cert
          \/ all[n].host # h /\ all[n].cert # cert /\ \E i \in DOMAIN recs : all[n] = recs[i]
    BY <1>3, <2>1, <2>4, <2>5
  <2> QED
    BY <2>3, <2>6, <2>7 DEF all
<1> QED
  BY <1>7, <1>8

\* What remove leaves are records the selector does not fit.
LEMMA WithoutLemma ==
  ASSUME NEW recs \in Seq(Record), OnePin(recs), NEW sel
  PROVE  /\ Without(recs, sel) \in Seq(Record) /\ OnePin(Without(recs, sel))
         /\ \A n \in DOMAIN Without(recs, sel) :
              \E i \in DOMAIN recs : /\ Without(recs, sel)[n] = recs[i]
                                     /\ ~ Matches(sel, recs[i].host, recs[i].cert)
<1> DEFINE keep == {i \in DOMAIN recs : ~ Matches(sel, recs[i].host, recs[i].cert)}
           rest == Retain(recs, keep)
<1>0. keep \in SUBSET DOMAIN recs
  OBVIOUS
<1>1. /\ rest \in Seq(Record) /\ OnePin(rest)
      /\ \A n \in DOMAIN rest : \E i \in keep : rest[n] = recs[i]
  BY <1>0, KeptRecords
<1>2. Without(recs, sel) = rest
  BY DEF Without
<1> QED
  BY <1>1, <1>2

-----------------------------------------------------------------------------
(* The records                                                             *)

\* What Start, accept and remove do to the records: whatever becomes of the file.
LEMMA SavedOrNot ==
  ASSUME RecordInv, records' \in Seq(Record), OnePin(records'),
         \A i \in DOMAIN records' :
           records'[i].host \in DOMAIN pinned' /\ pinned'[records'[i].host] = records'[i].cert,
         \A f \in strangers' : f \notin Certs(records'),
         \/ SaveOk
         \/ (SaveFails \/ UNCHANGED file) /\ \A f \in strangers' : f \in strangers
  PROVE  RecordInv'
<1>1. CASE SaveOk
  <2>1. file' = records' /\ CertOnce(records')
    BY <1>1 DEF SaveOk, OnePin, CertOnce
  <2> QED
    BY <2>1 DEF RecordInv, OnePin, CertOnce, Certs
<1>2. CASE (file' = file \/ file' = Torn) /\ \A f \in strangers' : f \in strangers
  BY <1>2 DEF RecordInv, OnePin, CertOnce, Certs
<1> QED
  BY <1>1, <1>2 DEF SaveFails

\* accept pins what it records and forgets that it was a stranger.
LEMMA RememberInv ==
  ASSUME RecordInv, NEW c \in Record, Remember(c), SaveOk \/ SaveFails
  PROVE  RecordInv'
<1> DEFINE cert == c.cert  h == c.host
<1>1. cert \in Certificate /\ h \in Host
  BY DEF Record
<1>2. /\ records' = Accepted(records, cert, h)
      /\ strangers' = strangers \ {cert}
      /\ pinned' = Insert(pinned, h, cert)
  BY DEF Remember
<1>3. records \in Seq(Record) /\ OnePin(records)
  BY DEF RecordInv
<1> HIDE DEF cert, h
<1>4. /\ records' \in Seq(Record) /\ OnePin(records')
      /\ \A n \in DOMAIN records' :
           \/ records'[n].host = h /\ records'[n].cert = cert
           \/ records'[n].host # h /\ records'[n].cert # cert /\ \E i \in DOMAIN records : records'[n] = records[i]
  BY <1>1, <1>2, <1>3, AcceptedLemma
<1>5. \A n \in DOMAIN records' :
        records'[n].host \in DOMAIN pinned' /\ pinned'[records'[n].host] = records'[n].cert
  BY <1>2, <1>4 DEF RecordInv, Insert
<1>6. \A f \in strangers' : f \notin Certs(records')
  BY <1>2, <1>4 DEF RecordInv, Certs
<1> QED
  BY <1>2, <1>4, <1>5, <1>6, SavedOrNot

\* load heals the file; what it trusts was in it.
LEMMA StartInv ==
  ASSUME RecordInv, Start
  PROVE  RecordInv'
<1>1. file \in Seq(Record) /\ CertOnce(file) /\ \A f \in strangers : f \notin Certs(file)
  BY DEF RecordInv, Start
<1>2. CASE /\ records' = Dedup(file)
           /\ IF records' = file THEN UNCHANGED file ELSE SaveOk
           /\ pinned' = NewestPins(file)
  <2>1. /\ records' \in Seq(Record) /\ OnePin(records')
        /\ \A n \in DOMAIN records' :
             records'[n].host \in DOMAIN pinned' /\ pinned'[records'[n].host] = records'[n].cert
        /\ Certs(records') \subseteq Certs(file)
    BY <1>1, <1>2, DedupLemma
  <2>2. strangers' = strangers
    BY DEF Start
  <2>3. SaveOk
    BY <1>2 DEF SaveOk
  <2> QED
    BY <1>1, <2>1, <2>2, <2>3, SavedOrNot
<1>3. CASE SaveFails /\ UNCHANGED <<records, pinned, strangers>>
  BY <1>3, SavedOrNot DEF RecordInv
<1> QED
  BY <1>2, <1>3 DEF Start

\* remove: those whose record is gone are strangers once the file says so.
LEMMA ForgetInv ==
  ASSUME RecordInv, NEW sel, Forget(sel)
  PROVE  RecordInv'
<1> DEFINE gone == Certs(records) \ Certs(records')
<1>1. /\ records' = Without(records, sel)
      /\ pinned' = [h \in {x \in DOMAIN pinned : x \notin sel.hosts /\ pinned[x] \notin gone} |->
                      pinned[h]]
      /\ \/ SaveOk /\ strangers' = strangers \cup gone
         \/ (SaveFails \/ UNCHANGED file) /\ strangers' = strangers
  BY DEF Forget
<1>2. records \in Seq(Record) /\ OnePin(records)
  BY DEF RecordInv
<1> HIDE DEF gone
<1>3. /\ records' \in Seq(Record) /\ OnePin(records')
      /\ \A n \in DOMAIN records' :
           \E i \in DOMAIN records : /\ records'[n] = records[i]
                                     /\ ~ Matches(sel, records[i].host, records[i].cert)
  BY <1>1, <1>2, WithoutLemma
<1>4. ASSUME NEW n \in DOMAIN records'
      PROVE  records'[n].host \in DOMAIN pinned' /\ pinned'[records'[n].host] = records'[n].cert
  <2>1. PICK i \in DOMAIN records : /\ records'[n] = records[i]
                                    /\ ~ Matches(sel, records[i].host, records[i].cert)
    BY <1>3
  <2>2. records[i].host \in DOMAIN pinned /\ pinned[records[i].host] = records[i].cert
    BY DEF RecordInv
  <2>3. records[i].host \notin sel.hosts
    BY <2>1 DEF Matches
  <2>4. records[i].cert \notin gone
    BY <2>1 DEF gone, Certs
  <2> QED
    BY <1>1, <2>1, <2>2, <2>3, <2>4
<1>5. Certs(records') \subseteq Certs(records) /\ gone \cap Certs(records') = {}
  BY <1>3 DEF Certs, gone
<1>6. \A f \in strangers' : f \notin Certs(records')
  BY <1>1, <1>5 DEF RecordInv
<1> QED
  BY <1>1, <1>3, <1>4, <1>6, SavedOrNot

\* No other step changes what is recorded.
LEMMA OtherRecordInv ==
  ASSUME RecordInv, UNCHANGED <<records, file, strangers, pinned>>
  PROVE  RecordInv'
  BY DEF RecordInv, OnePin, CertOnce, Certs

-----------------------------------------------------------------------------
(* The sessions                                                            *)

\* What an accepted peer's connection gets is its due: it is no stranger.
LEMMA RememberSessions ==
  ASSUME SessionInv, NEW c, Remember(c), ending' = ending,
         links' = links \/ Establish(c),
         passed' = passed \/ passed' = passed \cup {c}
  PROVE  SessionInv'
<1>1. strangers' = strangers \ {c.cert} /\ outlived' = outlived \ {c.cert}
  BY DEF Remember
<1>2. DOMAIN links' \subseteq DOMAIN links \cup {c.cert}
  BY DEF Establish, Insert
<1> QED
  BY <1>1, <1>2 DEF SessionInv

\* A removal that was confirmed accounts for every session and request it leaves.
LEMMA ForgetSessions ==
  ASSUME SessionInv, NEW sel, Forget(sel)
  PROVE  SessionInv'
<1> DEFINE gone == Certs(records) \ Certs(records')
<1>1. /\ links' = links /\ ending' = ending /\ passed' = passed
      /\ \/ /\ strangers' = strangers \cup gone
            /\ outlived' = outlived \cup
                 (gone \cap ((DOMAIN links \ ending) \cup {x.cert : x \in passed}))
         \/ strangers' = strangers /\ outlived' = outlived
  BY DEF Forget, open, sessions
<1> HIDE DEF gone
<1> QED
  BY <1>1 DEF SessionInv

\* A session ends, a request is taken up, or nothing that counts changes.
LEMMA OtherSessions ==
  ASSUME SessionInv, strangers' = strangers,
         \/ UNCHANGED <<links, ending, outlived, passed>>
         \/ \E f : End(f)
         \/ \E c : EstablishInbound(c)
         \/ \E sel : RemovePeer(sel)
         \/ \E h, f : RecordInv /\ Inbound(h, f)
  PROVE  SessionInv'
<1>1. CASE UNCHANGED <<links, ending, outlived, passed>>
  BY <1>1 DEF SessionInv
<1>2. ASSUME NEW f, End(f)
      PROVE  SessionInv'
  <2>1. /\ DOMAIN links' = DOMAIN links \ {f} /\ ending' = ending \ {f}
        /\ passed' = passed
        /\ outlived' = outlived \ {x \in {f} : \A c \in passed : c.cert # f}
    BY <1>2 DEF End, Remove, open
  <2>2. \A g \in strangers' \cap DOMAIN links' : g \in ending' \cup outlived'
    BY <2>1 DEF SessionInv
  <2>3. \A c \in passed' : c.cert \in strangers' => c.cert \in outlived'
    BY <2>1 DEF SessionInv
  <2> QED
    BY <2>2, <2>3 DEF SessionInv
<1>3. ASSUME NEW c, EstablishInbound(c)
      PROVE  SessionInv'
  <2>1. /\ c \in passed /\ passed' \subseteq passed
        /\ DOMAIN links' \subseteq DOMAIN links \cup {c.cert}
        /\ ending' = ending /\ outlived' = outlived
    BY <1>3 DEF EstablishInbound, Establish, Insert, history
  <2> QED
    BY <2>1 DEF SessionInv
<1>4. ASSUME NEW sel, RemovePeer(sel)
      PROVE  SessionInv'
  <2>1. /\ links' = links /\ passed' = passed /\ outlived' = outlived
        /\ \A f \in ending : f \in ending'
    BY <1>4 DEF RemovePeer, open, history
  <2> QED
    BY <2>1 DEF SessionInv
<1>5. ASSUME NEW h, NEW f, RecordInv, Inbound(h, f)
      PROVE  SessionInv'
  <2>1. links' = links /\ ending' = ending /\ outlived' = outlived
    BY <1>5 DEF Inbound, sessions, history
  <2>2. \/ passed' = passed
        \/ passed' = passed \cup {[host |-> h, cert |-> f]} /\ f \in Certs(records)
    BY <1>5 DEF Inbound, IsTrusted
  <2>3. f \in Certs(records) => f \notin strangers
    BY <1>5 DEF RecordInv
  <2>4. [host |-> h, cert |-> f].cert = f
    OBVIOUS
  <2> QED
    BY <2>1, <2>2, <2>3, <2>4 DEF SessionInv
<1> QED
  BY <1>1, <1>2, <1>3, <1>4, <1>5

-----------------------------------------------------------------------------
\* A daemon that never ran remembers nobody; the file's peers are no strangers.
LEMMA InitTrust == Init => TrustInv
<1> SUFFICES ASSUME Init PROVE TrustInv
  OBVIOUS
<1>1. records = <<>> /\ records \in Seq(Record) /\ DOMAIN records = {}
  BY DEF Init
<1>2. file \in Seq(Record) /\ CertOnce(file)
  BY LegacyAssumption DEF Init, CertOnce
<1>3. strangers \cap Certs(file) = {}
  BY DEF Init
<1>4. DOMAIN links = {} /\ passed = {}
  BY DEF Init, EmptyMap
<1> QED
  BY <1>1, <1>2, <1>3, <1>4 DEF TrustInv, RecordInv, SessionInv, OnePin, Certs

LEMMA NextTrust == TrustInv /\ [Next]_vars => TrustInv'
<1> SUFFICES ASSUME TrustInv, [Next]_vars PROVE TrustInv'
  OBVIOUS
<1> USE DEF TrustInv
<1>1. CASE Start
  <2>1. UNCHANGED <<links, ending, outlived, passed, strangers>>
    BY <1>1 DEF Start, open, sessions
  <2> QED
    BY <1>1, <2>1, StartInv, OtherSessions
<1>2. CASE Exit
  <2>1. UNCHANGED <<records, file, strangers, pinned>> /\ DOMAIN links' = {} /\ passed' = {}
    BY <1>2 DEF Exit, EmptyMap
  <2> QED
    BY <2>1, OtherRecordInv DEF SessionInv
<1>3. ASSUME NEW h \in Host, NEW f \in Certificate, Dial(h, f) \/ Inbound(h, f)
      PROVE  TrustInv'
  <2>1. UNCHANGED <<records, file, strangers, pinned>>
    BY <1>3 DEF Dial, Inbound, history
  <2>2. Dial(h, f) => UNCHANGED <<links, ending, outlived, passed>>
    BY DEF Dial, sessions, history
  <2> QED
    BY <1>3, <2>1, <2>2, OtherRecordInv, OtherSessions
<1>4. ASSUME NEW c \in Record, DialAccepted(c) \/ Approve(c)
      PROVE  TrustInv'
  <2>1. Remember(c) /\ (SaveOk \/ SaveFails) /\ ending' = ending
    BY <1>4 DEF DialAccepted, Approve, sessions
  <2>2. (links' = links \/ Establish(c)) /\ (passed' = passed \/ passed' = passed \cup {c})
    BY <1>4 DEF DialAccepted, Approve, sessions
  <2> QED
    BY <2>1, <2>2, RememberInv, RememberSessions
<1>5. ASSUME NEW c \in Record, DialRefused(c) \/ Decline(c) \/ EstablishInbound(c)
      PROVE  TrustInv'
  <2>1. UNCHANGED <<records, file, strangers, pinned>>
    BY <1>5 DEF DialRefused, Decline, EstablishInbound, history
  <2>2. DialRefused(c) \/ Decline(c) => UNCHANGED <<links, ending, outlived, passed>>
    BY DEF DialRefused, Decline, sessions, history
  <2> QED
    BY <1>5, <2>1, <2>2, OtherRecordInv, OtherSessions
<1>6. ASSUME NEW f \in Certificate, End(f)
      PROVE  TrustInv'
  BY <1>6, OtherRecordInv, OtherSessions DEF End
<1>7. ASSUME NEW sel \in Selector, RemovePeer(sel)
      PROVE  TrustInv'
  BY <1>7, OtherRecordInv, OtherSessions DEF RemovePeer, history
<1>8. ASSUME NEW sel \in Selector, Forget(sel)
      PROVE  TrustInv'
  BY <1>8, ForgetInv, ForgetSessions
<1>9. CASE UNCHANGED vars
  BY <1>9, OtherRecordInv, OtherSessions DEF vars
<1> QED
  BY <1>1, <1>2, <1>3, <1>4, <1>5, <1>6, <1>7, <1>8, <1>9 DEF Next

LEMMA AlwaysTrust == Spec => []TrustInv
  BY InitTrust, NextTrust, PTL DEF Spec

\* A host has one certificate and a certificate one record, whatever was in the
\* file and in whatever order peers are dialed, approved and removed (accept,
\* remove, dedup_host_pins).
THEOREM OnePinPerHostAlways == Spec => []OnePinPerHost
<1>1. TrustInv => OnePinPerHost
  BY DEF TrustInv, RecordInv, OnePin, OnePinPerHost
<1> QED
  BY <1>1, AlwaysTrust, PTL

\* What a dial of a host expects is the certificate accepted last for it
\* (accept, pinned_for_host, load).
THEOREM NewestPinAlwaysCounts == Spec => []NewestPinCounts
<1>1. TrustInv => NewestPinCounts
  BY DEF TrustInv, RecordInv, NewestPinCounts, PinnedFor
<1> QED
  BY <1>1, AlwaysTrust, PTL

\* A peer whose removal was confirmed is a stranger until it is accepted again,
\* through saves that fail, restarts and files left half written (remove, save,
\* load).
THEOREM ForgottenForGood == Spec => []ForgottenStaysForgotten
<1>1. TrustInv => ForgottenStaysForgotten
  BY DEF TrustInv, RecordInv, ForgottenStaysForgotten, IsTrusted
<1> QED
  BY <1>1, AlwaysTrust, PTL

\* A stranger has no session but one that is ending or that its removal missed
\* (decide_inbound, establish, `omni peers remove').
THEOREM NobodyComesUninvited == Spec => []NoUninvitedSession
<1>1. TrustInv => NoUninvitedSession
  BY DEF TrustInv, SessionInv, NoUninvitedSession
<1> QED
  BY <1>1, AlwaysTrust, PTL
=============================================================================
