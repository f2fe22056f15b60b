------------------------------- MODULE Trust --------------------------------
(***************************************************************************)
(* The trust state of one daemon and what relies on it: the records of     *)
(* accepted peers, in memory and in the trust file, the check a dialed     *)
(* host's certificate is put to, the decision on an inbound peer, the      *)
(* sessions, and `omni peers remove'.                                      *)
(*                                                                         *)
(* A peer is its certificate's fingerprint, which also names its machine;  *)
(* the host it is reached at or calls from is another matter: one machine  *)
(* has several names and addresses, and an address changes hands.          *)
(***************************************************************************)
EXTENDS Maps, Lists

CONSTANTS
  Certificate,   \* certificates, by their fingerprints
  Host,          \* names and addresses
  TypedPrefix,   \* sets of fingerprints that share a prefix somebody types
  Legacy,        \* trust files earlier versions may have left
  Torn,          \* a file a write left half done, which does not parse
  MaxOpen,       \* bound: connections that wait for an answer
  DiskFails      \* TRUE: writing the file may fail

ASSUME TypedPrefixAssumption == TypedPrefix \subseteq SUBSET Certificate
ASSUME MaxOpenAssumption == MaxOpen \in Nat
ASSUME DiskFailsAssumption == DiskFails \in BOOLEAN

VARIABLES
  up,         \* the daemon runs
  records,    \* TrustFile::peers in memory, oldest first
  file,       \* the trust file: the records in it, or Torn
  dials,      \* outbound connections waiting for the peer's answer
  asked,      \* inbound requests waiting for a person's answer
  passed,     \* inbound requests found trusted or approved, before establish
  links,      \* sessions: fingerprint -> host
  ending,     \* the sessions told to disconnect
  removing,   \* the selectors whose removal is half done
  strangers,  \* history: fingerprints never accepted, or removed with an Ok since
  outlived,   \* history: those whose session or request outlived their removal
  pinned      \* history: host -> the fingerprint accepted for it last

vars == <<up, records, file, dials, asked, passed, links, ending, removing, strangers,
          outlived, pinned>>
history == <<strangers, outlived, pinned>>
open == <<dials, asked, passed>>
sessions == <<links, ending>>

Record == [host : Host, cert : Certificate]

\* A selector is a host, or a prefix that some fingerprints share.
Selector ==
  {[hosts |-> {h}, certs |-> {}] : h \in Host}
    \cup {[hosts |-> {}, certs |-> ps] : ps \in TypedPrefix}

Matches(sel, host, cert) == host \in sel.hosts \/ cert \in sel.certs

Certs(recs) == {recs[i].cert : i \in DOMAIN recs}

\* Earlier versions left several records for one host, but accept has to look a
\* certificate up before it adds a record: no file names one twice.
ASSUME LegacyAssumption ==
  \A recs \in Legacy :
    /\ recs \in Seq(Record)
    /\ \A i, j \in DOMAIN recs : recs[i].cert = recs[j].cert => i = j

ASSUME TornAssumption == Torn \notin Seq(Record)

-----------------------------------------------------------------------------
(* TrustState                                                              *)

\* Mutant: the oldest record of a host wins.
DedupOldest(recs) ==
  Retain(recs, {i \in DOMAIN recs : \A j \in DOMAIN recs : j < i => recs[j].host # recs[i].host})

\* dedup_host_pins: the newest record of each host, in the order they had.
Dedup(recs) ==
  Retain(recs, {i \in DOMAIN recs : \A j \in DOMAIN recs : j > i => recs[j].host # recs[i].host})

\* decide_inbound through evaluate(): on the allowlist, and the pin matches.
IsTrusted(recs, cert) == cert \in Certs(recs)

\* pinned_for_host, as a set of at most one: the first record of the host.
PinnedFor(recs, h) ==
  LET is == {i \in DOMAIN recs : recs[i].host = h}
  IN  {recs[i].cert : i \in {x \in is : \A y \in is : x <= y}}

\* What a reader of the records makes of them: the last word on a host counts.
NewestPins(recs) ==
  [h \in {recs[i].host : i \in DOMAIN recs} |->
     recs[CHOOSE i \in DOMAIN recs :
            recs[i].host = h /\ \A j \in DOMAIN recs : recs[j].host = h => j <= i].cert]

\* authorize_server
Authorized(recs, h, cert) == PinnedFor(recs, h) \subseteq {cert}

\* Mutant: other certificates keep their claim on the host.
AcceptedBeside(recs, cert, h) ==
  IF cert \in Certs(recs)
  THEN [i \in DOMAIN recs |->
          IF recs[i].cert = cert THEN [recs[i] EXCEPT !.host = h] ELSE recs[i]]
  ELSE Append(recs, [host |-> h, cert |-> cert])

\* accept: whoever else claimed the host loses its record, trust and all.
Accepted(recs, cert, h) ==
  LET rest == Retain(recs, {i \in DOMAIN recs : recs[i].cert = cert \/ recs[i].host # h}) IN
  IF cert \in Certs(rest)
  THEN [i \in DOMAIN rest |->
          IF rest[i].cert = cert THEN [rest[i] EXCEPT !.host = h] ELSE rest[i]]
  ELSE Append(rest, [host |-> h, cert |-> cert])

\* remove
Without(recs, sel) ==
  Retain(recs, {i \in DOMAIN recs : ~ Matches(sel, recs[i].host, recs[i].cert)})

\* save, under the lock of the trust state; std::fs::write empties the file first.
SaveOk == file' = records'
SaveFails == DiskFails /\ file' \in {file, Torn}

-----------------------------------------------------------------------------
(* The daemon starts and ends                                              *)

Init ==
  /\ up = FALSE
  /\ records = <<>>
  /\ file \in Legacy
  /\ dials = {} /\ asked = {} /\ passed = {}
  /\ links = EmptyMap /\ ending = {}
  /\ removing = {}
  /\ strangers = Certificate \ Certs(file)
  /\ outlived = {}
  /\ pinned = EmptyMap

\* TrustState::load: duplicates go, and if there were any the file is rewritten.
\* A file that does not parse, or cannot be rewritten, ends the start.
Start ==
  /\ ~ up /\ file # Torn
  /\ \/ /\ records' = Dedup(file)
        /\ IF records' = file THEN UNCHANGED file ELSE SaveOk
        /\ up' = TRUE
        /\ pinned' = NewestPins(file)
     \/ /\ Dedup(file) # file
        /\ SaveFails
        /\ UNCHANGED <<up, records, pinned>>
  /\ UNCHANGED <<open, sessions, removing, strangers, outlived>>

\* A stop or a crash; every session and request goes with the process.
Exit ==
  /\ up
  /\ up' = FALSE
  /\ dials' = {} /\ asked' = {} /\ passed' = {}
  /\ links' = EmptyMap /\ ending' = {}
  /\ removing' = {}
  /\ outlived' = {}
  /\ UNCHANGED <<records, file, strangers, pinned>>

-----------------------------------------------------------------------------
(* do_connect                                                              *)

CanOpen == Cardinality(dials) + Cardinality(asked) + Cardinality(passed) < MaxOpen

\* The TLS handshake with the machine that answers at h.
Dial(h, f) ==
  /\ up /\ CanOpen
  /\ Authorized(records, h, f)
  /\ dials' = dials \cup {[host |-> h, cert |-> f]}
  /\ UNCHANGED <<up, records, file, asked, passed, sessions, removing, history>>

Remember(c) ==
  /\ records' = Accepted(records, c.cert, c.host)
  /\ strangers' = strangers \ {c.cert}
  /\ outlived' = outlived \ {c.cert}
  /\ pinned' = Insert(pinned, c.host, c.cert)

\* establish, which refuses a second session with a machine.
Establish(c) ==
  links' = IF c.cert \in DOMAIN links THEN links ELSE Insert(links, c.cert, c.host)

\* The peer says Accept: pin it for the host, then establish.  Without the file
\* written there is no session.
DialAccepted(c) ==
  /\ c \in dials
  /\ dials' = dials \ {c}
  /\ Remember(c)
  /\ \/ SaveOk /\ Establish(c)
     \/ SaveFails /\ UNCHANGED links
  /\ UNCHANGED <<up, asked, passed, ending, removing>>

DialRefused(c) ==
  /\ c \in dials
  /\ dials' = dials \ {c}
  /\ UNCHANGED <<up, records, file, asked, passed, sessions, removing, history>>

-----------------------------------------------------------------------------
(* handle_incoming                                                         *)

\* Mutant: the host's record vouches for whoever calls from it.
InboundByHost(h, f) ==
  /\ up /\ CanOpen
  /\ IF PinnedFor(records, h) # {}
     THEN passed' = passed \cup {[host |-> h, cert |-> f]} /\ UNCHANGED asked
     ELSE asked' = asked \cup {[host |-> h, cert |-> f]} /\ UNCHANGED passed
  /\ UNCHANGED <<up, records, file, dials, sessions, removing, history>>

Inbound(h, f) ==
  /\ up /\ CanOpen
  /\ IF IsTrusted(records, f)
     THEN passed' = passed \cup {[host |-> h, cert |-> f]} /\ UNCHANGED asked
     ELSE asked' = asked \cup {[host |-> h, cert |-> f]} /\ UNCHANGED passed
  /\ UNCHANGED <<up, records, file, dials, sessions, removing, history>>

\* `omni accept', and the task that wakes up with it; a failure to save is only
\* logged.
Approve(c) ==
  /\ c \in asked
  /\ asked' = asked \ {c}
  /\ Remember(c)
  /\ SaveOk \/ SaveFails
  /\ passed' = passed \cup {c}
  /\ UNCHANGED <<up, dials, sessions, removing>>

Decline(c) ==
  /\ c \in asked
  /\ asked' = asked \ {c}
  /\ UNCHANGED <<up, records, file, dials, passed, sessions, removing, history>>

EstablishInbound(c) ==
  /\ c \in passed
  /\ passed' = passed \ {c}
  /\ Establish(c)
  /\ UNCHANGED <<up, records, file, dials, asked, ending, removing, history>>

\* The session ends: it was told to, or the peer left.
End(f) ==
  /\ f \in DOMAIN links
  /\ links' = Remove(links, f)
  /\ ending' = ending \ {f}
  /\ outlived' = outlived \ {x \in {f} : \A c \in passed : c.cert # f}
  /\ UNCHANGED <<up, records, file, open, removing, strangers, pinned>>

-----------------------------------------------------------------------------
(* `omni peers remove'                                                     *)

\* First, under the daemon's lock: one of the sessions the selector fits is told
\* to disconnect.
RemovePeer(sel) ==
  /\ up /\ removing = {}
  /\ removing' = {sel}
  /\ LET fits == {f \in DOMAIN links : Matches(sel, links[f], f)} IN
     \/ fits = {} /\ UNCHANGED ending
     \/ \E f \in fits : ending' = ending \cup {f}
  /\ UNCHANGED <<up, records, file, open, links, history>>

\* Mutant: the file is left alone.
ForgetInMemory(sel) ==
  /\ sel \in removing
  /\ removing' = removing \ {sel}
  /\ records' = Without(records, sel)
  /\ strangers' = strangers \cup (Certs(records) \ Certs(records'))
  /\ UNCHANGED <<up, file, open, sessions, outlived, pinned>>

\* Then, without it: every record the selector fits goes.
Forget(sel) ==
  /\ sel \in removing
  /\ removing' = removing \ {sel}
  /\ records' = Without(records, sel)
  /\ LET gone == Certs(records) \ Certs(records') IN
     /\ pinned' = [h \in {x \in DOMAIN pinned : x \notin sel.hosts /\ pinned[x] \notin gone} |->
                     pinned[h]]
     /\ \/ /\ gone # {} /\ SaveOk
           /\ strangers' = strangers \cup gone
           /\ outlived' = outlived \cup
                (gone \cap ((DOMAIN links \ ending) \cup {c.cert : c \in passed}))
        \/ gone # {} /\ SaveFails /\ UNCHANGED <<strangers, outlived>>
        \/ gone = {} /\ UNCHANGED <<file, strangers, outlived>>
  /\ UNCHANGED <<up, open, sessions>>

Next ==
  \/ Start \/ Exit
  \/ \E h \in Host, f \in Certificate : Dial(h, f) \/ Inbound(h, f)
  \/ \E c \in Record : \/ DialAccepted(c) \/ DialRefused(c)
                       \/ Approve(c) \/ Decline(c) \/ EstablishInbound(c)
  \/ \E f \in Certificate : End(f)
  \/ \E sel \in Selector : RemovePeer(sel) \/ Forget(sel)

Spec == Init /\ [][Next]_vars

-----------------------------------------------------------------------------
(* Properties                                                              *)

\* A host has one certificate and a certificate one record, whatever an earlier
\* version left in the file and in whatever order peers are dialed, approved and
\* removed: no stale record shadows the current one.
OnePinPerHost ==
  \A i, j \in DOMAIN records :
    records[i].host = records[j].host \/ records[i].cert = records[j].cert => i = j

\* The newest certificate accepted for a host is the one a dial of it expects:
\* the host's record, if it still has one, names no other.
NewestPinCounts ==
  \A h \in Host : \A f \in PinnedFor(records, h) : h \in DOMAIN pinned /\ pinned[h] = f

\* A peer whose removal was confirmed is trusted again only once it is accepted
\* again: neither a later save nor a restart brings it back.
ForgottenStaysForgotten ==
  /\ \A f \in strangers : ~ IsTrusted(records, f)
  /\ file # Torn => strangers \cap Certs(file) = {}

\* Nobody gets a session who has not been accepted, wherever it calls from.  What
\* a removal may leave is a session it did not find, or a request that had passed
\* the check already; the removed peer gets no other one, and all else it has is
\* about to end.
NoUninvitedSession == strangers \cap DOMAIN links \subseteq ending \cup outlived
=============================================================================
