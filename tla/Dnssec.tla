------------------------------- MODULE Dnssec -------------------------------
(***************************************************************************)
(* DNSSEC validation of one response at a time: the signers named in it    *)
(* are taken in any order, each signer's keys are traced through DS and    *)
(* DNSKEY fetches to a trust anchor, and the RRsets, or for an empty       *)
(* answer the NSEC or NSEC3 records, are verified with them.               *)
(*                                                                         *)
(* A name is the sequence of its labels from the root; labels are numbers  *)
(* in canonical order and Star is the least.  Keys are opaque and a        *)
(* signature says who made it, over which data of which owner: the name it *)
(* stands at, or the wildcard that was expanded to it.  Hash orders names  *)
(* for NSEC3 under each salt.                                              *)
(***************************************************************************)
EXTENDS Naturals, Sequences, FiniteSets, SequencesExt, FiniteSetsExt

CONSTANTS
  Absent,
  Enabled,       \* dnssec.enabled
  Anchors,       \* keys of load_trust_anchors
  Hash,          \* salt -> name -> number
  Responses,     \* what an upstream may answer
  Honest,        \* ... those a server of the zone composes
  Agreeing,      \* ... those that agree with the zone's data
  Contents,      \* zone -> the RRsets it signs
  KeyReplies,    \* zone -> replies to its DNSKEY query (Absent: no reply)
  DsReplies,     \* zone -> replies to its DS query
  MaxRequests    \* bound: requests served in a behaviour, all for one response
                 \* (validations of different responses share no state)

VARIABLES
  request,    \* [checkingDisabled, dnssecOk, response], or Absent
  signers,    \* zones not yet tried
  path,       \* zones whose keys are being validated, the signer first
  keys,       \* keys validated last (the zone below the path), or Absent
  outcome,    \* Absent until the client is answered
  verdicts,   \* dnssec_validation_cache: response -> verdict
  badCache,   \* responses whose key is answered from bad_cache
  served,     \* requests so far
  strayed     \* a reply of this walk was not what its zone publishes

vars == <<request, signers, path, keys, outcome, verdicts, badCache, served, strayed>>

Star == 0
Secure == "secure"
Insecure == "insecure"
Bogus == "bogus"
-----------------------------------------------------------------------------
(* Signatures *)

AllRecords(m) == m.answer \cup ToSet(m.authority) \cup m.additional

\* collect_rrset_records, collect_rrsig_records, find_zone_signers
RRset(m, n, t) == {r \in AllRecords(m) : r.name = n /\ r.type = t}
Sigs(m, n, t) == {s \in m.sigs : s.name = n /\ s.covers = t}
SignersOf(m) == {s.by.zone : s \in m.sigs}

\* A signature at n made for n itself or for a wildcard above it.
MadeFor(source, n) ==
  \/ source = n
  \/ Len(source) \in 1..Len(n) /\ Last(source) = Star /\ IsPrefix(Front(source), n)

DataOf(m, n, t) == {r.data : r \in RRset(m, n, t)}

\* verify_rrset
Verified(m, n, t, candidates) ==
  /\ RRset(m, n, t) # {}
  /\ \E s \in Sigs(m, n, t) :
       s.current /\ s.by \in candidates /\ MadeFor(s.source, n) /\ s.over = DataOf(m, n, t)

\* response_has_dnssec_records; with the denial types, response_contains_dnssec_material.
HasTypes(m, types) ==
  m.sigs # {} \/ \E r \in AllRecords(m) : r.type \in types
-----------------------------------------------------------------------------
(* Names *)

\* Canonical order, a name before what is below it.
Less(a, b) ==
  \E k \in 0..Len(a) :
    /\ k < Len(b) /\ \A i \in 1..k : a[i] = b[i]
    /\ k = Len(a) \/ a[k + 1] < b[k + 1]

TrimTo(n, k) == SubSeq(n, 1, IF k > Len(n) THEN Len(n) ELSE k)

NextCloser(n, encloser) ==
  TrimTo(n, Len(encloser) + (IF Len(n) > Len(encloser) THEN 1 ELSE 0))

Wildcard(n) == Append(n, Star)

\* nsec_covers_name
NsecCovers(r, n) ==
  /\ Less(r.name, n)
  /\ \/ Less(r.name, r.data.next) /\ Less(n, r.data.next)
     \/ Less(r.data.next, r.name)

\* nsec3_covers_hash; the owner's first label is a hash.
OwnerHash(r) == Last(r.name)
Nsec3Covers(r, h) ==
  \/ OwnerHash(r) < r.data.next /\ OwnerHash(r) < h /\ h < r.data.next
  \/ OwnerHash(r) > r.data.next /\ (h > OwnerHash(r) \/ h < r.data.next)
-----------------------------------------------------------------------------
(* Denial of existence.  A step of the proof yields a verdict or Absent. *)

Lacks(r, types) == r.data.types \cap types = {}

Proofs(m, t) == SelectSeq(m.authority, LAMBDA r : r.type = t)

\* verified_nsec_records: unsigned ones are skipped, an invalid one is fatal.
UsableProofs(m, t) == SelectSeq(Proofs(m, t), LAMBDA r : Sigs(m, r.name, t) # {})
Invalid(m, t, ks) == \E r \in ToSet(UsableProofs(m, t)) : ~Verified(m, r.name, t, ks)

\* authority_delegation_name
DelegationName(m) ==
  LET ns == SelectSeq(m.authority, LAMBDA r : r.type = "NS")
  IN IF ns = <<>> THEN Absent ELSE ns[1].name

IsReferral(m) ==
  DelegationName(m) # Absent /\ \A r \in ToSet(m.authority) : r.type # "SOA"

\* Whether the delegation is proved unsigned by a record that matches it.
Unsigned(r) == "NS" \in r.data.types /\ Lacks(r, {"DS", "SOA"})

ReferralNsec(m, ks) ==
  IF Invalid(m, "NSEC", ks) THEN Bogus
  ELSE IF \E r \in ToSet(UsableProofs(m, "NSEC")) : r.name = DelegationName(m) /\ Unsigned(r)
  THEN Insecure ELSE Absent

NodataNsec(m, ks) ==
  LET R == ToSet(UsableProofs(m, "NSEC"))
      q == m.question.name
      none(r) == Lacks(r, {m.question.type, "CNAME"})
      expands(r) == /\ Last(<<Absent>> \o r.name) = Star
                    /\ \E c \in R : NsecCovers(c, NextCloser(q, Front(r.name)))
  IN IF Invalid(m, "NSEC", ks) THEN Bogus
     ELSE IF \E r \in R : none(r) /\ (r.name = q \/ expands(r)) THEN Secure ELSE Absent

NxdomainNsec(m, ks) ==
  LET R == ToSet(UsableProofs(m, "NSEC"))
      q == m.question.name
      matched == {k \in 0..Len(q) : \E r \in R : r.name = TrimTo(q, k)}
      covered(n) == \E r \in R : NsecCovers(r, n)
  IN IF Invalid(m, "NSEC", ks) THEN Bogus
     ELSE IF covered(q) /\ matched # {} /\ covered(Wildcard(TrimTo(q, Max(matched))))
     THEN Secure ELSE Absent

\* The salt of the first record serves for all.
SaltOf(R) == R[1].data.salt
Matching(R, n) == {r \in ToSet(R) : OwnerHash(r) = Hash[SaltOf(R)][n]}

\* find_nsec3_closest_encloser_proof: <<closest encloser, opt-out>>
EncloserProof(R, n) ==
  LET covering(k) == SelectSeq(R, LAMBDA r :
                       Nsec3Covers(r, Hash[SaltOf(R)][NextCloser(n, TrimTo(n, k))]))
      ks == {k \in 0..(Len(n) - 1) : Matching(R, TrimTo(n, k)) # {} /\ covering(k) # <<>>}
  IN IF ks = {} THEN Absent
     ELSE <<TrimTo(n, Max(ks)), covering(Max(ks))[1].data.optOut>>

ReferralNsec3(m, ks) ==
  LET R == UsableProofs(m, "NSEC3")
      p == EncloserProof(R, DelegationName(m))
  IN IF Invalid(m, "NSEC3", ks) THEN Bogus
     ELSE IF R = <<>> THEN Absent
     ELSE IF \E r \in Matching(R, DelegationName(m)) : Unsigned(r) THEN Insecure
     ELSE IF p # Absent /\ p[2] THEN Insecure ELSE Absent

NodataNsec3(m, ks) ==
  LET R == UsableProofs(m, "NSEC3")
      q == m.question
      none(r) == Lacks(r, {q.type, "CNAME"})
      p == EncloserProof(R, q.name)
  IN IF Invalid(m, "NSEC3", ks) THEN Bogus
     ELSE IF R = <<>> THEN Absent
     ELSE IF \E r \in Matching(R, q.name) : none(r) THEN Secure
     ELSE IF p = Absent THEN Absent
     ELSE IF q.type = "DS" /\ p[2] THEN Insecure
     ELSE IF \E r \in Matching(R, Wildcard(p[1])) : none(r) THEN Secure ELSE Absent

NxdomainNsec3(m, ks) ==
  LET R == UsableProofs(m, "NSEC3")
      p == EncloserProof(R, m.question.name)
      h == Hash[SaltOf(R)][Wildcard(p[1])]
  IN IF Invalid(m, "NSEC3", ks) THEN Bogus
     ELSE IF R # <<>> /\ p # Absent /\ (\E r \in ToSet(R) : Nsec3Covers(r, h))
     THEN Secure ELSE Absent

Either(first, second) == IF first # Absent THEN first ELSE second

\* validate_negative_response
Negative(m, ks) ==
  CASE m.answer # {} -> Absent
    [] m.answer = {} /\ m.rcode = "noerror" ->
         Either(IF IsReferral(m) THEN Either(ReferralNsec(m, ks), ReferralNsec3(m, ks)) ELSE Absent,
                Either(NodataNsec(m, ks), NodataNsec3(m, ks)))
    [] m.answer = {} /\ m.rcode = "nxdomain" -> Either(NxdomainNsec(m, ks), NxdomainNsec3(m, ks))
    [] OTHER -> Absent

\* verify_message_rrsets: one signed answer RRset that verifies is enough,
\* one that does not is fatal, unsigned ones do not count.
Verify(m, ks) ==
  LET signed == {r \in m.answer : Sigs(m, r.name, r.type) # {}}
  IN IF \E r \in signed : ~Verified(m, r.name, r.type, ks) THEN Bogus
     ELSE IF signed # {} THEN Secure
     ELSE Either(Negative(m, ks),
                 IF HasTypes(m, {"DNSKEY", "DS", "NSEC", "NSEC3"}) THEN Bogus ELSE Insecure)
-----------------------------------------------------------------------------
(* Keys and what vouches for them *)

KeysIn(m, z) == {r.data : r \in RRset(m, z, "DNSKEY")}

SelfSigned(m, z) == Verified(m, z, "DNSKEY", KeysIn(m, z))

\* verify_dnskey_with_ds
NamesKey(reply, z, own) == {r.data : r \in RRset(reply, z, "DS")} \cap own # {}


\* Whether a DS reply, verified with the parent's keys, vouches for those of z.
Vouches(reply, ks, z, own) == Verified(reply, z, "DS", ks) /\ NamesKey(reply, z, own)

Published(replies) == {r \in replies \ {Absent} : r.published}
PublishedKeys(z) == {KeysIn(r, z) : r \in Published(KeyReplies[z])}

\* What holds of zones that are in order.  A zone's keys are signed by one of
\* them, the root's hold an anchor, and the DS records its parent signs name
\* one of them, whichever of a zone's published key sets is met.  What its
\* servers compose is not refuted by its own keys.
ASSUME PublishedAssumption ==
  /\ Absent \notin {Secure, Insecure, Bogus}
  /\ \A z \in DOMAIN KeyReplies :
       /\ \A r \in Published(KeyReplies[z]) :
            SelfSigned(r, z) /\ (z = <<>> => KeysIn(r, z) \cap Anchors # {})
       /\ z # <<>> =>
            /\ z \in DOMAIN DsReplies /\ Front(z) \in DOMAIN KeyReplies
            /\ \A r \in Published(DsReplies[z]), ks \in PublishedKeys(Front(z)), own \in PublishedKeys(z) :
                 Vouches(r, ks, z, own)
  /\ \A m \in Honest : \A z \in SignersOf(m) :
       z \in DOMAIN KeyReplies /\ \A ks \in PublishedKeys(z) : Verify(m, ks) # Bogus

\* Key sets an upstream may hand out for a zone, and those a chain of trust leads
\* to: the least set that holds what an anchor is in, and what a DS set signed
\* with such keys of the parent names.
KeySets == UNION {{<<z, KeysIn(r, z)>> : r \in KeyReplies[z] \ {Absent}} : z \in DOMAIN KeyReplies}
Named(T, z, own) ==
  \E reply \in DsReplies[z] \ {Absent}, p \in T :
    p[1] = Front(z) /\ Verified(reply, z, "DS", p[2]) /\ NamesKey(reply, z, own)
Closed(T) ==
  \A z \in DOMAIN KeyReplies : \A r \in KeyReplies[z] \ {Absent} :
    /\ SelfSigned(r, z)
    /\ KeysIn(r, z) \cap Anchors # {} \/ (z # <<>> /\ Named(T, z, KeysIn(r, z)))
    => <<z, KeysIn(r, z)>> \in T
Trusted(z, ks) == \A T \in SUBSET KeySets : Closed(T) => <<z, ks>> \in T

\* A response that verifies with keys its signer is trusted to have.
Authentic(m) == \E z \in SignersOf(m) : \E p \in KeySets :
  p[1] = z /\ Trusted(z, p[2]) /\ Verify(m, p[2]) = Secure

\* What holds where no one holds the keys of others: with the keys a zone is
\* trusted to have, only RRsets of that zone are signed.
ASSUME KeysAssumption ==
  /\ \A m \in Responses : SignersOf(m) \subseteq DOMAIN KeyReplies
  /\ \A p \in KeySets : Trusted(p[1], p[2]) =>
       \A m \in Responses : \A s \in m.sigs : s.by \in p[2] =>
         [name |-> s.source, type |-> s.covers, data |-> s.over] \in Contents[p[1]]
-----------------------------------------------------------------------------
(* The walk *)

Idle == [checkingDisabled |-> FALSE, dnssecOk |-> FALSE, response |-> Absent]

DnssecInit ==
  /\ request = Idle /\ signers = {} /\ path = <<>> /\ keys = Absent /\ outcome = Absent
  /\ verdicts = <<>> /\ badCache = {} /\ served = 0 /\ strayed = FALSE

\* What the client gets: the AD bit, or SERVFAIL in place of the response.
Answered(verdict) ==
  /\ outcome' = verdict
  /\ signers' = {} /\ path' = <<>> /\ keys' = Absent
  /\ badCache' = IF verdict = Bogus THEN badCache \cup {request.response} ELSE badCache

ConcludeValidation(verdict) ==
  /\ Answered(verdict)
  /\ verdicts' = IF verdict = Bogus THEN verdicts
                 ELSE [m \in DOMAIN verdicts \cup {request.response} |->
                         IF m = request.response THEN verdict ELSE verdicts[m]]

\* validate_and_finalize_response, up to the validation.
Receive(m, cd, do) ==
  /\ request = Idle /\ served < MaxRequests
  /\ served > 0 => m \in DOMAIN verdicts \cup badCache
  /\ served' = served + 1
  /\ strayed' = FALSE
  /\ request' = [checkingDisabled |-> cd, dnssecOk |-> do, response |-> m]
  /\ keys' = Absent /\ path' = <<>>
  /\ IF Enabled /\ ~cd /\ do /\ HasTypes(m, {"DNSKEY", "DS"})
     THEN /\ outcome' = IF m \in DOMAIN verdicts THEN verdicts[m] ELSE Absent
          /\ signers' = IF m \in DOMAIN verdicts THEN {} ELSE SignersOf(m)
     ELSE outcome' = Insecure /\ signers' = {}
  /\ UNCHANGED <<verdicts, badCache>>

Validating == request # Idle /\ outcome = Absent

TrySigner(z) ==
  /\ Validating /\ path = <<>> /\ keys = Absent
  /\ z \in signers
  /\ signers' = signers \ {z}
  /\ path' = << [zone |-> z, keys |-> Absent] >>
  /\ UNCHANGED <<request, keys, outcome, verdicts, badCache, served, strayed>>

\* No signer's verdict was secure.
GiveUp ==
  /\ Validating /\ path = <<>> /\ keys = Absent /\ signers = {}
  /\ ConcludeValidation(Insecure)
  /\ UNCHANGED <<request, served, strayed>>

\* Mutant: the first valid keys are taken for those of the signer.
AcceptForAll(ks) ==
  keys' = ks /\ path' = <<>> /\ UNCHANGED <<signers, outcome, badCache>>

\* The keys of the last zone are valid, and are handed to the one below it.
Accept(ks) ==
  keys' = ks /\ path' = Front(path) /\ UNCHANGED <<signers, outcome, badCache>>

\* The DNSKEY reply of the last zone of the path: refused, anchored, or to be
\* vouched for by the parent.
FetchKeys(reply) ==
  /\ Validating /\ path # <<>> /\ Last(path).keys = Absent
  /\ LET z == Last(path).zone IN
     /\ reply \in KeyReplies[z]
     /\ strayed' = (strayed \/ reply = Absent \/ ~reply.published)
     /\ IF reply = Absent \/ RRset(reply, z, "DNSKEY") = {} \/ Sigs(reply, z, "DNSKEY") = {}
        THEN Answered(Bogus)
        ELSE IF KeysIn(reply, z) \cap Anchors # {}
        THEN IF SelfSigned(reply, z)
             THEN Accept(KeysIn(reply, z))
             ELSE Answered(Bogus)
        ELSE IF z = <<>> THEN Answered(Bogus)
        ELSE /\ path' = Append([path EXCEPT ![Len(path)].keys = reply], [zone |-> Front(z), keys |-> Absent])
             /\ UNCHANGED <<signers, keys, outcome, badCache>>
  /\ UNCHANGED <<request, verdicts, served>>

\* The parent's keys are valid: its DS RRset must name a key of the zone.
FetchDs(reply) ==
  /\ Validating /\ path # <<>> /\ keys # Absent
  /\ LET z == Last(path).zone
         own == Last(path).keys
     IN
     /\ reply \in DsReplies[z]
     /\ strayed' = (strayed \/ reply = Absent \/ ~reply.published)
     /\ IF reply # Absent /\ Vouches(reply, keys, z, KeysIn(own, z)) /\ SelfSigned(own, z)
        THEN Accept(KeysIn(own, z))
        ELSE Answered(Bogus)
  /\ UNCHANGED <<request, verdicts, served>>

\* The signer's keys are valid: the response is verified with them.
Decide ==
  /\ Validating /\ path = <<>> /\ keys # Absent
  /\ LET v == Verify(request.response, keys)
     IN IF v = Insecure
        THEN keys' = Absent /\ UNCHANGED <<signers, path, outcome, verdicts, badCache>>
        ELSE ConcludeValidation(v)
  /\ UNCHANGED <<request, served, strayed>>

Return ==
  /\ outcome # Absent
  /\ request' = Idle /\ outcome' = Absent
  /\ UNCHANGED <<signers, path, keys, verdicts, badCache, served, strayed>>

\* An entry of the verdict cache lapses, 300 seconds after it was made.
VerdictLapses(m) ==
  /\ request = Idle /\ m \in DOMAIN verdicts
  /\ verdicts' = [n \in DOMAIN verdicts \ {m} |-> verdicts[n]]
  /\ UNCHANGED <<request, signers, path, keys, outcome, badCache, served, strayed>>

ZoneReplies(f) == UNION {f[z] : z \in DOMAIN f}

DnssecNext ==
  \/ \E m \in Responses, cd, do \in BOOLEAN : Receive(m, cd, do)
  \/ \E z \in signers : TrySigner(z)
  \/ GiveUp
  \/ \E reply \in ZoneReplies(KeyReplies) : FetchKeys(reply)
  \/ \E reply \in ZoneReplies(DsReplies) : FetchDs(reply)
  \/ Decide
  \/ Return
  \/ \E m \in DOMAIN verdicts : VerdictLapses(m)

DnssecSpec == DnssecInit /\ [][DnssecNext]_vars
-----------------------------------------------------------------------------
(* What a response may be false in and yet verify: the code asks less of it
   than RFC 4035, RFC 5155 and RFC 6840 do. *)

\* Records without a signature stand beside the signed ones.
Beside(m) == \E r \in m.answer : Sigs(m, r.name, r.type) = {}

DenialRecords(m) == {r \in ToSet(m.authority) : r.type \in {"NSEC", "NSEC3"}}
StandsAt(r, n) == IF r.type = "NSEC" THEN r.name = n ELSE OwnerHash(r) = Hash[r.data.salt][n]
Covers(r, n) == IF r.type = "NSEC" THEN NsecCovers(r, n) ELSE Nsec3Covers(r, Hash[r.data.salt][n])

\* A wildcard is expanded for a name that is not shown to be missing.
Unfounded(m) ==
  \E s \in m.sigs :
    /\ s.source # s.name /\ RRset(m, s.name, s.covers) \cap m.answer # {}
    /\ ~\E r \in DenialRecords(m) : Covers(r, NextCloser(s.name, Front(s.source)))

\* What the parent says of a delegation is taken for what is at it or below.
AtDelegation(m) ==
  \E r \in DenialRecords(m), k \in 0..Len(m.question.name) :
    /\ StandsAt(r, TrimTo(m.question.name, k))
    /\ "NS" \in r.data.types /\ Lacks(r, {"SOA"})
    /\ k < Len(m.question.name) \/ m.question.type # "DS"

\* Whether NSEC records show that e is the closest encloser of n: it exists, and
\* the name below it towards n does not, nor anything under that one.
ShownEncloser(R, n, e) ==
  IsPrefix(e, n) /\ \E r \in R :
    /\ IsPrefix(e, r.name) \/ IsPrefix(e, r.data.next)
    /\ NsecCovers(r, NextCloser(n, e)) /\ ~IsPrefix(NextCloser(n, e), r.data.next)

\* The longest name that an NSEC record happens to stand at is taken for it.
EncloserTooHigh(m) ==
  LET R == ToSet(Proofs(m, "NSEC"))
      ks == {k \in 0..Len(m.question.name) : \E r \in R : r.name = TrimTo(m.question.name, k)}
  IN m.rcode = "nxdomain" /\ ks # {} /\ (\E r \in R : NsecCovers(r, m.question.name))
     /\ ~ShownEncloser(R, m.question.name, TrimTo(m.question.name, Max(ks)))

\* Any wildcard that lacks the type is taken for the one at the closest encloser.
OtherWildcard(m) ==
  LET R == ToSet(Proofs(m, "NSEC"))
  IN m.rcode = "noerror" /\ \E r \in R :
       /\ Last(r.name) = Star /\ Lacks(r, {m.question.type, "CNAME"})
       /\ ~ShownEncloser(R, m.question.name, Front(r.name))

\* The span that has no such name may have unsigned delegations.
OptedOut(m) ==
  LET R == Proofs(m, "NSEC3")
      p == EncloserProof(R, m.question.name)
  IN m.rcode = "nxdomain" /\ R # <<>> /\ p # Absent /\ p[2]

TakenTooEasily(m) ==
  IF m.answer # {} THEN Beside(m) \/ Unfounded(m)
  ELSE AtDelegation(m) \/ EncloserTooHigh(m) \/ OtherWildcard(m) \/ OptedOut(m)


\* What zone z signs: the signed part of an answer, or the signed records of
\* one kind that deny it.
IsSignedBy(z, m, n, t) ==
  \E c \in Contents[z] : MadeFor(c.name, n) /\ c.type = t /\ c.data = DataOf(m, n, t)
Genuine(z, m) ==
  IF m.answer # {}
  THEN LET signed == {r \in m.answer : Sigs(m, r.name, r.type) # {}}
       IN signed # {} /\ \A r \in signed : IsSignedBy(z, m, r.name, r.type)
  ELSE \E t \in {"NSEC", "NSEC3"} :
         LET usable == ToSet(UsableProofs(m, t))
         IN usable # {} /\ \A r \in usable : IsSignedBy(z, m, r.name, t)

\* Whatever is fetched and cached, a response with the AD bit rests on RRsets
\* that one of its signers signed, each as a whole.
SecureMeansGenuine ==
  outcome = Secure => \E z \in SignersOf(request.response) : Genuine(z, request.response)

\* A response with the AD bit agrees with the zone's data (it need not: see
\* TakenTooEasily).
SecureMeansTrue == outcome = Secure => request.response \in Agreeing

\* A client is refused a response its zone's servers composed only if one of
\* the fetches of the walk failed or returned what its zone does not publish.
HonestIsServed ==
  outcome = Bogus /\ request.response \in Honest => strayed
=============================================================================
