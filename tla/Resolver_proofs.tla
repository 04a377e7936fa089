-------------------------- MODULE Resolver_proofs --------------------------
(***************************************************************************)
(* The iterative resolver, DNSSEC validation and the health of the         *)
(* addresses that are found, for any number of queries, any world and any  *)
(* limits.                                                                 *)
(*                                                                         *)
(* Delegations are true: what a hop collects for the hosts of a referral   *)
(* are addresses of those hosts, and the referral is still the one they    *)
(* came from.  Answers are chains: a follower stands on the chain of its   *)
(* question with the CNAMEs up to there or further, and what it is told,   *)
(* by a server, a bootstrap resolver or the cache, is about its name.      *)
(*                                                                         *)
(* Honest responses are served: as long as a validation has fetched only   *)
(* what the zones publish, its path leads from a signer up, each zone the  *)
(* parent of the one before and waiting with keys it publishes, and the    *)
(* keys in hand are those its parent publishes, with which the DS records  *)
(* verify that vouch for the keys that wait.                               *)
(*                                                                         *)
(* Nothing is authenticated without a chain of trust: whatever is fetched, *)
(* every zone of the path waits with keys it gave, and each check the code *)
(* makes puts the keys in hand into the least set of trusted ones.         *)
(*                                                                         *)
(* Alarms are spaced: what is counted is not the alarms of a minute but    *)
(* the names whose alarm is recent.  Every alarm adds one, and the minute  *)
(* that forgets them all pays for at most one per name.                    *)
(***************************************************************************)
EXTENDS Iterative, IpHealth, Dnssec, Chains

\* The names and their aliases as a world of Chains, and the chain of n in it.
Aliases == {m \in Names : Alias[m] # None}
Onward == [m \in Names |-> IF Alias[m] = None THEN m ELSE Alias[m]]
Trail(n) == Orbit(Names, Onward, n)
Few == Cardinality(Names)

\* A chain c followed from n stands on the chain of n, and knows the CNAMEs up
\* to there, or further.
Walked(n, c) ==
  /\ c.name \in Names
  /\ \E i, j \in Nat : i <= j /\ c.name = Trail(n)[i] /\ c.links = Owners(Trail(n), Aliases, j)
-----------------------------------------------------------------------------
(* Chains of names *)

LEMMA NamesAreWorld ==
  World(Names, Aliases, Onward) /\ Few \in Nat /\ Onward \in [Names -> Names] /\ Aliases \subseteq Names
BY WorldAssumption, FS_CardinalityType DEF World, Aliases, Onward, Few

LEMMA TrailIsOrbit ==
  ASSUME NEW n \in Names
  PROVE  IsOrbit(Trail(n), Names, Onward, n) /\ Trail(n) \in [Nat -> Names] /\ Trail(n)[0] = n
<1>1. IsOrbit(Trail(n), Names, Onward, n)
  BY NamesAreWorld, OrbitFollows DEF Trail
<1> QED  BY <1>1 DEF IsOrbit

\* The table of the specification holds the first names of the chain.
LEMMA ReachIsTrail ==
  ASSUME NEW n \in Names, NEW k \in 0 .. Few
  PROVE  Reach(n)[k] = Trail(n)[k]
<1> DEFINE f == Trail(n)
           R(D) == [l \in 0 .. Few |->
                      IF l = 0 THEN n ELSE IF Alias[D[l - 1]] = None THEN D[l - 1] ELSE Alias[D[l - 1]]]
           E == [l \in 0 .. Few |-> f[l]]
           D == Reach(n)
<1>1. f[0] = n /\ \A l \in Nat : f[l] \in Names /\ f[l + 1] = Onward[f[l]]
  BY TrailIsOrbit DEF IsOrbit
<1> HIDE DEF f
<1>2. E = R(E)
  <2>1. ASSUME NEW l \in 0 .. Few, l # 0
        PROVE  f[l] = IF Alias[E[l - 1]] = None THEN E[l - 1] ELSE Alias[E[l - 1]]
    <3>1. l - 1 \in 0 .. Few /\ l - 1 \in Nat /\ (l - 1) + 1 = l
      BY NamesAreWorld, <2>1
    <3> QED  BY <1>1, <3>1 DEF Onward
  <2> QED  BY <1>1, <2>1
<1>3. D = R(D)
  <2>1. D = CHOOSE d : d = R(d)
    BY DEF Reach, Few
  <2> HIDE DEF R, E, D
  <2> QED  BY <1>2, <2>1
<1> DEFINE G == {l \in Nat : l <= Few => D[l] = f[l]}
<1> HIDE DEF D
<1>4. \A l \in 0 .. Few :
        D[l] = IF l = 0 THEN n ELSE IF Alias[D[l - 1]] = None THEN D[l - 1] ELSE Alias[D[l - 1]]
  BY <1>3
<1>5. 0 \in G
  BY NamesAreWorld, <1>1, <1>4
<1>6. ASSUME NEW l \in Nat, l \in G PROVE l + 1 \in G
  <2> SUFFICES ASSUME l + 1 <= Few PROVE D[l + 1] = f[l + 1]
    OBVIOUS
  <2>1. l + 1 \in 0 .. Few /\ (l + 1) - 1 = l /\ l + 1 # 0 /\ D[l] = f[l]
    BY NamesAreWorld, <1>6
  <2>2. D[l + 1] = IF Alias[D[l]] = None THEN D[l] ELSE Alias[D[l]]
    BY <1>4, <2>1
  <2> QED  BY <1>1, <2>1, <2>2 DEF Onward
<1>7. Nat \subseteq G
  <2> HIDE DEF G
  <2> QED  BY <1>5, <1>6, SetInduction
<1> QED  BY NamesAreWorld, <1>7 DEF D, f

\* What an unbroken chain is, said of the whole chain.
LEMMA UnbrokenOnTrail ==
  ASSUME NEW n \in Names, NEW p
  PROVE  Unbroken(n, p) <=>
           \E k \in 0 .. Few :
             /\ p.links = {Trail(n)[i] : i \in 0 .. (k - 1)}
             /\ p.links \subseteq Aliases
             /\ p.leaf # None => p.leaf = Trail(n)[k] /\ p.leaf \notin Aliases
<1>1. ASSUME NEW k \in 0 .. Few
      PROVE  /\ {Reach(n)[i] : i \in 0 .. (k - 1)} = {Trail(n)[i] : i \in 0 .. (k - 1)}
             /\ {Trail(n)[i] : i \in 0 .. (k - 1)} \subseteq Names
             /\ Reach(n)[k] = Trail(n)[k] /\ Trail(n)[k] \in Names
  <2>1. k \in Nat /\ \A i \in 0 .. (k - 1) : i \in 0 .. Few /\ i \in Nat
    BY NamesAreWorld
  <2>2. \A i \in 0 .. (k - 1) : Reach(n)[i] = Trail(n)[i] /\ Trail(n)[i] \in Names
    BY <2>1, ReachIsTrail, TrailIsOrbit
  <2>3. Reach(n)[k] = Trail(n)[k] /\ Trail(n)[k] \in Names
    BY <2>1, ReachIsTrail, TrailIsOrbit
  <2>4. {Reach(n)[i] : i \in 0 .. (k - 1)} = {Trail(n)[i] : i \in 0 .. (k - 1)}
    BY <2>2
  <2> QED  BY <2>2, <2>3, <2>4
<1> QED  BY <1>1 DEF Unbroken, Aliases, Few

\* The chain followed and what is told of its end are an unbroken chain.
LEMMA JoinIsUnbroken ==
  ASSUME NEW n \in Names, NEW c, Walked(n, c), NEW p, Unbroken(c.name, p),
         NEW q, q.links = c.links \cup p.links, q.leaf = p.leaf
  PROVE  Unbroken(n, q)
<1> DEFINE f == Trail(n)
<1>1. PICK i \in Nat, j \in Nat : i <= j /\ c.name = f[i] /\ c.links = Owners(f, Aliases, j)
  BY DEF Walked
<1>2. PICK k \in 0 .. Few :
        /\ p.links = {Trail(c.name)[l] : l \in 0 .. (k - 1)} /\ p.links \subseteq Aliases
        /\ p.leaf # None => p.leaf = Trail(c.name)[k] /\ p.leaf \notin Aliases
  BY UnbrokenOnTrail DEF Walked
<1>3. k \in Nat /\ p.links = Owners(Trail(c.name), Aliases, k)
  BY NamesAreWorld, <1>2 DEF Owners
<1> DEFINE h == IF j < i + k THEN i + k ELSE j
<1>4. h \in Nat /\ i + k \in Nat /\ i + k <= h
  BY <1>3
<1>5. q.links = Owners(f, Aliases, h)
  BY <1>1, <1>3, NamesAreWorld, OwnersJoin DEF Trail
<1>6. Trail(c.name)[k] = f[i + k]
  <2>1. Onward \in [Names -> Names] /\ n \in Names /\ i \in Nat /\ k \in Nat
    BY <1>3, NamesAreWorld
  <2>2. Orbit(Names, Onward, Orbit(Names, Onward, n)[i])[k] = Orbit(Names, Onward, n)[i + k]
    BY ONLY <2>1, OrbitShifts
  <2> QED  BY <1>1, <2>2 DEF Trail
<1> HIDE DEF f, h
<1>7. IsOrbit(f, Names, Onward, n)
  BY TrailIsOrbit DEF f
<1>8. PICK l \in 0 .. Few :
        Owners(f, Aliases, h) = {f[m] : m \in 0 .. (l - 1)} /\ (f[h] \notin Aliases => f[l] = f[h])
  BY <1>4, <1>7, NamesAreWorld, OwnersAreFirst DEF Few
<1>9. p.leaf # None => p.leaf = f[l] /\ p.leaf \notin Aliases
  <2> SUFFICES ASSUME p.leaf # None PROVE p.leaf = f[l] /\ p.leaf \notin Aliases
    OBVIOUS
  <2>1. p.leaf = f[i + k] /\ f[i + k] \notin Aliases
    BY <1>2, <1>6
  <2>2. f[h] = f[i + k]
    BY <1>4, <1>7, <2>1, NamesAreWorld, OrbitEnds
  <2> QED  BY <1>8, <2>1, <2>2
<1>10. q.links \subseteq Aliases
  BY <1>5 DEF Owners
<1> QED  BY <1>5, <1>8, <1>9, <1>10, UnbrokenOnTrail DEF f

LEMMA ChainBegins ==
  ASSUME NEW n \in Names, NEW c, c.name = n, c.links = {}
  PROVE  Walked(n, c)
<1>1. Trail(n)[0] = n /\ Owners(Trail(n), Aliases, 0) = {}
  BY TrailIsOrbit DEF Owners
<1> QED  BY <1>1 DEF Walked

\* The target of a CNAME one is told of is further down the same chain.
LEMMA ChainGoesOn ==
  ASSUME NEW n \in Names, NEW c, Walked(n, c), NEW p, Unbroken(c.name, p), NEW m \in p.links,
         NEW d, d.name = Alias[m], d.links = c.links \cup p.links
  PROVE  Walked(n, d)
<1> DEFINE f == Trail(n)
<1>1. PICK i \in Nat, j \in Nat : i <= j /\ c.name = f[i] /\ c.links = Owners(f, Aliases, j)
  BY DEF Walked
<1>2. PICK k \in 0 .. Few : p.links = {Trail(c.name)[l] : l \in 0 .. (k - 1)} /\ p.links \subseteq Aliases
  BY UnbrokenOnTrail DEF Walked
<1>3. k \in Nat /\ p.links = Owners(Trail(c.name), Aliases, k)
  BY NamesAreWorld, <1>2 DEF Owners
<1> DEFINE h == IF j < i + k THEN i + k ELSE j
<1>4. d.links = Owners(f, Aliases, h)
  BY <1>1, <1>3, NamesAreWorld, OwnersJoin DEF Trail
<1>5. PICK l \in 0 .. (k - 1) : m = Trail(c.name)[l]
  BY <1>2
<1>6. l \in Nat /\ Trail(c.name)[l] = f[i + l]
  BY <1>1, <1>5, NamesAreWorld, OrbitShifts DEF Trail
<1>7. h \in Nat /\ i + l \in Nat /\ i + l + 1 \in Nat /\ i + l + 1 <= h
  BY <1>3, <1>5, <1>6
<1> HIDE DEF f, h
<1>8. IsOrbit(f, Names, Onward, n)
  BY TrailIsOrbit DEF f
<1>9. f[i + l + 1] = Alias[m] /\ f[i + l + 1] \in Names
  <2>1. f[i + l + 1] = Onward[f[i + l]] /\ f[i + l + 1] \in Names
    BY <1>7, <1>8 DEF IsOrbit
  <2> QED  BY <1>2, <1>5, <1>6, <2>1 DEF Onward, Aliases
<1> QED  BY <1>4, <1>7, <1>9 DEF Walked, f
-----------------------------------------------------------------------------
(* The invariant *)

\* The referral of p, if it is valid for some name, is to servers of its zone.
RefersTruly(p) ==
  p \in Packet /\ \A m \in Names : Valid(p, m) => p.nss \subseteq NsOf[Deepest(p.zones)]

\* The hosts being resolved are those of the referral, and so are the addresses.
Resolving(h) ==
  /\ {"from", "queue", "asking", "got"} \subseteq DOMAIN h
  /\ RefersTruly(h.from)
  /\ h.queue \subseteq h.from.nss /\ h.asking \subseteq h.from.nss
  /\ h.got \subseteq UNION {Addresses[x] : x \in h.from.nss}

\* One query: where it is, its question, chain, walk, hosts, reply and end.
Sane(place, q, c, w, h, p, o) ==
  /\ place # "idle" => q \in Asked /\ Walked(q.name, c)
  /\ place \in {"step", "scan", "bridge"} => q.kind = "address"
  /\ place = "ask forwarder" => q.kind # "address"
  /\ "depth" \in DOMAIN w /\ w.depth \in 0 .. MaxDepth
  /\ place \in {"collect", "resolve"} => w.depth # MaxDepth
  /\ place = "resolve" => Resolving(h)
  /\ place = "scan" => Truthful(c.name, p)
  /\ place = "bridge" => IsError(p)
  /\ place = "done" /\ q.kind = "address" /\ ~IsError(o) => o.about = c.name /\ Unbroken(q.name, o)

TaskInv(t) == Sane(at[t], ask[t], chain[t], walk[t], hop[t], packet[t], out[t])

Delegation(z) == [endpoints : (SUBSET (Endpoints(z) \cap Allowed)) \ {{}}, cooling : BOOLEAN]

ServersTrue ==
  /\ DOMAIN deleg = Names /\ DOMAIN hosts = Hosts
  /\ \A z \in Names : deleg[z] # None => deleg[z] \in Delegation(z)
  /\ \A h \in Hosts : hosts[h] # None => hosts[h] \subseteq Addresses[h]

AnswersTrue ==
  DOMAIN stored = Names /\ \A n \in Names : stored[n] # None => Truthful(n, stored[n])

Shapes ==
  /\ DOMAIN at = Tasks /\ DOMAIN ask = Tasks /\ DOMAIN chain = Tasks /\ DOMAIN walk = Tasks
  /\ DOMAIN hop = Tasks /\ DOMAIN packet = Tasks /\ DOMAIN out = Tasks

IterInv == Shapes /\ ServersTrue /\ AnswersTrue /\ \A t \in Tasks : TaskInv(t)

\* A step of t leaves t in order and the others alone.
Keeps(t) ==
  /\ Shapes'
  /\ Sane(at'[t], ask'[t], chain'[t], walk'[t], hop'[t], packet'[t], out'[t])
  /\ \A s \in Tasks \ {t} :
       /\ at'[s] = at[s] /\ ask'[s] = ask[s] /\ chain'[s] = chain[s] /\ walk'[s] = walk[s]
       /\ hop'[s] = hop[s] /\ packet'[s] = packet[s] /\ out'[s] = out[s]
-----------------------------------------------------------------------------
(* Steps *)

\* It is enough to look at the task that takes the step.
LEMMA OneTask ==
  ASSUME IterInv, NEW t \in Tasks, Keeps(t), ServersTrue', AnswersTrue'
  PROVE  IterInv'
<1>1. Shapes'
  BY DEF Keeps
<1>2. ASSUME NEW s \in Tasks PROVE TaskInv(s)'
  <2>1. Sane(at'[s], ask'[s], chain'[s], walk'[s], hop'[s], packet'[s], out'[s])
    <3>1. CASE s = t
      BY <3>1 DEF Keeps
    <3>2. CASE s # t
      <4>1. /\ at'[s] = at[s] /\ ask'[s] = ask[s] /\ chain'[s] = chain[s] /\ walk'[s] = walk[s]
            /\ hop'[s] = hop[s] /\ packet'[s] = packet[s] /\ out'[s] = out[s]
        BY <3>2 DEF Keeps
      <4>2. Sane(at[s], ask[s], chain[s], walk[s], hop[s], packet[s], out[s])
        BY DEF IterInv, TaskInv
      <4> QED  BY <4>1, <4>2
    <3> QED  BY <3>1, <3>2
  <2> QED  BY <2>1 DEF TaskInv
<1> QED  BY <1>1, <1>2 DEF IterInv

LEMMA ServersKept == ASSUME ServersTrue, UNCHANGED <<deleg, hosts>> PROVE ServersTrue'
BY DEF ServersTrue, Delegation, Endpoints

LEMMA AnswersKept == ASSUME AnswersTrue, stored' = stored PROVE AnswersTrue'
BY DEF AnswersTrue, Truthful, Unbroken, Packet, Reach

\* What the task that takes the step is known to be.
LEMMA Present ==
  ASSUME IterInv, NEW t \in Tasks
  PROVE  /\ Sane(at[t], ask[t], chain[t], walk[t], hop[t], packet[t], out[t])
         /\ at[t] # "idle" => /\ ask[t].name \in Names /\ chain[t].name \in Names
                              /\ Walked(ask[t].name, chain[t])
BY WorldAssumption DEF IterInv, TaskInv, Sane, Walked

\* A truthful packet is no error of the resolver's own.
LEMMA TruthIsNoError == ASSUME NEW n, NEW p, Truthful(n, p) PROVE ~IsError(p)
BY DEF Truthful, Packet, IsError, Errors

\* A query ends with an error, or with an answer about the end of its chain.
LEMMA FinishKeeps ==
  ASSUME IterInv, NEW t \in Tasks, at[t] # "idle", NEW p, Finish(t, p), UNCHANGED <<ask, chain>>,
         Follows(t) /\ ~IsError(p) => p.about = Name(t) /\ Unbroken(ask[t].name, p)
  PROVE  Keeps(t)
<1>1. /\ at' = [at EXCEPT ![t] = "done"] /\ out' = [out EXCEPT ![t] = p]
      /\ walk' = [walk EXCEPT ![t] = NoWalk] /\ hop' = [hop EXCEPT ![t] = NoHop]
      /\ packet' = [packet EXCEPT ![t] = None]
  BY DEF Finish, Goto
<1>2. Shapes
  BY DEF IterInv
<1>3. Shapes'
  BY <1>1, <1>2 DEF Shapes
<1>4. /\ at'[t] = "done" /\ out'[t] = p /\ walk'[t] = NoWalk
      /\ ask'[t] = ask[t] /\ chain'[t] = chain[t]
  BY <1>1, <1>2 DEF Shapes
<1>5. Sane("done", ask[t], chain[t], NoWalk, hop'[t], packet'[t], p)
  <2>1. "depth" \in DOMAIN NoWalk /\ NoWalk.depth \in 0 .. MaxDepth
    BY ConfigurationAssumption DEF NoWalk
  <2>2. ask[t] \in Asked /\ Walked(ask[t].name, chain[t])
    BY Present DEF Sane
  <2>3. ask[t].kind = "address" /\ ~IsError(p) => p.about = chain[t].name /\ Unbroken(ask[t].name, p)
    BY DEF Follows, Name
  <2> QED  BY <2>1, <2>2, <2>3 DEF Sane
<1>6. \A s \in Tasks \ {t} :
       /\ at'[s] = at[s] /\ ask'[s] = ask[s] /\ chain'[s] = chain[s] /\ walk'[s] = walk[s]
       /\ hop'[s] = hop[s] /\ packet'[s] = packet[s] /\ out'[s] = out[s]
  BY <1>1, <1>2 DEF Shapes
<1> QED  BY <1>3, <1>4, <1>5, <1>6 DEF Keeps

\* A walk ends with an error, or with a packet about the name it was for.
LEMMA EndWalkKeeps ==
  ASSUME IterInv, NEW t \in Tasks, at[t] # "idle", NEW p, EndWalk(t, p), UNCHANGED <<ask, chain>>,
         Follows(t) => IsError(p) \/ Truthful(Name(t), p)
  PROVE  Keeps(t)
<1>1. CASE Follows(t)
  <2>1. /\ at' = [at EXCEPT ![t] = IF IsError(p) THEN "bridge" ELSE "scan"]
        /\ packet' = [packet EXCEPT ![t] = p] /\ out' = out
        /\ walk' = [walk EXCEPT ![t] = [walk[t] EXCEPT !.flying = {}, !.next = {}]]
        /\ hop' = [hop EXCEPT ![t] = NoHop]
    BY <1>1 DEF EndWalk, Goto
  <2>2. Shapes
    BY DEF IterInv
  <2>3. Shapes'
    BY <2>1, <2>2 DEF Shapes
  <2>4. /\ at'[t] = IF IsError(p) THEN "bridge" ELSE "scan"
        /\ packet'[t] = p /\ walk'[t] = [walk[t] EXCEPT !.flying = {}, !.next = {}]
        /\ ask'[t] = ask[t] /\ chain'[t] = chain[t]
    BY <2>1, <2>2 DEF Shapes
  <2>5. "depth" \in DOMAIN walk'[t] /\ walk'[t].depth = walk[t].depth /\ walk[t].depth \in 0 .. MaxDepth
    BY <2>4, Present DEF Sane
  <2>6. Sane(at'[t], ask[t], chain[t], walk'[t], hop'[t], p, out'[t])
    BY <1>1, <2>4, <2>5, Present DEF Sane, Follows, Name
  <2>7. \A s \in Tasks \ {t} :
         /\ at'[s] = at[s] /\ ask'[s] = ask[s] /\ chain'[s] = chain[s] /\ walk'[s] = walk[s]
         /\ hop'[s] = hop[s] /\ packet'[s] = packet[s] /\ out'[s] = out[s]
    BY <2>1, <2>2 DEF Shapes
  <2> QED  BY <2>3, <2>4, <2>6, <2>7 DEF Keeps
<1>2. CASE ~Follows(t)
  BY <1>2, FinishKeeps DEF EndWalk
<1> QED  BY <1>1, <1>2

\* A step that only moves the walk on.
LEMMA WalkKeeps ==
  ASSUME IterInv, NEW t \in Tasks, at[t] # "idle",
         at' = at \/ at' = [at EXCEPT ![t] = at'[t]],
         walk' = walk \/ walk' = [walk EXCEPT ![t] = walk'[t]],
         hop' = hop \/ hop' = [hop EXCEPT ![t] = hop'[t]],
         UNCHANGED <<ask, chain, packet, out>>,
         at'[t] \in {"walk", "hop", "collect", "resolve"},
         "depth" \in DOMAIN walk'[t], walk'[t].depth \in 0 .. MaxDepth,
         at'[t] \in {"collect", "resolve"} => walk'[t].depth # MaxDepth,
         at'[t] = "resolve" => Resolving(hop'[t])
  PROVE  Keeps(t)
<1>1. Shapes
  BY DEF IterInv
<1>2. Shapes'
  BY <1>1 DEF Shapes
<1>3. Sane(at'[t], ask[t], chain[t], walk'[t], hop'[t], packet[t], out[t])
  BY Present DEF Sane
<1>4. \A s \in Tasks \ {t} : at'[s] = at[s] /\ walk'[s] = walk[s] /\ hop'[s] = hop[s]
  BY <1>1 DEF Shapes
<1> QED  BY <1>2, <1>3, <1>4 DEF Keeps

LEMMA StartKeeps == ASSUME IterInv, NEW t \in Tasks, Start(t) PROVE IterInv'
<1>1. PICK q \in Asked :
        /\ ask' = [ask EXCEPT ![t] = q]
        /\ chain' = [chain EXCEPT ![t] = [name |-> q.name, seen |-> {q.name}, links |-> {}, depth |-> 0]]
        /\ at' = [at EXCEPT ![t] = IF q.kind = "address" THEN "step"
                                   ELSE IF q.kind = "cname" /\ Fallback THEN "ask forwarder" ELSE "walk"]
  BY DEF Start, Goto
<1>2. out' = [out EXCEPT ![t] = None] /\ UNCHANGED <<deleg, hosts, stored, walk, hop, packet>>
  BY DEF Start, caches
<1>3. Shapes
  BY DEF IterInv
<1>4. Shapes'
  BY <1>1, <1>2, <1>3 DEF Shapes
<1> DEFINE c == [name |-> q.name, seen |-> {q.name}, links |-> {}, depth |-> 0]
<1>5. /\ ask'[t] = q /\ chain'[t] = c /\ walk'[t] = walk[t]
      /\ at'[t] = IF q.kind = "address" THEN "step"
                  ELSE IF q.kind = "cname" /\ Fallback THEN "ask forwarder" ELSE "walk"
  BY <1>1, <1>2, <1>3 DEF Shapes
<1>6. q.name \in Names
  BY WorldAssumption
<1>7. Walked(q.name, c)
  <2>1. c.name = q.name /\ c.links = {}
    OBVIOUS
  <2> HIDE DEF c
  <2> QED  BY <1>6, <2>1, ChainBegins
<1> HIDE DEF c
<1>8. Sane(at'[t], q, c, walk[t], hop'[t], packet'[t], out'[t])
  <2>1. "depth" \in DOMAIN walk[t] /\ walk[t].depth \in 0 .. MaxDepth
    BY Present DEF Sane
  <2> QED  BY <1>5, <1>7, <2>1 DEF Sane
<1>9. \A s \in Tasks \ {t} : at'[s] = at[s] /\ ask'[s] = ask[s] /\ chain'[s] = chain[s] /\ out'[s] = out[s]
  BY <1>1, <1>2, <1>3 DEF Shapes
<1>10. Keeps(t)
  BY <1>2, <1>4, <1>5, <1>8, <1>9 DEF Keeps
<1> QED  BY <1>2, <1>10, OneTask, ServersKept, AnswersKept DEF IterInv

\* What the caches keep when a step leaves them alone.
LEMMA CachesAlone ==
  ASSUME IterInv, NEW t \in Tasks, Keeps(t), UNCHANGED <<deleg, hosts, stored>>
  PROVE  IterInv'
BY OneTask, ServersKept, AnswersKept DEF IterInv

LEMMA AskForwarderFirstKeeps == ASSUME IterInv, NEW t \in Tasks, AskForwarderFirst(t) PROVE IterInv'
<1>1. at[t] = "ask forwarder" /\ UNCHANGED <<deleg, hosts, stored, ask, chain>>
  BY DEF AskForwarderFirst, caches
<1>2. ~Follows(t)
  BY <1>1, Present DEF Sane, Follows
<1>3. CASE \E p \in Recursive[Name(t)] : Finish(t, p)
  BY <1>1, <1>2, <1>3, FinishKeeps, CachesAlone
<1>4. CASE Goto(t, "walk") /\ UNCHANGED <<walk, hop, packet, out>>
  <2>1. at' = [at EXCEPT ![t] = "walk"] /\ at'[t] = "walk" /\ UNCHANGED <<walk, hop, packet, out>>
    BY <1>4 DEF IterInv, Shapes, Goto
  <2>2. "depth" \in DOMAIN walk[t] /\ walk[t].depth \in 0 .. MaxDepth
    BY Present DEF Sane
  <2>3. Keeps(t)
    BY <1>1, <2>1, <2>2, WalkKeeps
  <2> QED  BY <1>1, <2>3, CachesAlone
<1> QED  BY <1>3, <1>4 DEF AskForwarderFirst

LEMMA StepKeeps == ASSUME IterInv, NEW t \in Tasks, Step(t) PROVE IterInv'
<1>1. at[t] = "step" /\ UNCHANGED <<deleg, hosts, stored, ask, chain>>
  BY DEF Step, caches
<1>2. CASE Finish(t, Error("budget"))
  <2>1. IsError(Error("budget"))
    BY DEF IsError, Error, Errors
  <2> QED  BY <1>1, <1>2, <2>1, FinishKeeps, CachesAlone
<1>3. CASE /\ stored[Name(t)] # None /\ packet' = [packet EXCEPT ![t] = stored[Name(t)]]
           /\ Goto(t, "scan") /\ UNCHANGED <<walk, hop, out>>
  <2>1. Shapes
    BY DEF IterInv
  <2>2. Shapes'
    BY <1>1, <1>3, <2>1 DEF Shapes, Goto
  <2>3. at'[t] = "scan" /\ packet'[t] = stored[Name(t)]
    BY <1>3, <2>1 DEF Shapes, Goto
  <2>4. Truthful(chain[t].name, stored[Name(t)])
    BY <1>1, <1>3, Present DEF IterInv, AnswersTrue, Name
  <2>5. Sane("scan", ask[t], chain[t], walk[t], hop[t], packet'[t], out[t])
    BY <1>1, <2>3, <2>4, Present DEF Sane
  <2>6. \A s \in Tasks \ {t} : at'[s] = at[s] /\ packet'[s] = packet[s]
    BY <1>3, <2>1 DEF Shapes, Goto
  <2>7. Keeps(t)
    BY <1>1, <1>3, <2>2, <2>3, <2>5, <2>6 DEF Keeps
  <2> QED  BY <1>1, <2>7, CachesAlone
<1>4. CASE Goto(t, "walk") /\ UNCHANGED <<walk, hop, packet, out>>
  <2>1. at' = [at EXCEPT ![t] = "walk"] /\ at'[t] = "walk" /\ UNCHANGED <<walk, hop, packet, out>>
    BY <1>4 DEF IterInv, Shapes, Goto
  <2>2. "depth" \in DOMAIN walk[t] /\ walk[t].depth \in 0 .. MaxDepth
    BY Present DEF Sane
  <2>3. Keeps(t)
    BY <1>1, <2>1, <2>2, WalkKeeps
  <2> QED  BY <1>1, <2>3, CachesAlone
<1> QED  BY <1>2, <1>3, <1>4 DEF Step

LEMMA BeginKeeps == ASSUME IterInv, NEW t \in Tasks, Begin(t) PROVE IterInv'
<1>1. PICK E, z : walk' = [walk EXCEPT ![t] = [NoWalk EXCEPT !.cands = E, !.seed = z]]
  BY DEF Begin
<1>2. /\ at[t] = "walk" /\ at' = [at EXCEPT ![t] = "hop"]
      /\ UNCHANGED <<deleg, hosts, stored, ask, chain, hop, packet, out>>
  BY DEF Begin, Goto, caches
<1> DEFINE w == [NoWalk EXCEPT !.cands = E, !.seed = z]
<1>3. "depth" \in DOMAIN w /\ w.depth \in 0 .. MaxDepth
  BY ConfigurationAssumption DEF NoWalk
<1>4. at'[t] = "hop" /\ walk'[t] = w /\ walk' = [walk EXCEPT ![t] = w]
  BY <1>1, <1>2 DEF IterInv, Shapes
<1> HIDE DEF w
<1>5. Keeps(t)
  BY <1>2, <1>3, <1>4, WalkKeeps
<1> QED  BY <1>2, <1>5, CachesAlone

LEMMA HopKeeps == ASSUME IterInv, NEW t \in Tasks, Hop(t) PROVE IterInv'
<1>1. at[t] = "hop" /\ UNCHANGED <<deleg, hosts, stored, ask, chain>>
  BY DEF Hop, caches
<1>2. ASSUME NEW e \in {"depth", "loop", "budget"}, EndWalk(t, Error(e)) PROVE IterInv'
  <2>1. IsError(Error(e))
    BY DEF IsError, Error, Errors
  <2> QED  BY <1>1, <1>2, <2>1, EndWalkKeeps, CachesAlone
<1>3. CASE /\ walk[t].depth # MaxDepth
           /\ walk' = [walk EXCEPT ![t] = [walk[t] EXCEPT !.seen = @ \cup {walk[t].cands},
                         !.flying = walk[t].cands, !.next = {}]]
           /\ Goto(t, "collect") /\ UNCHANGED <<hop, packet, out>>
  <2> DEFINE w == [walk[t] EXCEPT !.seen = @ \cup {walk[t].cands}, !.flying = walk[t].cands, !.next = {}]
  <2>1. "depth" \in DOMAIN w /\ w.depth \in 0 .. MaxDepth /\ w.depth # MaxDepth
    BY <1>3, Present DEF Sane
  <2>2. /\ at' = [at EXCEPT ![t] = "collect"] /\ at'[t] = "collect"
        /\ walk' = [walk EXCEPT ![t] = w] /\ walk'[t] = w /\ UNCHANGED <<hop, packet, out>>
    BY <1>3 DEF IterInv, Shapes, Goto
  <2> HIDE DEF w
  <2>3. Keeps(t)
    BY <1>1, <2>1, <2>2, WalkKeeps
  <2> QED  BY <1>1, <2>3, CachesAlone
<1> QED  BY <1>2, <1>3 DEF Hop

LEMMA ServerFailsKeeps ==
  ASSUME IterInv, NEW t \in Tasks, NEW s \in Servers, ServerFails(t, s)
  PROVE  IterInv'
<1> DEFINE w == [walk[t] EXCEPT !.flying = @ \ {s}]
<1>1. /\ at[t] = "collect" /\ walk' = [walk EXCEPT ![t] = w]
      /\ UNCHANGED <<deleg, hosts, stored, at, ask, chain, hop, packet, out>>
  BY DEF ServerFails, caches
<1>2. "depth" \in DOMAIN w /\ w.depth \in 0 .. MaxDepth /\ w.depth # MaxDepth
  BY <1>1, Present DEF Sane
<1>3. walk'[t] = w
  BY <1>1 DEF IterInv, Shapes
<1> HIDE DEF w
<1>4. Keeps(t)
  BY <1>1, <1>2, <1>3, WalkKeeps
<1> QED  BY <1>1, <1>4, CachesAlone

\* What a server is asked is a name, and for a follower it is its own.
LEMMA QuestionKnown ==
  ASSUME IterInv, NEW t \in Tasks, at[t] # "idle"
  PROVE  QNameOf(t) \in Names /\ (Follows(t) => QNameOf(t) = Name(t))
<1>1. Name(t) \in Names /\ walk[t].depth \in 0 .. MaxDepth
  BY Present DEF Sane, Name
<1>2. Minimized(Name(t), walk[t].depth) \in Names
  BY <1>1, TruthAssumption
<1> QED  BY <1>1, <1>2 DEF QNameOf

LEMMA ServerAnswersKeeps ==
  ASSUME IterInv, NEW t \in Tasks, NEW s \in Servers, ServerAnswers(t, s)
  PROVE  IterInv'
<1> DEFINE n == QNameOf(t)
           w == walk[t]
           Nearer(p) == w.next \cup Filter(GlueEndpoints(p))
           Progress(p) == p.glue # {} /\ Nearer(p) # {}
           Further(p) == [w EXCEPT !.next = Nearer(p), !.flying = IF Progress(p) THEN {} ELSE @ \ {s}]
           Hosted(p) == [w EXCEPT !.next = Nearer(p), !.flying = @ \ {s}, !.tried = @ \cup {p.nss}]
           Begun(p) == [from |-> p, queue |-> p.nss, asking |-> {}, got |-> {}]
<1>1. PICK p \in Says[s][n] :
        \/ EndWalk(t, p) /\ UNCHANGED hosts
        \/ WarmHosts(p) /\ UNCHANGED <<packet, out, at, hop>> /\ walk' = [walk EXCEPT ![t] = Further(p)]
        \/ /\ WarmHosts(p) /\ UNCHANGED <<packet, out>> /\ walk' = [walk EXCEPT ![t] = Hosted(p)]
           /\ hop' = [hop EXCEPT ![t] = Begun(p)] /\ Goto(t, "resolve")
  BY DEF ServerAnswers
<1>2. at[t] = "collect" /\ UNCHANGED <<deleg, stored, ask, chain>>
  BY DEF ServerAnswers
<1>3. n \in Names /\ (Follows(t) => n = Name(t))
  BY <1>2, QuestionKnown
<1>4. /\ Truthful(n, p) /\ \A h \in Hosts : GlueOf(p, h) \subseteq Addresses[h]
      /\ \A m \in Names : Valid(p, m) => p.nss \subseteq NsOf[Deepest(p.zones)]
  BY <1>3, TruthAssumption, ReferralAssumption
<1>5. RefersTruly(p)
  BY <1>4 DEF RefersTruly, Truthful
<1>6. WarmHosts(p) => ServersTrue'
  <2> SUFFICES ASSUME WarmHosts(p) PROVE ServersTrue'
    OBVIOUS
  <2>1. hosts' = [h \in Hosts |-> IF GlueOf(p, h) # {} THEN GlueOf(p, h) ELSE hosts[h]]
    BY DEF WarmHosts
  <2>2. \A h \in Hosts : hosts'[h] # None => hosts'[h] \subseteq Addresses[h]
    BY <1>4, <2>1 DEF IterInv, ServersTrue
  <2> QED  BY <1>2, <2>1, <2>2 DEF IterInv, ServersTrue, Delegation, Endpoints
<1>7. \A v \in {Further(p), Hosted(p)} : "depth" \in DOMAIN v /\ v.depth \in 0 .. MaxDepth /\ v.depth # MaxDepth
  BY <1>2, Present DEF Sane
<1>8. Resolving(Begun(p))
  BY <1>5 DEF Resolving
<1> HIDE DEF n, Further, Hosted, Begun
<1>9. CASE EndWalk(t, p) /\ UNCHANGED hosts
  BY <1>2, <1>3, <1>4, <1>9, EndWalkKeeps, CachesAlone
<1>10. CASE WarmHosts(p) /\ UNCHANGED <<packet, out, at, hop>> /\ walk' = [walk EXCEPT ![t] = Further(p)]
  <2>1. walk'[t] = Further(p)
    BY <1>10 DEF IterInv, Shapes
  <2>2. Keeps(t)
    BY <1>2, <1>7, <1>10, <2>1, WalkKeeps
  <2> QED  BY <1>2, <1>6, <1>10, <2>2, OneTask, AnswersKept DEF IterInv
<1>11. CASE /\ WarmHosts(p) /\ UNCHANGED <<packet, out>> /\ walk' = [walk EXCEPT ![t] = Hosted(p)]
            /\ hop' = [hop EXCEPT ![t] = Begun(p)] /\ Goto(t, "resolve")
  <2>1. /\ walk'[t] = Hosted(p) /\ hop'[t] = Begun(p) /\ at'[t] = "resolve"
        /\ at' = [at EXCEPT ![t] = "resolve"]
    BY <1>11 DEF IterInv, Shapes, Goto
  <2>2. Keeps(t)
    BY <1>2, <1>7, <1>8, <1>11, <2>1, WalkKeeps
  <2> QED  BY <1>2, <1>6, <1>11, <2>2, OneTask, AnswersKept DEF IterInv
<1> QED  BY <1>1, <1>9, <1>10, <1>11

\* Resolving a host: it is one of the referral, and what is found is its own.
LEMMA ScheduleKeeps ==
  ASSUME IterInv, NEW t \in Tasks, NEW h \in Hosts, Schedule(t, h)
  PROVE  IterInv'
<1> DEFINE o == hop[t]
<1>1. /\ at[t] = "resolve" /\ h \in o.queue
      /\ UNCHANGED <<deleg, hosts, stored, at, ask, chain, walk, packet, out>>
  BY DEF Schedule, caches
<1>2. Resolving(o) /\ "depth" \in DOMAIN walk[t] /\ walk[t].depth \in 0 .. MaxDepth /\ walk[t].depth # MaxDepth
  BY <1>1, Present DEF Sane
<1>3. hop' = [hop EXCEPT ![t] = hop'[t]] /\ Resolving(hop'[t])
  <2>1. CASE hop' = [hop EXCEPT ![t].queue = @ \ {h}]
    <3>1. hop'[t] = [o EXCEPT !.queue = @ \ {h}] /\ hop' = [hop EXCEPT ![t] = [o EXCEPT !.queue = @ \ {h}]]
      BY <2>1 DEF IterInv, Shapes
    <3> QED  BY <1>2, <3>1 DEF Resolving
  <2>2. CASE /\ hosts[h] # None
             /\ hop' = [hop EXCEPT ![t] = [o EXCEPT !.queue = @ \ {h}, !.got = @ \cup hosts[h]]]
    <3>1. hop'[t] = [o EXCEPT !.queue = @ \ {h}, !.got = @ \cup hosts[h]]
      BY <2>2 DEF IterInv, Shapes
    <3>2. h \in o.from.nss /\ hosts[h] \subseteq Addresses[h]
      BY <1>1, <1>2, <2>2 DEF IterInv, ServersTrue, Resolving
    <3> HIDE DEF o
    <3>3. Resolving(hop'[t])
      BY <1>2, <3>1, <3>2 DEF Resolving
    <3> QED  BY <2>2, <3>1, <3>3
  <2>3. CASE hop' = [hop EXCEPT ![t] = [o EXCEPT !.queue = @ \ {h}, !.asking = @ \cup {h}]]
    <3>1. hop'[t] = [o EXCEPT !.queue = @ \ {h}, !.asking = @ \cup {h}]
      BY <2>3 DEF IterInv, Shapes
    <3> HIDE DEF o
    <3>2. Resolving(hop'[t])
      BY <1>1, <1>2, <3>1 DEF Resolving
    <3> QED  BY <2>3, <3>1, <3>2
  <2> QED  BY <2>1, <2>2, <2>3 DEF Schedule
<1>4. Keeps(t)
  BY <1>1, <1>2, <1>3, WalkKeeps
<1> QED  BY <1>1, <1>4, CachesAlone

LEMMA HostResolvedKeeps ==
  ASSUME IterInv, NEW t \in Tasks, NEW h \in Hosts, HostResolved(t, h)
  PROVE  IterInv'
<1> DEFINE o == hop[t]
<1>1. PICK E \in Found[h] :
        /\ hop' = [hop EXCEPT ![t] = [o EXCEPT !.asking = @ \ {h}, !.got = @ \cup E]]
        /\ hosts' = IF E = {} THEN hosts ELSE [hosts EXCEPT ![h] = E]
  BY DEF HostResolved
<1>2. at[t] = "resolve" /\ h \in o.asking /\ UNCHANGED <<deleg, stored, at, ask, chain, walk, packet, out>>
  BY DEF HostResolved
<1>3. E \subseteq Addresses[h]
  BY <1>1, WorldAssumption
<1>4. Resolving(o) /\ "depth" \in DOMAIN walk[t] /\ walk[t].depth \in 0 .. MaxDepth /\ walk[t].depth # MaxDepth
  BY <1>2, Present DEF Sane
<1>5. hop'[t] = [o EXCEPT !.asking = @ \ {h}, !.got = @ \cup E]
  BY <1>1 DEF IterInv, Shapes
<1> HIDE DEF o
<1>6. Resolving(hop'[t])
  BY <1>2, <1>3, <1>4, <1>5 DEF Resolving
<1>7. Keeps(t)
  BY <1>1, <1>2, <1>4, <1>5, <1>6, WalkKeeps
<1>8. ServersTrue'
  <2>1. DOMAIN hosts' = Hosts /\ \A x \in Hosts : hosts'[x] # None => hosts'[x] \subseteq Addresses[x]
    BY <1>1, <1>3 DEF IterInv, ServersTrue
  <2> QED  BY <1>2, <2>1 DEF IterInv, ServersTrue, Delegation, Endpoints
<1> QED  BY <1>2, <1>7, <1>8, OneTask, AnswersKept DEF IterInv

LEMMA HopDeadlineKeeps == ASSUME IterInv, NEW t \in Tasks, HopDeadline(t) PROVE IterInv'
<1> DEFINE o == [hop[t] EXCEPT !.queue = {}]
<1>1. /\ at[t] = "resolve" /\ hop' = [hop EXCEPT ![t] = o]
      /\ UNCHANGED <<deleg, hosts, stored, at, ask, chain, walk, packet, out>>
  BY DEF HopDeadline, caches
<1>2. Resolving(hop[t]) /\ "depth" \in DOMAIN walk[t] /\ walk[t].depth \in 0 .. MaxDepth /\ walk[t].depth # MaxDepth
  BY <1>1, Present DEF Sane
<1>3. Resolving(o)
  BY <1>2 DEF Resolving
<1>4. hop'[t] = o
  BY <1>1 DEF IterInv, Shapes
<1> HIDE DEF o
<1>5. Keeps(t)
  BY <1>1, <1>2, <1>3, <1>4, WalkKeeps
<1> QED  BY <1>1, <1>5, CachesAlone

\* What a valid referral and the addresses of its hosts make known is true.
LEMMA DelegatedTrue ==
  ASSUME ServersTrue, NEW n \in Names, NEW p, RefersTruly(p), Valid(p, n),
         NEW E, E \subseteq UNION {Addresses[x] : x \in p.nss}, NEW z \in Names,
         deleg' = Delegated(deleg, p.zones, n, E)
  PROVE  DOMAIN deleg' = Names /\ (deleg'[z] # None => deleg'[z] \in Delegation(z))
<1> DEFINE y == Deepest({x \in p.zones : Encloses(x, n)})
           new == [endpoints |-> Filter(E), cooling |-> FALSE]
<1>1. deleg' = deleg \/ (Filter(E) # {} /\ deleg' = [deleg EXCEPT ![y] = new])
  BY DEF Delegated
<1>2. {x \in p.zones : Encloses(x, n)} = p.zones
  BY DEF Valid
<1>3. y = Deepest(p.zones)
  BY <1>2
<1> HIDE DEF y
<1>4. Filter(E) # {} => new \in Delegation(y)
  <2>1. p.nss \subseteq NsOf[y]
    BY <1>3 DEF RefersTruly
  <2>2. Filter(E) \subseteq Endpoints(y) \cap Allowed
    BY <2>1 DEF Filter, Endpoints
  <2> QED  BY <2>2 DEF Delegation
<1> HIDE DEF new
<1> QED  BY <1>1, <1>4 DEF ServersTrue

LEMMA HostsDoneKeeps == ASSUME IterInv, NEW t \in Tasks, HostsDone(t) PROVE IterInv'
<1> DEFINE p == hop[t].from
           got == hop[t].got
           next == walk[t].next \cup got
           w == [walk[t] EXCEPT !.next = next, !.tried = IF got = {} THEN @ \ {p.nss} ELSE @,
                                !.flying = IF Cardinality(next) >= Enough THEN {} ELSE @]
<1>1. /\ at[t] = "resolve" /\ walk' = [walk EXCEPT ![t] = w] /\ hop' = [hop EXCEPT ![t] = NoHop]
      /\ at' = [at EXCEPT ![t] = "collect"] /\ UNCHANGED <<hosts, stored, ask, chain, packet, out>>
      /\ deleg' = IF got # {} /\ Valid(p, Name(t)) THEN Delegated(deleg, p.zones, Name(t), got) ELSE deleg
  BY DEF HostsDone, Goto
<1>2. Resolving(hop[t]) /\ "depth" \in DOMAIN walk[t] /\ walk[t].depth \in 0 .. MaxDepth /\ walk[t].depth # MaxDepth
  BY <1>1, Present DEF Sane
<1>3. "depth" \in DOMAIN w /\ w.depth = walk[t].depth
  BY <1>2
<1>4. RefersTruly(p) /\ got \subseteq UNION {Addresses[x] : x \in p.nss}
  BY <1>2 DEF Resolving
<1> HIDE DEF w, p, got
<1>5. walk'[t] = w /\ hop'[t] = NoHop /\ at'[t] = "collect"
  BY <1>1 DEF IterInv, Shapes
<1>6. Keeps(t)
  BY <1>1, <1>2, <1>3, <1>5, WalkKeeps
<1>7. Name(t) \in Names
  BY <1>1, Present DEF Name
<1>8. DOMAIN deleg' = Names /\ \A z \in Names : deleg'[z] # None => deleg'[z] \in Delegation(z)
  <2>1. CASE got # {} /\ Valid(p, Name(t))
    <3>1. deleg' = Delegated(deleg, p.zones, Name(t), got)
      BY <1>1, <2>1
    <3>2. \A z \in Names : DOMAIN deleg' = Names /\ (deleg'[z] # None => deleg'[z] \in Delegation(z))
      BY <1>4, <1>7, <2>1, <3>1, DelegatedTrue DEF IterInv
    <3> QED  BY <1>7, <3>2
  <2>2. CASE deleg' = deleg
    BY <2>2 DEF IterInv, ServersTrue
  <2> QED  BY <1>1, <2>1, <2>2
<1>9. ServersTrue'
  BY <1>1, <1>8 DEF IterInv, ServersTrue, Delegation, Endpoints
<1> QED  BY <1>1, <1>6, <1>9, OneTask, AnswersKept DEF IterInv

LEMMA GoDeeperKeeps == ASSUME IterInv, NEW t \in Tasks, GoDeeper(t) PROVE IterInv'
<1> DEFINE w == [walk[t] EXCEPT !.cands = walk[t].next, !.next = {}, !.depth = @ + 1]
<1>1. /\ at[t] = "collect" /\ walk' = [walk EXCEPT ![t] = w] /\ at' = [at EXCEPT ![t] = "hop"]
      /\ UNCHANGED <<deleg, hosts, stored, ask, chain, hop, packet, out>>
  BY DEF GoDeeper, HopOver, Goto, caches
<1>2. "depth" \in DOMAIN walk[t] /\ walk[t].depth \in 0 .. MaxDepth /\ walk[t].depth # MaxDepth
  BY <1>1, Present DEF Sane
<1>3. "depth" \in DOMAIN w /\ w.depth = walk[t].depth + 1
  BY <1>2
<1> HIDE DEF w
<1>4. walk'[t] = w /\ at'[t] = "hop"
  BY <1>1 DEF IterInv, Shapes
<1>5. w.depth \in 0 .. MaxDepth
  BY <1>2, <1>3, ConfigurationAssumption
<1>6. Keeps(t)
  BY <1>1, <1>3, <1>4, <1>5, WalkKeeps
<1> QED  BY <1>1, <1>6, CachesAlone

LEMMA RetryFromRootsKeeps == ASSUME IterInv, NEW t \in Tasks, RetryFromRoots(t) PROVE IterInv'
<1> DEFINE w == [walk[t] EXCEPT !.cands = Roots, !.seed = None, !.depth = 1]
           z == walk[t].seed
<1>1. /\ at[t] = "collect" /\ walk' = [walk EXCEPT ![t] = w] /\ at' = [at EXCEPT ![t] = "hop"]
      /\ walk[t].depth = 0
      /\ UNCHANGED <<hosts, stored, ask, chain, hop, packet, out>>
      /\ deleg' = IF deleg[z] = None THEN deleg ELSE [deleg EXCEPT ![z].cooling = TRUE]
  BY DEF RetryFromRoots, HopOver, StartedFromCache, Goto
<1>2. "depth" \in DOMAIN walk[t] /\ walk[t].depth \in 0 .. MaxDepth /\ walk[t].depth # MaxDepth
  BY <1>1, Present DEF Sane
<1>3. "depth" \in DOMAIN w /\ w.depth = 1
  BY <1>2
<1> HIDE DEF w, z
<1>4. walk'[t] = w /\ at'[t] = "hop"
  BY <1>1 DEF IterInv, Shapes
<1>5. w.depth \in 0 .. MaxDepth
  BY <1>1, <1>2, <1>3, ConfigurationAssumption
<1>6. Keeps(t)
  BY <1>1, <1>3, <1>4, <1>5, WalkKeeps
<1>7. ServersTrue'
  <2>1. DOMAIN deleg' = Names
    BY <1>1 DEF IterInv, ServersTrue
  <2>2. ASSUME NEW y \in Names, deleg'[y] # None PROVE deleg'[y] \in Delegation(y)
    <3>1. CASE deleg'[y] = deleg[y]
      BY <2>2, <3>1 DEF IterInv, ServersTrue
    <3>2. CASE y = z /\ deleg[z] # None /\ deleg'[y] = [deleg[y] EXCEPT !.cooling = TRUE]
      <4>1. deleg[y] \in Delegation(y)
        BY <3>2 DEF IterInv, ServersTrue
      <4> QED  BY <3>2, <4>1 DEF Delegation
    <3> QED  BY <1>1, <3>1, <3>2 DEF IterInv, ServersTrue
  <2> QED  BY <1>1, <2>1, <2>2 DEF IterInv, ServersTrue, Delegation, Endpoints
<1> QED  BY <1>1, <1>6, <1>7, OneTask, AnswersKept DEF IterInv

\* The bootstrap resolvers are asked for the name of the walk.
LEMMA DeadEndKeeps == ASSUME IterInv, NEW t \in Tasks, DeadEnd(t) PROVE IterInv'
<1>1. at[t] = "collect" /\ UNCHANGED <<deleg, hosts, stored, ask, chain>>
  BY DEF DeadEnd, HopOver, caches
<1>2. ASSUME NEW p \in Recursive[Name(t)], EndWalk(t, p) PROVE IterInv'
  <2>1. Truthful(Name(t), p)
    BY <1>1, Present, TruthAssumption DEF Name
  <2> QED  BY <1>1, <1>2, <2>1, EndWalkKeeps, CachesAlone
<1>3. CASE EndWalk(t, Error("noglue"))
  <2>1. IsError(Error("noglue"))
    BY DEF IsError, Error, Errors
  <2> QED  BY <1>1, <1>3, <2>1, EndWalkKeeps, CachesAlone
<1> QED  BY <1>2, <1>3 DEF DeadEnd

LEMMA StepTimesOutKeeps == ASSUME IterInv, NEW t \in Tasks, StepTimesOut(t) PROVE IterInv'
<1>1. /\ at[t] # "idle" /\ EndWalk(t, Error("budget"))
      /\ UNCHANGED <<deleg, hosts, stored, ask, chain>>
  BY DEF StepTimesOut, caches
<1>2. IsError(Error("budget"))
  BY DEF IsError, Error, Errors
<1> QED  BY <1>1, <1>2, EndWalkKeeps, CachesAlone

\* After a walk that failed the bootstrap resolvers tell of the rest of the chain.
LEMMA WalkFailedKeeps == ASSUME IterInv, NEW t \in Tasks, WalkFailed(t) PROVE IterInv'
<1>1. at[t] = "bridge" /\ UNCHANGED <<deleg, hosts, stored, ask, chain>>
  BY DEF WalkFailed, caches
<1>2. ASSUME NEW p \in Recursive[Name(t)], Finish(t, [p EXCEPT !.links = @ \cup chain[t].links]) PROVE IterInv'
  <2> DEFINE q == [p EXCEPT !.links = @ \cup chain[t].links]
  <2>1. Truthful(Name(t), p)
    BY <1>1, Present, TruthAssumption DEF Name
  <2>2. q.links = chain[t].links \cup p.links /\ q.leaf = p.leaf /\ q.about = Name(t)
    BY <2>1 DEF Truthful, Packet
  <2> HIDE DEF q
  <2>3. Unbroken(ask[t].name, q)
    BY <1>1, <2>1, <2>2, Present, JoinIsUnbroken DEF Truthful, Name
  <2>4. Keeps(t)
    BY <1>1, <1>2, <2>2, <2>3, FinishKeeps DEF q
  <2> QED  BY <1>1, <2>4, CachesAlone
<1>3. CASE Finish(t, packet[t])
  <2>1. IsError(packet[t])
    BY <1>1, Present DEF Sane
  <2> QED  BY <1>1, <1>3, <2>1, FinishKeeps, CachesAlone
<1> QED  BY <1>2, <1>3 DEF WalkFailed

\* The answer to the question is what was told last, with all CNAMEs.
LEMMA ConcludeKeeps == ASSUME IterInv, NEW t \in Tasks, Conclude(t) PROVE IterInv'
<1> DEFINE n == ask[t].name
           q == IF Terminal(t) THEN Merge(packet[t], Collected(t)) ELSE [packet[t] EXCEPT !.links = Collected(t)]
<1>1. /\ at[t] = "scan" /\ Finish(t, q) /\ UNCHANGED <<deleg, hosts, ask, chain>>
      /\ stored' = stored \/ stored' = [stored EXCEPT ![n] = [q EXCEPT !.about = n]]
  BY DEF Conclude, StoreChain
<1>2. Truthful(Name(t), packet[t]) /\ Walked(n, chain[t]) /\ n \in Names
  BY <1>1, Present DEF Sane, Name
<1>3. Collected(t) = chain[t].links \cup packet[t].links /\ Collected(t) \subseteq Names
  <2>1. packet[t].links \subseteq Names
    BY <1>2 DEF Truthful, Packet
  <2>2. chain[t].links \subseteq Names
    BY <1>2 DEF Walked, Owners, Aliases
  <2> QED  BY <2>1, <2>2 DEF Collected
<1>4. q \in Packet /\ q.links = Collected(t) /\ q.leaf = packet[t].leaf /\ q.about = Name(t)
  <2> DEFINE p == packet[t]
             L == Collected(t)
  <2>1. p \in Packet /\ p.about = Name(t) /\ L \subseteq Names
    BY <1>2, <1>3 DEF Truthful
  <2> HIDE DEF L, p
  <2>2. Merge(p, L) \in Packet /\ Merge(p, L).links = L /\ Merge(p, L).leaf = p.leaf /\ Merge(p, L).about = p.about
    BY <2>1 DEF Merge, Packet
  <2>3. /\ [p EXCEPT !.links = L] \in Packet /\ [p EXCEPT !.links = L].links = L
        /\ [p EXCEPT !.links = L].leaf = p.leaf /\ [p EXCEPT !.links = L].about = p.about
    BY <2>1 DEF Packet
  <2> QED  BY <2>1, <2>2, <2>3 DEF p, L
<1> HIDE DEF q
<1>5. Unbroken(n, q)
  BY <1>2, <1>3, <1>4, JoinIsUnbroken DEF Truthful, Name
<1>6. Keeps(t)
  BY <1>1, <1>4, <1>5, FinishKeeps
<1>7. AnswersTrue'
  <2> DEFINE s == [q EXCEPT !.about = n]
  <2>1. s \in Packet /\ s.about = n /\ s.links = q.links /\ s.leaf = q.leaf
    BY <1>2, <1>4 DEF Packet
  <2> HIDE DEF s
  <2>2. Truthful(n, s)
    BY <1>5, <2>1 DEF Truthful, Unbroken
  <2>3. \A m \in Names : stored'[m] # None => Truthful(m, stored'[m])
    BY <1>1, <2>2 DEF IterInv, AnswersTrue, s
  <2>4. DOMAIN stored' = Names
    BY <1>1 DEF IterInv, AnswersTrue
  <2> QED  BY <2>3, <2>4 DEF AnswersTrue, Truthful, Unbroken, Packet, Reach
<1> QED  BY <1>1, <1>6, <1>7, OneTask, ServersKept DEF IterInv

LEMMA FollowKeeps == ASSUME IterInv, NEW t \in Tasks, Follow(t) PROVE IterInv'
<1>1. at[t] = "scan" /\ UNCHANGED <<deleg, hosts, stored, ask>>
  BY DEF Follow, caches
<1>2. ASSUME NEW e \in {"chaindepth", "chainloop"}, Finish(t, Error(e)), chain' = chain PROVE IterInv'
  <2>1. IsError(Error(e))
    BY DEF IsError, Error, Errors
  <2> QED  BY <1>1, <1>2, <2>1, FinishKeeps, CachesAlone
<1>3. ASSUME NEW m \in packet[t].links,
             chain' = [chain EXCEPT ![t] = [name |-> Alias[m], seen |-> chain[t].seen \cup {Alias[m]},
                          links |-> Collected(t), depth |-> chain[t].depth + 1]],
             packet' = [packet EXCEPT ![t] = None], Goto(t, "step"), UNCHANGED <<walk, hop, out>>
      PROVE  IterInv'
  <2> DEFINE c == [name |-> Alias[m], seen |-> chain[t].seen \cup {Alias[m]},
                   links |-> Collected(t), depth |-> chain[t].depth + 1]
  <2>1. Shapes
    BY DEF IterInv
  <2>2. Shapes'
    BY <1>1, <1>3, <2>1 DEF Shapes, Goto
  <2>3. chain'[t] = c /\ at'[t] = "step" /\ ask'[t] = ask[t] /\ walk'[t] = walk[t]
    BY <1>1, <1>3, <2>1 DEF Shapes, Goto
  <2>4. c.name = Alias[m] /\ c.links = chain[t].links \cup packet[t].links
    BY DEF Collected
  <2> HIDE DEF c
  <2>5. Sane(at[t], ask[t], chain[t], walk[t], hop[t], packet[t], out[t])
        /\ ask[t].name \in Names /\ Walked(ask[t].name, chain[t])
    BY <1>1, Present
  <2>6. Unbroken(chain[t].name, packet[t])
    BY <1>1, <2>5 DEF Sane, Truthful
  <2>7. Walked(ask[t].name, c)
    BY <2>4, <2>5, <2>6, ChainGoesOn
  <2>8. Sane("step", ask[t], c, walk[t], hop'[t], packet'[t], out'[t])
    BY <1>1, <2>5, <2>7 DEF Sane
  <2>9. \A s \in Tasks \ {t} : chain'[s] = chain[s] /\ at'[s] = at[s] /\ packet'[s] = packet[s]
    BY <1>3, <2>1 DEF Shapes, Goto
  <2>10. Keeps(t)
    BY <1>1, <1>3, <2>2, <2>3, <2>8, <2>9 DEF Keeps
  <2> QED  BY <1>1, <2>10, CachesAlone
<1>4. PICK x \in NextNames(t) :
        IF chain[t].depth >= MaxChain THEN Finish(t, Error("chaindepth")) /\ UNCHANGED chain
        ELSE IF x \in chain[t].seen THEN Finish(t, Error("chainloop")) /\ UNCHANGED chain
        ELSE /\ chain' = [chain EXCEPT ![t] = [name |-> x, seen |-> chain[t].seen \cup {x},
                             links |-> Collected(t), depth |-> chain[t].depth + 1]]
             /\ packet' = [packet EXCEPT ![t] = None] /\ Goto(t, "step") /\ UNCHANGED <<walk, hop, out>>
  BY DEF Follow
<1>5. PICK m \in packet[t].links : x = Alias[m]
  BY DEF NextNames
<1> QED  BY <1>2, <1>3, <1>4, <1>5

LEMMA BystanderKeeps ==
  ASSUME IterInv,
         \/ \E t \in Tasks : BudgetPasses(t)
         \/ \E z \in Names : DropDelegation(z) \/ CooldownEnds(z)
         \/ UNCHANGED iterVars
  PROVE  IterInv'
<1>1. UNCHANGED <<hosts, stored, at, ask, chain, walk, hop, packet, out>>
  BY DEF BudgetPasses, DropDelegation, CooldownEnds, iterVars, caches
<1>2. Shapes' /\ AnswersTrue'
  BY <1>1, AnswersKept DEF IterInv, Shapes
<1>3. \A t \in Tasks : TaskInv(t)'
  <2>1. \A t \in Tasks : Sane(at'[t], ask'[t], chain'[t], walk'[t], hop'[t], packet'[t], out'[t])
    BY <1>1 DEF IterInv, TaskInv
  <2> QED  BY <2>1 DEF TaskInv
<1>4. ServersTrue'
  <2>1. CASE deleg' = deleg
    BY <1>1, <2>1, ServersKept DEF IterInv
  <2>2. ASSUME NEW z \in Names, DropDelegation(z) PROVE ServersTrue'
    <3>1. deleg' = [deleg EXCEPT ![z] = None]
      BY <2>2 DEF DropDelegation
    <3>2. DOMAIN deleg' = Names /\ \A y \in Names : deleg'[y] # None => deleg'[y] \in Delegation(y)
      BY <3>1 DEF IterInv, ServersTrue
    <3> QED  BY <1>1, <3>2 DEF IterInv, ServersTrue, Delegation, Endpoints
  <2>3. ASSUME NEW z \in Names, CooldownEnds(z) PROVE ServersTrue'
    <3>1. deleg[z] # None /\ deleg' = [deleg EXCEPT ![z] = [deleg[z] EXCEPT !.cooling = FALSE]]
      BY <2>3 DEF CooldownEnds
    <3>2. deleg[z] \in Delegation(z)
      BY <3>1 DEF IterInv, ServersTrue
    <3>3. [deleg[z] EXCEPT !.cooling = FALSE] \in Delegation(z)
      BY <3>2 DEF Delegation
    <3>4. DOMAIN deleg' = Names /\ \A y \in Names : deleg'[y] # None => deleg'[y] \in Delegation(y)
      BY <3>1, <3>3 DEF IterInv, ServersTrue
    <3> QED  BY <1>1, <3>4 DEF IterInv, ServersTrue, Delegation, Endpoints
  <2> QED  BY <2>1, <2>2, <2>3 DEF BudgetPasses, caches, iterVars
<1> QED  BY <1>2, <1>3, <1>4 DEF IterInv

LEMMA IterStarts == Init => IterInv
<1> SUFFICES ASSUME Init PROVE IterInv
  OBVIOUS
<1>1. Shapes /\ ServersTrue /\ AnswersTrue
  BY DEF Init, Shapes, ServersTrue, AnswersTrue
<1>2. ASSUME NEW t \in Tasks PROVE TaskInv(t)
  <2>1. at[t] = "idle" /\ walk[t] = NoWalk
    BY DEF Init
  <2>2. "depth" \in DOMAIN NoWalk /\ NoWalk.depth \in 0 .. MaxDepth
    BY ConfigurationAssumption DEF NoWalk
  <2> QED  BY <2>1, <2>2 DEF TaskInv, Sane
<1> QED  BY <1>1, <1>2 DEF IterInv

LEMMA IterContinues == IterInv /\ [Next]_iterVars => IterInv'
<1> SUFFICES ASSUME IterInv, [Next]_iterVars PROVE IterInv'
  OBVIOUS
<1>1. ASSUME NEW t \in Tasks, Start(t) \/ HopDeadline(t) PROVE IterInv'
  BY <1>1, StartKeeps, HopDeadlineKeeps
<1>2. ASSUME NEW t \in Tasks, Resolve(t) PROVE IterInv'
  <2>1. CASE AskForwarderFirst(t) \/ Step(t) \/ Begin(t) \/ Hop(t)
    BY <2>1, AskForwarderFirstKeeps, StepKeeps, BeginKeeps, HopKeeps
  <2>2. CASE \E s \in Servers : ServerFails(t, s) \/ ServerAnswers(t, s)
    BY <2>2, ServerFailsKeeps, ServerAnswersKeeps
  <2>3. CASE \E h \in Hosts : Schedule(t, h) \/ HostResolved(t, h)
    BY <2>3, ScheduleKeeps, HostResolvedKeeps
  <2>4. CASE HostsDone(t) \/ GoDeeper(t) \/ RetryFromRoots(t) \/ DeadEnd(t)
    BY <2>4, HostsDoneKeeps, GoDeeperKeeps, RetryFromRootsKeeps, DeadEndKeeps
  <2>5. CASE StepTimesOut(t) \/ WalkFailed(t) \/ Conclude(t) \/ Follow(t)
    BY <2>5, StepTimesOutKeeps, WalkFailedKeeps, ConcludeKeeps, FollowKeeps
  <2> QED  BY <1>2, <2>1, <2>2, <2>3, <2>4, <2>5 DEF Resolve
<1> QED  BY <1>1, <1>2, BystanderKeeps DEF Next

LEMMA AlwaysTrue == Spec => []IterInv
BY IterStarts, IterContinues, PTL DEF Spec
-----------------------------------------------------------------------------
\* Whatever the servers refer to, and whichever hosts answer in time, a cached
\* delegation leads to servers of its own zone, in the configured family.
THEOREM DelegationsAreTrue == Spec => []DelegationsTrue
<1>1. IterInv => DelegationsTrue
  BY DEF IterInv, ServersTrue, Delegation, DelegationsTrue
<1> QED  BY <1>1, AlwaysTrue, PTL

\* An address query that ends well is answered about the last name of its chain.
THEOREM FollowersAreAnswered == Spec => []FollowersAnswerTheirName
<1>1. IterInv => FollowersAnswerTheirName
  BY DEF IterInv, TaskInv, Sane, FollowersAnswerTheirName, Follows
<1> QED  BY <1>1, AlwaysTrue, PTL

\* However an answer was put together from walks, bootstrap resolvers and cached
\* chains, its CNAMEs are the first of the chain of the question, without a gap.
THEOREM AnswersAreUnbroken == Spec => []ChainsUnbroken
<1>1. IterInv => ChainsUnbroken
  BY DEF IterInv, TaskInv, Sane, AnswersTrue, Truthful, ChainsUnbroken, Follows
<1> QED  BY <1>1, AlwaysTrue, PTL
-----------------------------------------------------------------------------
(* The health of addresses *)

Asking == [at : {"idle", "rank", "check", "alarm"}, lookup : Lookups, scores : Seq(0 .. 2)]

HealthTyped ==
  /\ recent \subseteq Domains
  /\ asking \in [Askers -> Asking]
  /\ minutes \in Nat /\ alarms \in Nat

\* Alarms of earlier minutes, and one for each name that is recent.
Paid == alarms <= Cardinality(Domains) * minutes + Cardinality(recent)

HealthInv == HealthTyped /\ Paid

\* The names that can raise an alarm are finitely many, as the lookups are.
LEMMA DomainsFinite == IsFiniteSet(Domains) /\ Cardinality(Domains) \in Nat
<1> DEFINE name == [l \in Lookups |-> l.domain]
<1>1. name \in Surjection(Lookups, Domains)
  BY DEF Surjection, Domains
<1>2. IsFiniteSet(Domains)
  BY <1>1, FS_Surjection, LookupsAssumption
<1> QED  BY <1>2, FS_CardinalityType

\* The recent names are finitely many, no more than there are names.
LEMMA RecentFew ==
  ASSUME NEW S, S \subseteq Domains
  PROVE  IsFiniteSet(S) /\ Cardinality(S) \in Nat /\ Cardinality(S) <= Cardinality(Domains)
BY DomainsFinite, FS_Subset, FS_CardinalityType

\* One more minute is worth one alarm of every name.
LEMMA AnotherMinute ==
  ASSUME NEW d \in Nat, NEW m \in Nat
  PROVE  d * m \in Nat /\ d * (m + 1) = d * m + d /\ d * (1 + m) = d * m + d
BY SMT

LEMMA HealthStarts == HealthInit => HealthInv
<1> SUFFICES ASSUME HealthInit PROVE HealthInv
  OBVIOUS
<1>1. NoLookup \in Asking
  BY LookupsAssumption DEF NoLookup, Asking
<1>2. HealthTyped
  BY <1>1 DEF HealthInit, HealthTyped
<1>3. Cardinality(recent) = 0 /\ Cardinality(Domains) * 0 = 0
  BY FS_EmptySet, DomainsFinite DEF HealthInit
<1> QED  BY <1>2, <1>3 DEF HealthInit, HealthInv, Paid

\* A step of a query leaves a query of the same kind behind.
LEMMA QueryStepTyped ==
  ASSUME HealthTyped, NEW a \in Askers,
         (\E l \in Lookups : Register(a, l)) \/ Rank(a) \/ Check(a) \/ Alarm(a)
  PROVE  asking' \in [Askers -> Asking]
<1>1. NoLookup \in Asking
  BY LookupsAssumption DEF NoLookup, Asking
<1>2. asking[a] \in Asking
  BY DEF HealthTyped
<1>3. CASE \E l \in Lookups : Register(a, l)
  <2> PICK l \in Lookups : Register(a, l)
    BY <1>3
  <2>1. [at |-> "rank", lookup |-> l, scores |-> <<>>] \in Asking
    BY DEF Asking
  <2> QED  BY <2>1 DEF HealthTyped, Register
<1>4. CASE Rank(a)
  <2> DEFINE l == asking[a].lookup
             n == Len(asking[a].scores) + 1
             s == Score(Health(l.domain, l.ips[n]))
  <2>1. s \in 0 .. 2
    BY DEF Score
  <2> HIDE DEF s
  <2>2. [asking[a] EXCEPT !.scores = Append(@, s)] \in Asking
    <3>1. asking[a].scores \in Seq(0 .. 2) /\ asking[a] = [at |-> asking[a].at, lookup |-> l, scores |-> asking[a].scores]
      BY <1>2 DEF Asking
    <3>2. Append(asking[a].scores, s) \in Seq(0 .. 2)
      BY <2>1, <3>1
    <3> HIDE DEF l
    <3> QED  BY <1>2, <3>1, <3>2 DEF Asking
  <2>3. [asking[a] EXCEPT !.at = "check"] \in Asking
    BY <1>2 DEF Asking
  <2>4. \/ asking' = [asking EXCEPT ![a] = [asking[a] EXCEPT !.scores = Append(@, s)]]
        \/ asking' = [asking EXCEPT ![a] = [asking[a] EXCEPT !.at = "check"]]
    BY <1>4 DEF Rank, HealthTyped, s
  <2> QED  BY <2>2, <2>3, <2>4 DEF HealthTyped
<1>5. CASE Check(a)
  <2>1. [asking[a] EXCEPT !.at = "alarm"] \in Asking
    BY <1>2 DEF Asking
  <2> QED  BY <1>1, <1>5, <2>1 DEF HealthTyped, Check
<1>6. CASE Alarm(a)
  BY <1>1, <1>6 DEF HealthTyped, Alarm
<1> QED  BY <1>3, <1>4, <1>5, <1>6

\* An alarm is paid for by the name that it makes recent.
LEMMA AlarmPaid ==
  ASSUME HealthInv, NEW a \in Askers, Alarm(a)
  PROVE  recent' \subseteq Domains /\ alarms' \in Nat /\ minutes' \in Nat /\ Paid'
<1> DEFINE d == asking[a].lookup.domain
<1>1. d \in Domains
  BY DEF HealthInv, HealthTyped, Asking, Domains
<1>2. CASE d \in recent
  BY <1>2 DEF HealthInv, HealthTyped, Paid, Alarm, Domains
<1>3. CASE d \notin recent
  <2>1. recent' = recent \cup {d} /\ alarms' = alarms + 1 /\ minutes' = minutes
    BY <1>3 DEF Alarm
  <2>2. Cardinality(recent') = Cardinality(recent) + 1
    BY <1>3, <2>1, RecentFew, FS_AddElement DEF HealthInv, HealthTyped
  <2>3. Cardinality(recent) \in Nat /\ Cardinality(Domains) * minutes \in Nat
    BY RecentFew, DomainsFinite, AnotherMinute DEF HealthInv, HealthTyped
  <2>4. Cardinality(Domains)' = Cardinality(Domains)
    BY DEF Domains
  <2> QED  BY <1>1, <2>1, <2>2, <2>3, <2>4 DEF HealthInv, HealthTyped, Paid, Domains
<1> QED  BY <1>2, <1>3

\* The minute that forgets the recent names pays for all of them.
LEMMA MinutePaid ==
  ASSUME HealthInv, MinutePasses
  PROVE  HealthInv'
<1>1. Cardinality(recent') = 0
  BY FS_EmptySet DEF MinutePasses
<1>2. Cardinality(recent) \in Nat /\ Cardinality(recent) <= Cardinality(Domains)
  BY RecentFew DEF HealthInv, HealthTyped
<1>3. /\ Cardinality(Domains) * minutes \in Nat
      /\ Cardinality(Domains) * (minutes + 1) = Cardinality(Domains) * minutes + Cardinality(Domains)
  BY DomainsFinite, AnotherMinute DEF HealthInv, HealthTyped
<1>4. alarms' <= Cardinality(Domains) * minutes' + Cardinality(recent')
  <2>1. alarms <= Cardinality(Domains) * (minutes + 1)
    BY <1>2, <1>3, DomainsFinite DEF HealthInv, HealthTyped, Paid
  <2>2. Cardinality(Domains) * (minutes + 1) \in Nat
    BY <1>3, DomainsFinite
  <2> QED  BY <1>1, <2>1, <2>2 DEF MinutePasses
<1> QED  BY <1>4 DEF HealthInv, HealthTyped, Paid, MinutePasses, Domains

\* Whatever else happens leaves names, alarms and minutes alone.
LEMMA OthersPaid ==
  ASSUME HealthInv, UNCHANGED <<recent, minutes, alarms>>, asking' \in [Askers -> Asking]
  PROVE  HealthInv'
BY DEF HealthInv, HealthTyped, Paid, Domains

LEMMA HealthContinues == HealthInv /\ [HealthNext]_healthVars => HealthInv'
<1> SUFFICES ASSUME HealthInv, [HealthNext]_healthVars PROVE HealthInv'
  OBVIOUS
<1>1. CASE \E a \in Askers, l \in Lookups : Register(a, l)
  BY <1>1, QueryStepTyped, OthersPaid DEF HealthInv, Register
<1>2. CASE \E a \in Askers : Rank(a) \/ Check(a)
  BY <1>2, QueryStepTyped, OthersPaid DEF HealthInv, Rank, Check
<1>3. CASE \E a \in Askers : Alarm(a)
  BY <1>3, QueryStepTyped, AlarmPaid DEF HealthInv, HealthTyped, Asking
<1>4. CASE MinutePasses
  BY <1>4, MinutePaid
<1>5. CASE \/ Tick
           \/ \E p \in round, ok \in BOOLEAN : Probe(p[1], p[2], ok)
           \/ \E i \in DOMAIN posts, ok \in BOOLEAN : Post(i, ok)
           \/ UNCHANGED healthVars
  <2>1. UNCHANGED <<recent, minutes, alarms, asking>>
    BY <1>5 DEF Tick, Probe, Post, healthVars
  <2> QED  BY <2>1, OthersPaid DEF HealthInv, HealthTyped
<1> QED  BY <1>1, <1>2, <1>3, <1>4, <1>5 DEF HealthNext

LEMMA PaidIsSpaced == HealthInv => AlarmsSpaced
<1> SUFFICES ASSUME HealthInv PROVE AlarmsSpaced
  OBVIOUS
<1>1. Cardinality(recent) \in Nat /\ Cardinality(recent) <= Cardinality(Domains)
  BY RecentFew DEF HealthInv, HealthTyped
<1>2. /\ Cardinality(Domains) * minutes \in Nat
      /\ Cardinality(Domains) * (1 + minutes) = Cardinality(Domains) * minutes + Cardinality(Domains)
  BY DomainsFinite, AnotherMinute DEF HealthInv, HealthTyped
<1> DEFINE M == Cardinality(Domains) * minutes
           N == Cardinality(Domains) * (1 + minutes)
<1> HIDE DEF M, N
<1>3. alarms <= M + Cardinality(recent) /\ N = M + Cardinality(Domains) /\ M \in Nat
  BY <1>2 DEF HealthInv, Paid, M, N
<1>4. alarms <= N
  BY <1>1, <1>3, DomainsFinite DEF HealthInv, HealthTyped
<1> QED  BY <1>4 DEF AlarmsSpaced, N

\* However many queries, probes and posts interleave, a name whose addresses are
\* all unhealthy raises at most one alarm in a minute.
THEOREM AlarmsAreSpaced == HealthSpec => []AlarmsSpaced
<1>1. HealthInit => HealthInv
  BY HealthStarts
<1>2. HealthInv /\ [HealthNext]_healthVars => HealthInv'
  BY HealthContinues
<1>3. HealthInv => AlarmsSpaced
  BY PaidIsSpaced
<1> QED  BY <1>1, <1>2, <1>3, PTL DEF HealthSpec
-----------------------------------------------------------------------------
(* DNSSEC: the walk from a signer to an anchor and back *)

\* A path of zones, each with its DNSKEY reply or none yet.
IsEntry(e) == e = [zone |-> e.zone, keys |-> e.keys]
IsPath(p) == \E S : p \in Seq(S) /\ \A e \in S : IsEntry(e)

\* The zones below the last have published keys that wait to be vouched for; so
\* has the last, once there are keys of its parent.
Waiting ==
  \A i \in 1..Len(path) :
    i < Len(path) \/ keys # Absent =>
      path[i].zone # <<>> /\ path[i].keys \in Published(KeyReplies[path[i].zone])

\* Every zone of the path is the parent of the one before, the first a signer.
Parents ==
  /\ path # <<>> => path[1].zone \in SignersOf(request.response)
  /\ \A i \in 1..Len(path) : path[i].zone \in DOMAIN KeyReplies
  /\ \A i \in 1..Len(path) : i > 1 => path[i].zone = Front(path[i - 1].zone)

\* The keys in hand are published by the parent of the last zone of the path, or,
\* when there is none, by a signer.
InHand ==
  keys # Absent =>
    IF path = <<>> THEN \E z \in SignersOf(request.response) : keys \in PublishedKeys(z)
    ELSE keys \in PublishedKeys(Front(path[Len(path)].zone))

Walk == signers \subseteq SignersOf(request.response) /\ Waiting /\ Parents /\ InHand

\* A response that a server of the zone composed is being validated, and nothing
\* but what the zones publish was fetched so far.
Orderly == Validating /\ request.response \in Honest /\ ~strayed

DnssecInv ==
  /\ IsPath(path)
  /\ \A m \in DOMAIN verdicts : verdicts[m] # Bogus
  /\ Orderly => Walk
  /\ HonestIsServed

LEMMA SeqPrefix ==
  ASSUME NEW S, NEW s \in Seq(S), NEW k \in Nat, k <= Len(s)
  PROVE  /\ SubSeq(s, 1, k) \in Seq(S) /\ Len(SubSeq(s, 1, k)) = k
         /\ \A i \in 1..k : SubSeq(s, 1, k)[i] = s[i]
<1>1. \A i \in 1..k : s[i] \in S
  OBVIOUS
<1>2. Len(SubSeq(s, 1, k)) = k
  OBVIOUS
<1> QED  BY <1>1, <1>2

LEMMA SeqFront ==
  ASSUME NEW S, NEW s \in Seq(S), s # <<>>
  PROVE  /\ Len(s) \in Nat /\ Len(s) # 0
         /\ SubSeq(s, 1, Len(s) - 1) \in Seq(S)
         /\ Len(SubSeq(s, 1, Len(s) - 1)) = Len(s) - 1
         /\ \A i \in 1..(Len(s) - 1) : SubSeq(s, 1, Len(s) - 1)[i] = s[i]
<1>1. Len(s) \in Nat /\ Len(s) # 0
  OBVIOUS
<1>2. Len(s) - 1 \in Nat /\ Len(s) - 1 <= Len(s)
  BY <1>1
<1> QED  BY <1>1, <1>2, SeqPrefix

LEMMA SeqPush ==
  ASSUME NEW S, NEW s \in Seq(S), NEW e
  PROVE  /\ Append(s, e) \in Seq(S \cup {e})
         /\ Len(Append(s, e)) = Len(s) + 1 /\ Append(s, e)[Len(s) + 1] = e
         /\ \A i \in 1..Len(s) : Append(s, e)[i] = s[i]
<1> s \in Seq(S \cup {e}) /\ e \in S \cup {e}
  OBVIOUS
<1> QED  OBVIOUS

LEMMA SeqChange ==
  ASSUME NEW S, NEW s \in Seq(S), NEW n \in 1..Len(s), NEW e
  PROVE  /\ [s EXCEPT ![n] = e] \in Seq(S \cup {e})
         /\ Len([s EXCEPT ![n] = e]) = Len(s)
         /\ \A i \in 1..Len(s) : [s EXCEPT ![n] = e][i] = IF i = n THEN e ELSE s[i]
<1> s \in Seq(S \cup {e}) /\ e \in S \cup {e}
  OBVIOUS
<1> QED  OBVIOUS

\* No zones are a path.
LEMMA NoPath == IsPath(<<>>)
<1>1. PICK S : S = {}
  OBVIOUS
<1>2. <<>> \in Seq(S) /\ \A d \in S : IsEntry(d)
  BY <1>1
<1> QED  BY ONLY <1>2 DEF IsPath

\* What a path is without its last zone.
LEMMA PathShortens ==
  ASSUME NEW p, IsPath(p), p # <<>>, NEW q, q = Front(p)
  PROVE  /\ IsPath(q) /\ Len(p) \in Nat /\ Len(p) # 0 /\ Len(q) = Len(p) - 1
         /\ \A i \in 1..(Len(p) - 1) : q[i] = p[i]
         /\ q = <<>> <=> Len(p) = 1
<1>1. PICK S : p \in Seq(S) /\ \A d \in S : IsEntry(d)
  BY DEF IsPath
<1>2. q = SubSeq(p, 1, Len(p) - 1)
  BY DEF Front
<1>3. /\ q \in Seq(S) /\ Len(p) \in Nat /\ Len(p) # 0 /\ Len(q) = Len(p) - 1
      /\ \A i \in 1..(Len(p) - 1) : q[i] = p[i]
  BY <1>1, <1>2, SeqFront
<1>4. q = <<>> <=> Len(q) = 0
  BY <1>3
<1> QED  BY <1>1, <1>3, <1>4 DEF IsPath

\* ... and with a reply for its last zone and another zone behind it.
LEMMA PathGrows ==
  ASSUME NEW p, IsPath(p), p # <<>>, NEW reply, NEW zone, NEW q,
         q = Append([p EXCEPT ![Len(p)].keys = reply], [zone |-> zone, keys |-> Absent])
  PROVE  /\ IsPath(q) /\ Len(p) \in Nat /\ Len(p) # 0 /\ Len(q) = Len(p) + 1
         /\ q[Len(p) + 1].zone = zone /\ q[Len(p) + 1].keys = Absent
         /\ \A i \in 1..Len(p) :
              q[i].zone = p[i].zone /\ q[i].keys = IF i = Len(p) THEN reply ELSE p[i].keys
<1> DEFINE n == Len(p)
           next == [zone |-> zone, keys |-> Absent]
           e == [p[n] EXCEPT !.keys = reply]
           changed == [p EXCEPT ![n] = e]
<1>1. PICK S : p \in Seq(S) /\ \A d \in S : IsEntry(d)
  BY DEF IsPath
<1>2. n \in Nat /\ n # 0 /\ n \in 1..n /\ p[n] \in S
  BY <1>1
<1>3. e.zone = p[n].zone /\ e.keys = reply /\ IsEntry(e)
  <2>1. p[n] = [zone |-> p[n].zone, keys |-> p[n].keys]
    BY <1>1, <1>2 DEF IsEntry
  <2>2. e = [zone |-> p[n].zone, keys |-> reply]
    BY <2>1
  <2> QED  BY <2>2 DEF IsEntry
<1>4. next.zone = zone /\ next.keys = Absent /\ IsEntry(next)
  BY DEF IsEntry
<1>5. q = Append(changed, next)
  OBVIOUS
<1> HIDE DEF next, e
<1>6. /\ changed \in Seq(S \cup {e}) /\ Len(changed) = n
      /\ \A i \in 1..n : changed[i] = IF i = n THEN e ELSE p[i]
  BY <1>1, <1>2, SeqChange
<1> HIDE DEF changed
<1> DEFINE T == S \cup {e}
<1>7. changed \in Seq(T)
  BY <1>6
<1> HIDE DEF T
<1>8. /\ Append(changed, next) \in Seq(T \cup {next})
      /\ Len(Append(changed, next)) = Len(changed) + 1
      /\ Append(changed, next)[Len(changed) + 1] = next
      /\ \A i \in 1..Len(changed) : Append(changed, next)[i] = changed[i]
  BY <1>7, SeqPush
<1>9. /\ q \in Seq(T \cup {next}) /\ Len(q) = n + 1 /\ q[n + 1] = next
      /\ \A i \in 1..n : q[i] = changed[i]
  BY <1>5, <1>6, <1>8
<1>10. \A d \in T \cup {next} : IsEntry(d)
  BY <1>1, <1>3, <1>4 DEF T
<1>11. IsPath(q)
  BY <1>9, <1>10, Zenon DEF IsPath
<1>12. \A i \in 1..n : q[i].zone = p[i].zone /\ q[i].keys = IF i = n THEN reply ELSE p[i].keys
  BY <1>3, <1>6, <1>9
<1> QED  BY <1>2, <1>4, <1>9, <1>11, <1>12

\* Bogus is not one of the other verdicts.
LEMMA Verdicts == Bogus # Secure /\ Bogus # Insecure
BY DEF Bogus, Secure, Insecure

\* A validation that ends leaves nothing of its walk.
LEMMA EndKeeps ==
  ASSUME DnssecInv, NEW v, Answered(v), UNCHANGED request, v = Bogus => (request.response \in Honest => strayed'),
         \A m \in DOMAIN verdicts' : verdicts'[m] # Bogus
  PROVE  DnssecInv'
<1>1. IsPath(path')
  BY NoPath DEF Answered
<1>2. Walk'
  <2>1. signers' = {} /\ path' = <<>> /\ keys' = Absent /\ Len(path') = 0
    BY DEF Answered
  <2> QED  BY <2>1 DEF Walk, Waiting, Parents, InHand
<1>3. HonestIsServed'
  BY DEF HonestIsServed, Answered
<1> QED  BY <1>1, <1>2, <1>3 DEF DnssecInv

\* Keys that are valid leave the rest of the path as it was.
LEMMA AcceptKeeps ==
  ASSUME DnssecInv, NEW ks, Accept(ks), path # <<>>, UNCHANGED <<request, verdicts>>, ~strayed' => ~strayed,
         Orderly /\ ~strayed' => ks \in PublishedKeys(path[Len(path)].zone)
  PROVE  DnssecInv'
<1> DEFINE n == Len(path)
<1>1. IsPath(path) /\ path' = Front(path) /\ keys' = ks /\ UNCHANGED <<signers, outcome>>
  BY DEF DnssecInv, Accept
<1>2. n \in Nat /\ n # 0
  BY <1>1, PathShortens
<1>3. UNCHANGED <<signers, outcome>> /\ keys' = ks
  BY <1>1
<1>4. Len(path') = n - 1 /\ (path' = <<>> <=> n = 1) /\ \A i \in 1..(n - 1) : path'[i] = path[i]
  BY <1>1, PathShortens
<1>5. IsPath(path')
  BY <1>1, PathShortens
<1>6. ASSUME Orderly' PROVE Walk'
  <2>1. Orderly /\ Walk /\ ks \in PublishedKeys(path[n].zone)
    BY <1>3, <1>6 DEF Orderly, Validating, DnssecInv
  <2>2. Waiting'
    BY <1>2, <1>4, <2>1 DEF Walk, Waiting
  <2>3. Parents'
    <3>1. path' # <<>> => n - 1 >= 1 /\ path # <<>>
      BY <1>2, <1>4
    <3>2. \A i \in 1..(n - 1) : i \in 1..n /\ (i > 1 => i - 1 \in 1..(n - 1))
      BY <1>2
    <3>3. \A i \in 1..n : path[i].zone \in DOMAIN KeyReplies /\ (i > 1 => path[i].zone = Front(path[i - 1].zone))
      BY <2>1 DEF Walk, Parents
    <3>4. \A i \in 1..(n - 1) : path'[i].zone \in DOMAIN KeyReplies
                                /\ (i > 1 => path'[i].zone = Front(path'[i - 1].zone))
      BY <1>4, <3>2, <3>3
    <3>5. path' # <<>> => path'[1].zone \in SignersOf(request.response)
      <4>1. path' # <<>> => 1 \in 1..(n - 1)
        BY <1>2, <3>1
      <4> QED  BY <1>4, <2>1, <3>1, <4>1 DEF Walk, Parents
    <3> QED  BY <1>4, <3>4, <3>5 DEF Parents
  <2>4. InHand'
    <3>1. CASE n = 1
      <4>1. path' = <<>>
        BY <1>4, <3>1
      <4> QED  BY <1>3, <2>1, <3>1, <4>1 DEF Walk, Parents, InHand
    <3>2. CASE n # 1
      <4>1. n - 1 \in 1..(n - 1) /\ n \in 1..n /\ n > 1 /\ path' # <<>>
        BY <1>2, <1>4, <3>2
      <4>2. path[n].zone = Front(path[n - 1].zone)
        BY <2>1, <4>1 DEF Walk, Parents
      <4> QED  BY <1>3, <1>4, <2>1, <4>1, <4>2 DEF InHand
    <3> QED  BY <3>1, <3>2
  <2> QED  BY <1>3, <2>1, <2>2, <2>3, <2>4 DEF Walk
<1>7. HonestIsServed'
  BY <1>3, Verdicts DEF DnssecInv, HonestIsServed
<1> QED  BY <1>5, <1>6, <1>7 DEF DnssecInv

\* The zone's reply waits, and its parent is next.
LEMMA ClimbKeeps ==
  ASSUME DnssecInv, path # <<>>, NEW reply, NEW z, z = path[Len(path)].zone, z # <<>>,
         path' = Append([path EXCEPT ![Len(path)].keys = reply], [zone |-> Front(z), keys |-> Absent]),
         UNCHANGED <<request, signers, keys, outcome, verdicts>>, ~strayed' => ~strayed,
         Orderly /\ ~strayed' => keys = Absent /\ reply \in Published(KeyReplies[z])
  PROVE  DnssecInv'
<1> DEFINE n == Len(path)
<1>1. IsPath(path)
  BY DEF DnssecInv
<1>2. n \in Nat /\ n # 0 /\ n \in 1..n
  BY <1>1, PathGrows
<1>4. Len(path') = n + 1 /\ path'[n + 1].zone = Front(z)
  BY <1>1, PathGrows
<1>7. \A i \in 1..n :
        path'[i].zone = path[i].zone /\ path'[i].keys = IF i = n THEN reply ELSE path[i].keys
  BY <1>1, PathGrows
<1>8. IsPath(path')
  BY <1>1, PathGrows
<1>9. ASSUME Orderly' PROVE Walk'
  <2>1. Orderly /\ Walk /\ keys = Absent /\ reply \in Published(KeyReplies[z])
    BY <1>9 DEF Orderly, Validating, DnssecInv
  <2>2. z \in DOMAIN KeyReplies
    BY <1>2, <2>1 DEF Walk, Parents
  <2>3. Front(z) \in DOMAIN KeyReplies
    BY <2>2, PublishedAssumption
  <2>4. Waiting'
    <3> SUFFICES ASSUME NEW i \in 1..(n + 1), i < n + 1
                 PROVE  path'[i].zone # <<>> /\ path'[i].keys \in Published(KeyReplies[path'[i].zone])
      BY <1>4, <2>1 DEF Waiting
    <3>1. i \in 1..n
      BY <1>2
    <3>2. path'[i].zone = path[i].zone /\ path'[i].keys = IF i = n THEN reply ELSE path[i].keys
      BY <1>7, <3>1
    <3>3. CASE i = n
      BY <2>1, <3>2, <3>3
    <3>4. CASE i # n
      <4>1. i < Len(path)
        BY <1>2, <3>1, <3>4
      <4> QED  BY <2>1, <3>1, <3>2, <3>4, <4>1 DEF Walk, Waiting
    <3> QED  BY <3>3, <3>4
  <2>5. Parents'
    <3>1. path'[1].zone = path[1].zone
      BY <1>2, <1>7
    <3>2. ASSUME NEW i \in 1..(n + 1) PROVE path'[i].zone \in DOMAIN KeyReplies
      <4>1. CASE i = n + 1
        BY <1>4, <2>3, <4>1
      <4>2. CASE i # n + 1
        <5>1. i \in 1..n
          BY <1>2, <4>2
        <5> QED  BY <1>7, <2>1, <5>1 DEF Walk, Parents
      <4> QED  BY <4>1, <4>2
    <3>3. ASSUME NEW i \in 1..(n + 1), i > 1 PROVE path'[i].zone = Front(path'[i - 1].zone)
      <4>0. i - 1 \in 1..n
        BY <1>2, <3>3
      <4>1. path'[i - 1].zone = path[i - 1].zone
        BY <1>7, <4>0
      <4>2. CASE i = n + 1
        <5>1. i - 1 = n /\ path'[i].zone = Front(z)
          BY <1>2, <1>4, <4>2
        <5> QED  BY <4>1, <5>1
      <4>3. CASE i # n + 1
        <5>1. i \in 1..n
          BY <1>2, <4>3
        <5>2. path'[i].zone = path[i].zone
          BY <1>7, <5>1
        <5> QED  BY <2>1, <3>3, <4>1, <5>1, <5>2 DEF Walk, Parents
      <4> QED  BY <4>2, <4>3
    <3> QED  BY <1>2, <1>4, <2>1, <3>1, <3>2, <3>3 DEF Walk, Parents
  <2>6. InHand'
    BY <2>1 DEF InHand
  <2> QED  BY <2>1, <2>4, <2>5, <2>6 DEF Walk
<1>10. HonestIsServed'
  BY DEF DnssecInv, HonestIsServed
<1> QED  BY <1>8, <1>9, <1>10 DEF DnssecInv

LEMMA ReceiveKeeps ==
  ASSUME DnssecInv, NEW m, NEW cd, NEW do, Receive(m, cd, do)
  PROVE  DnssecInv'
<1>1. /\ request'.response = m /\ keys' = Absent /\ path' = <<>> /\ UNCHANGED verdicts
      /\ signers' \in {{}, SignersOf(m)}
      /\ outcome' # Bogus
  <2>1. /\ request' = [checkingDisabled |-> cd, dnssecOk |-> do, response |-> m]
        /\ keys' = Absent /\ path' = <<>> /\ UNCHANGED verdicts
        /\ signers' \in {{}, SignersOf(m)}
        /\ outcome' = Insecure \/ outcome' = Absent \/ (m \in DOMAIN verdicts /\ outcome' = verdicts[m])
    <3>1. CASE Enabled /\ ~cd /\ do /\ HasTypes(m, {"DNSKEY", "DS"})
      BY <3>1, Zenon DEF Receive
    <3>2. CASE ~(Enabled /\ ~cd /\ do /\ HasTypes(m, {"DNSKEY", "DS"}))
      BY <3>2, Zenon DEF Receive
    <3> QED  BY <3>1, <3>2
  <2>2. Absent # Bogus
    BY PublishedAssumption
  <2> QED  BY <2>1, <2>2, Verdicts DEF DnssecInv
<1>2. IsPath(path')
  BY <1>1, NoPath
<1>3. Walk'
  <2>1. Len(path') = 0
    BY <1>1
  <2> QED  BY <1>1, <2>1 DEF Walk, Waiting, Parents, InHand
<1> QED  BY <1>1, <1>2, <1>3 DEF DnssecInv, HonestIsServed

LEMMA TrySignerKeeps ==
  ASSUME DnssecInv, NEW z, TrySigner(z)
  PROVE  DnssecInv'
<1>1. /\ Validating /\ keys = Absent /\ z \in signers /\ signers' = signers \ {z}
      /\ path' = << [zone |-> z, keys |-> Absent] >>
      /\ UNCHANGED <<request, keys, outcome, verdicts, strayed>>
  BY DEF TrySigner
<1> DEFINE e == [zone |-> z, keys |-> Absent]
<1>2. e.zone = z /\ IsEntry(e)
  BY DEF IsEntry
<1>3. path' = <<e>>
  BY <1>1
<1> HIDE DEF e
<1>4. path' \in Seq({e}) /\ Len(path') = 1 /\ path'[1] = e
  BY <1>2, <1>3
<1>5. IsPath(path')
  <2>1. \A d \in {e} : IsEntry(d)
    BY <1>2
  <2>2. \E S : path' \in Seq(S) /\ \A d \in S : IsEntry(d)
    BY <1>4, <2>1
  <2> QED  BY <2>2 DEF IsPath
<1>6. ASSUME Orderly' PROVE Walk'
  <2>1. Orderly /\ Walk /\ z \in SignersOf(request.response) /\ request.response \in Honest
    BY <1>1, <1>6 DEF Orderly, Validating, DnssecInv, Walk
  <2>2. z \in DOMAIN KeyReplies
    BY <2>1, PublishedAssumption
  <2> QED  BY <1>1, <1>2, <1>4, <2>1, <2>2 DEF Walk, Waiting, Parents, InHand
<1>7. HonestIsServed'
  BY <1>1 DEF DnssecInv, HonestIsServed
<1> QED  BY <1>1, <1>5, <1>6, <1>7 DEF DnssecInv

\* A published DNSKEY reply is signed, and no root's is without an anchor.
LEMMA PublishedKeysPass ==
  ASSUME NEW z \in DOMAIN KeyReplies, NEW reply \in Published(KeyReplies[z])
  PROVE  /\ reply # Absent /\ KeysIn(reply, z) \in PublishedKeys(z) /\ SelfSigned(reply, z)
         /\ RRset(reply, z, "DNSKEY") # {} /\ Sigs(reply, z, "DNSKEY") # {}
         /\ z = <<>> => KeysIn(reply, z) \cap Anchors # {}
<1>1. SelfSigned(reply, z) /\ (z = <<>> => KeysIn(reply, z) \cap Anchors # {})
  BY PublishedAssumption
<1>2. RRset(reply, z, "DNSKEY") # {} /\ Sigs(reply, z, "DNSKEY") # {}
  BY <1>1 DEF SelfSigned, Verified
<1> QED  BY <1>1, <1>2 DEF Published, PublishedKeys

LEMMA FetchKeysKeeps ==
  ASSUME DnssecInv, NEW reply, FetchKeys(reply)
  PROVE  DnssecInv'
<1> DEFINE z == path[Len(path)].zone
           refused == reply = Absent \/ RRset(reply, z, "DNSKEY") = {} \/ Sigs(reply, z, "DNSKEY") = {}
           anchored == KeysIn(reply, z) \cap Anchors # {}
<1>1. /\ Validating /\ path # <<>> /\ path[Len(path)].keys = Absent /\ reply \in KeyReplies[z]
      /\ strayed' = (strayed \/ reply = Absent \/ ~reply.published)
      /\ UNCHANGED <<request, verdicts>>
  BY DEF FetchKeys, Last
<1>2. \/ /\ Answered(Bogus)
         /\ refused \/ ~SelfSigned(reply, z) \/ (z = <<>> /\ ~anchored)
      \/ Accept(KeysIn(reply, z))
      \/ /\ z # <<>>
         /\ path' = Append([path EXCEPT ![Len(path)].keys = reply], [zone |-> Front(z), keys |-> Absent])
         /\ UNCHANGED <<signers, keys, outcome>>
  BY Zenon DEF FetchKeys, Last
<1>3. ~strayed' => ~strayed
  BY <1>1
<1>4. ASSUME Orderly, ~strayed'
      PROVE  keys = Absent /\ z \in DOMAIN KeyReplies /\ reply \in Published(KeyReplies[z])
  <2>1. Walk /\ Len(path) \in 1..Len(path)
    BY <1>1, <1>4 DEF DnssecInv, IsPath
  <2>2. z \in DOMAIN KeyReplies
    BY <2>1 DEF Walk, Parents
  <2>3. reply \in Published(KeyReplies[z])
    BY <1>1, <1>4 DEF Published
  <2>4. keys = Absent
    BY <1>1, <2>1 DEF Walk, Waiting, Published
  <2> QED  BY <2>2, <2>3, <2>4
<1> HIDE DEF z
<1>5. CASE /\ Answered(Bogus)
           /\ refused \/ ~SelfSigned(reply, z) \/ (z = <<>> /\ ~anchored)
  <2>1. ASSUME request.response \in Honest, ~strayed' PROVE FALSE
    <3>1. Orderly
      BY <1>1, <1>3, <2>1 DEF Orderly
    <3>2. z \in DOMAIN KeyReplies /\ reply \in Published(KeyReplies[z])
      BY <1>4, <2>1, <3>1
    <3>3. ~refused /\ SelfSigned(reply, z) /\ (z = <<>> => anchored)
      BY <3>2, PublishedKeysPass
    <3> QED  BY <1>5, <3>3
  <2>2. \A m \in DOMAIN verdicts' : verdicts'[m] # Bogus
    BY <1>1 DEF DnssecInv
  <2> QED  BY <1>1, <1>5, <2>1, <2>2, EndKeeps
<1>6. CASE Accept(KeysIn(reply, z))
  <2>1. Orderly /\ ~strayed' => KeysIn(reply, z) \in PublishedKeys(path[Len(path)].zone)
    BY <1>4, PublishedKeysPass DEF z
  <2> QED  BY <1>1, <1>3, <1>6, <2>1, AcceptKeeps
<1>7. CASE /\ z # <<>>
           /\ path' = Append([path EXCEPT ![Len(path)].keys = reply], [zone |-> Front(z), keys |-> Absent])
           /\ UNCHANGED <<signers, keys, outcome>>
  BY <1>1, <1>3, <1>4, <1>7, ClimbKeeps DEF z
<1> QED  BY <1>2, <1>5, <1>6, <1>7

LEMMA FetchDsKeeps ==
  ASSUME DnssecInv, NEW reply, FetchDs(reply)
  PROVE  DnssecInv'
<1> DEFINE z == path[Len(path)].zone
           own == path[Len(path)].keys
<1>1. /\ Validating /\ path # <<>> /\ keys # Absent /\ reply \in DsReplies[z]
      /\ strayed' = (strayed \/ reply = Absent \/ ~reply.published)
      /\ UNCHANGED <<request, verdicts>>
  BY DEF FetchDs, Last
<1>2. \/ /\ Answered(Bogus)
         /\ ~(reply # Absent /\ Vouches(reply, keys, z, KeysIn(own, z)) /\ SelfSigned(own, z))
      \/ Accept(KeysIn(own, z))
  BY Zenon DEF FetchDs, Last
<1>3. ~strayed' => ~strayed
  BY <1>1
<1>4. ASSUME Orderly, ~strayed'
      PROVE  /\ z \in DOMAIN KeyReplies /\ own \in Published(KeyReplies[z])
             /\ reply # Absent /\ Vouches(reply, keys, z, KeysIn(own, z))
  <2>1. Walk /\ Len(path) \in 1..Len(path)
    BY <1>1, <1>4 DEF DnssecInv, IsPath
  <2>2. z \in DOMAIN KeyReplies
    BY <2>1 DEF Walk, Parents
  <2>3. z # <<>> /\ own \in Published(KeyReplies[z])
    BY <1>1, <2>1 DEF Walk, Waiting
  <2>4. keys \in PublishedKeys(Front(z))
    BY <1>1, <2>1 DEF Walk, InHand
  <2>5. reply \in Published(DsReplies[z])
    BY <1>1, <1>4 DEF Published
  <2>6. KeysIn(own, z) \in PublishedKeys(z)
    BY <2>2, <2>3, PublishedKeysPass
  <2> HIDE DEF z, own
  <2>7. Vouches(reply, keys, z, KeysIn(own, z))
    BY <2>2, <2>3, <2>4, <2>5, <2>6, PublishedAssumption
  <2> QED  BY <2>2, <2>3, <2>5, <2>7 DEF Published
<1> HIDE DEF z, own
<1>5. CASE /\ Answered(Bogus)
           /\ ~(reply # Absent /\ Vouches(reply, keys, z, KeysIn(own, z)) /\ SelfSigned(own, z))
  <2>1. ASSUME request.response \in Honest, ~strayed' PROVE FALSE
    <3>1. Orderly
      BY <1>1, <1>3, <2>1 DEF Orderly
    <3>2. SelfSigned(own, z)
      BY <1>4, <2>1, <3>1, PublishedKeysPass
    <3> QED  BY <1>4, <1>5, <2>1, <3>1, <3>2
  <2>2. \A m \in DOMAIN verdicts' : verdicts'[m] # Bogus
    BY <1>1 DEF DnssecInv
  <2> QED  BY <1>1, <1>5, <2>1, <2>2, EndKeeps
<1>6. CASE Accept(KeysIn(own, z))
  <2>1. Orderly /\ ~strayed' => KeysIn(own, z) \in PublishedKeys(path[Len(path)].zone)
    BY <1>4, PublishedKeysPass DEF z
  <2> QED  BY <1>1, <1>3, <1>6, <2>1, AcceptKeeps
<1> QED  BY <1>2, <1>5, <1>6

\* What is kept of a verdict is not Bogus.
LEMMA VerdictKeeps ==
  ASSUME DnssecInv, NEW v, ConcludeValidation(v), UNCHANGED <<request, strayed>>,
         v = Bogus => (request.response \in Honest => strayed)
  PROVE  DnssecInv'
<1>1. \A m \in DOMAIN verdicts' : verdicts'[m] # Bogus
  BY DEF ConcludeValidation, DnssecInv
<1>2. Answered(v) /\ (v = Bogus => (request.response \in Honest => strayed'))
  BY DEF ConcludeValidation
<1> QED  BY <1>1, <1>2, EndKeeps

LEMMA DecideKeeps ==
  ASSUME DnssecInv, Decide
  PROVE  DnssecInv'
<1> DEFINE v == Verify(request.response, keys)
<1>1. Validating /\ path = <<>> /\ keys # Absent /\ UNCHANGED <<request, strayed>>
  BY DEF Decide
<1>2. \/ keys' = Absent /\ UNCHANGED <<signers, path, outcome, verdicts>>
      \/ ConcludeValidation(v)
  BY Zenon DEF Decide
<1>3. v = Bogus => (request.response \in Honest => strayed)
  <2> SUFFICES ASSUME request.response \in Honest, ~strayed PROVE v # Bogus
    OBVIOUS
  <2>1. Walk
    BY <1>1 DEF DnssecInv, Orderly
  <2>2. PICK z \in SignersOf(request.response) : keys \in PublishedKeys(z)
    BY <1>1, <2>1 DEF Walk, InHand
  <2> QED  BY <2>2, PublishedAssumption
<1> HIDE DEF v
<1>4. CASE keys' = Absent /\ UNCHANGED <<signers, path, outcome, verdicts>>
  <2>1. Len(path) = 0
    BY <1>1
  <2>2. Orderly' => Walk'
    BY <1>1, <1>4, <2>1 DEF DnssecInv, Orderly, Validating, Walk, Waiting, Parents, InHand
  <2> QED  BY <1>1, <1>4, <2>2 DEF DnssecInv, IsPath, HonestIsServed
<1>5. CASE ConcludeValidation(v)
  BY <1>1, <1>3, <1>5, VerdictKeeps
<1> QED  BY <1>2, <1>4, <1>5

LEMMA DnssecContinues == DnssecInv /\ [DnssecNext]_vars => DnssecInv'
<1> SUFFICES ASSUME DnssecInv, [DnssecNext]_vars PROVE DnssecInv'
  OBVIOUS
<1>1. CASE \E m \in Responses, cd, do \in BOOLEAN : Receive(m, cd, do)
  BY <1>1, ReceiveKeeps
<1>2. CASE \E z \in signers : TrySigner(z)
  BY <1>2, TrySignerKeeps
<1>3. CASE GiveUp
  BY <1>3, VerdictKeeps, Verdicts DEF GiveUp
<1>4. CASE \E reply \in ZoneReplies(KeyReplies) : FetchKeys(reply)
  BY <1>4, FetchKeysKeeps
<1>5. CASE \E reply \in ZoneReplies(DsReplies) : FetchDs(reply)
  BY <1>5, FetchDsKeeps
<1>6. CASE Decide
  BY <1>6, DecideKeeps
<1>7. CASE Return
  <2>1. /\ request' = Idle /\ outcome' = Absent /\ Absent # Bogus
        /\ UNCHANGED <<path, verdicts>>
    BY <1>7, PublishedAssumption DEF Return
  <2> QED  BY <2>1 DEF DnssecInv, IsPath, Orderly, Validating, HonestIsServed
<1>8. CASE \E m \in DOMAIN verdicts : VerdictLapses(m)
  <2>1. /\ UNCHANGED <<request, signers, path, keys, outcome, strayed>>
        /\ \A n \in DOMAIN verdicts' : n \in DOMAIN verdicts /\ verdicts'[n] = verdicts[n]
    BY <1>8 DEF VerdictLapses
  <2> QED  BY <2>1 DEF DnssecInv, IsPath, Orderly, Validating, Walk, Waiting, Parents, InHand, HonestIsServed
<1>9. CASE UNCHANGED vars
  BY <1>9 DEF vars, DnssecInv, IsPath, Orderly, Validating, Walk, Waiting, Parents, InHand, HonestIsServed
<1> QED  BY <1>1, <1>2, <1>3, <1>4, <1>5, <1>6, <1>7, <1>8, <1>9, Zenon DEF DnssecNext

\* In whatever order the signers of a response are taken, whatever the verdict
\* cache holds and however long the chains to the anchors are, a client is
\* refused a response its zone's servers composed only if a fetch of this walk
\* failed or returned what its zone does not publish.
THEOREM HonestAreServed == DnssecSpec => []HonestIsServed
<1>1. DnssecInit => DnssecInv
  <2> SUFFICES ASSUME DnssecInit PROVE DnssecInv
    OBVIOUS
  <2>1. path = <<>> /\ verdicts = <<>> /\ request = Idle /\ outcome = Absent /\ Absent # Bogus
    BY PublishedAssumption DEF DnssecInit
  <2> QED  BY <2>1, NoPath DEF DnssecInv, Orderly, Validating, HonestIsServed
<1>2. DnssecInv /\ [DnssecNext]_vars => DnssecInv'
  BY DnssecContinues
<1>3. DnssecInv => HonestIsServed
  BY DEF DnssecInv
<1> QED  BY <1>1, <1>2, <1>3, PTL DEF DnssecSpec
-----------------------------------------------------------------------------
(* DNSSEC: nothing is authenticated without a chain of trust *)

Vouched(z, ks) == <<z, ks>> \in KeySets /\ Trusted(z, ks)

\* The zones of the path wait with the replies they gave, and a chain of trust leads
\* to the keys in hand: those of the parent of the last zone, or at the end of a signer.
Climbing ==
  /\ signers \subseteq SignersOf(request.response)
  /\ path # <<>> => path[1].zone \in SignersOf(request.response)
  /\ \A i \in 1..Len(path) : path[i].zone \in DOMAIN KeyReplies
  /\ \A i \in 1..Len(path) : i > 1 => path[i].zone = Front(path[i - 1].zone)
  /\ \A i \in 1..Len(path) :
       i < Len(path) \/ keys # Absent =>
         path[i].zone # <<>> /\ path[i].keys \in KeyReplies[path[i].zone] \ {Absent}
  /\ keys # Absent =>
       IF path = <<>> THEN \E z \in SignersOf(request.response) : Vouched(z, keys)
       ELSE Vouched(Front(path[Len(path)].zone), keys)

\* Whatever is or was found secure is authentic.
TrustInv ==
  /\ IsPath(path)
  /\ request # Idle => request.response \in Responses
  /\ \A m \in DOMAIN verdicts : verdicts[m] = Secure => Authentic(m)
  /\ outcome = Secure => request.response \in Responses /\ Authentic(request.response)
  /\ Validating => Climbing

\* Trust in a zone's keys, once they are checked like the code checks them.
LEMMA TrustGrows ==
  ASSUME NEW z \in DOMAIN KeyReplies, NEW r \in KeyReplies[z] \ {Absent}, SelfSigned(r, z),
         \/ KeysIn(r, z) \cap Anchors # {}
         \/ /\ z # <<>>
            /\ \E reply \in DsReplies[z] \ {Absent} : \E ks :
                 Vouched(Front(z), ks) /\ Vouches(reply, ks, z, KeysIn(r, z))
  PROVE  Vouched(z, KeysIn(r, z))
<1>1. <<z, KeysIn(r, z)>> \in KeySets
  BY DEF KeySets
<1>2. ASSUME NEW T \in SUBSET KeySets, Closed(T) PROVE <<z, KeysIn(r, z)>> \in T
  <2>1. CASE KeysIn(r, z) \cap Anchors # {}
    BY <1>2, <2>1 DEF Closed
  <2>2. CASE /\ z # <<>>
             /\ \E reply \in DsReplies[z] \ {Absent} : \E ks :
                  Vouched(Front(z), ks) /\ Vouches(reply, ks, z, KeysIn(r, z))
    <3>0. PICK reply \in DsReplies[z] \ {Absent} :
            \E ks : Vouched(Front(z), ks) /\ Vouches(reply, ks, z, KeysIn(r, z))
      BY <2>2
    <3>1. PICK ks : Vouched(Front(z), ks) /\ Vouches(reply, ks, z, KeysIn(r, z))
      BY <3>0
    <3>2. <<Front(z), ks>> \in T
      BY <1>2, <3>1 DEF Vouched, Trusted
    <3>3. PICK p \in T : p[1] = Front(z) /\ p[2] = ks
      BY <3>2
    <3>4. Named(T, z, KeysIn(r, z))
      BY <3>1, <3>3 DEF Named, Vouches
    <3> QED  BY <1>2, <2>2, <3>4 DEF Closed
  <2> QED  BY <2>1, <2>2
<1> QED  BY <1>1, <1>2 DEF Vouched, Trusted

\* A validation that ends with what it may say leaves nothing of its walk.
LEMMA EndTrusts ==
  ASSUME TrustInv, Validating, NEW v, Answered(v), UNCHANGED request,
         v = Secure => Authentic(request.response),
         \A m \in DOMAIN verdicts' : verdicts'[m] = Secure => Authentic(m)
  PROVE  TrustInv'
<1>1. IsPath(path')
  BY NoPath DEF Answered
<1>2. Climbing'
  <2>1. signers' = {} /\ path' = <<>> /\ keys' = Absent /\ Len(path') = 0
    BY DEF Answered
  <2> QED  BY <2>1 DEF Climbing
<1>3. request.response \in Responses /\ outcome' = v
  BY DEF TrustInv, Validating, Answered
<1> QED  BY <1>1, <1>2, <1>3 DEF TrustInv

LEMMA AcceptTrusts ==
  ASSUME TrustInv, Validating, path # <<>>, NEW ks, Accept(ks), UNCHANGED <<request, verdicts>>,
         Vouched(path[Len(path)].zone, ks)
  PROVE  TrustInv'
<1> DEFINE n == Len(path)
<1>1. IsPath(path) /\ path' = Front(path) /\ keys' = ks /\ UNCHANGED <<signers, outcome>>
  BY DEF TrustInv, Accept
<1>2. n \in Nat /\ n # 0
  BY <1>1, PathShortens
<1>3. Len(path') = n - 1 /\ (path' = <<>> <=> n = 1) /\ \A i \in 1..(n - 1) : path'[i] = path[i]
  BY <1>1, PathShortens
<1>4. IsPath(path')
  BY <1>1, PathShortens
<1>5. Climbing
  BY DEF TrustInv
<1>6. \A i \in 1..(n - 1) : i \in 1..n /\ i < n /\ (i > 1 => i - 1 \in 1..(n - 1))
  BY <1>2
<1>7. path' # <<>> => path'[1].zone \in SignersOf(request.response)
  <2>1. path' # <<>> => 1 \in 1..(n - 1)
    BY <1>2, <1>3
  <2> QED  BY <1>3, <1>5, <2>1 DEF Climbing
<1>8. \A i \in 1..(n - 1) :
        /\ path'[i].zone \in DOMAIN KeyReplies
        /\ i > 1 => path'[i].zone = Front(path'[i - 1].zone)
        /\ path'[i].zone # <<>> /\ path'[i].keys \in KeyReplies[path'[i].zone] \ {Absent}
  BY <1>3, <1>5, <1>6 DEF Climbing
<1>9. IF path' = <<>> THEN \E z \in SignersOf(request.response) : Vouched(z, ks)
      ELSE Vouched(Front(path'[n - 1].zone), ks)
  <2>1. CASE n = 1
    BY <1>3, <1>5, <2>1 DEF Climbing
  <2>2. CASE n # 1
    <3>1. n - 1 \in 1..(n - 1) /\ n \in 1..n /\ n > 1 /\ path' # <<>>
      BY <1>2, <1>3, <2>2
    <3>2. path[n].zone = Front(path[n - 1].zone)
      BY <1>5, <3>1 DEF Climbing
    <3> QED  BY <1>3, <3>1, <3>2
  <2> QED  BY <2>1, <2>2
<1>10. Climbing'
  BY <1>1, <1>3, <1>5, <1>7, <1>8, <1>9 DEF Climbing
<1>11. outcome' # Secure
  BY <1>1, PublishedAssumption DEF Validating
<1> QED  BY <1>4, <1>10, <1>11 DEF TrustInv

LEMMA ClimbTrusts ==
  ASSUME TrustInv, Validating, path # <<>>, keys = Absent, NEW reply, NEW z, z = path[Len(path)].zone,
         z # <<>>, reply \in KeyReplies[z] \ {Absent},
         path' = Append([path EXCEPT ![Len(path)].keys = reply], [zone |-> Front(z), keys |-> Absent]),
         UNCHANGED <<request, signers, keys, outcome, verdicts>>
  PROVE  TrustInv'
<1> DEFINE n == Len(path)
<1>1. IsPath(path) /\ Climbing
  BY DEF TrustInv
<1>2. n \in Nat /\ n # 0 /\ n \in 1..n /\ 1 \in 1..n
  BY <1>1, PathGrows
<1>3. Len(path') = n + 1 /\ path'[n + 1].zone = Front(z)
  BY <1>1, PathGrows
<1>4. \A i \in 1..n :
        path'[i].zone = path[i].zone /\ path'[i].keys = IF i = n THEN reply ELSE path[i].keys
  BY <1>1, PathGrows
<1>5. IsPath(path')
  BY <1>1, PathGrows
<1>6. path'[1].zone \in SignersOf(request.response)
  BY <1>1, <1>2, <1>4 DEF Climbing
<1>7. ASSUME NEW i \in 1..(n + 1)
      PROVE  /\ path'[i].zone \in DOMAIN KeyReplies
             /\ i > 1 => path'[i].zone = Front(path'[i - 1].zone)
             /\ i < n + 1 => path'[i].zone # <<>> /\ path'[i].keys \in KeyReplies[path'[i].zone] \ {Absent}
  <2>1. CASE i = n + 1
    <3>1. z \in DOMAIN KeyReplies
      BY <1>1, <1>2 DEF Climbing
    <3>2. Front(z) \in DOMAIN KeyReplies
      BY <3>1, PublishedAssumption
    <3>3. i - 1 = n /\ ~(i < n + 1)
      BY <1>2, <2>1
    <3> QED  BY <1>2, <1>3, <1>4, <2>1, <3>2, <3>3
  <2>2. CASE i # n + 1
    <3>1. i \in 1..n /\ (i # n => i < n) /\ (i > 1 => i - 1 \in 1..n)
      BY <1>2, <2>2
    <3>2. path'[i].zone = path[i].zone /\ path[i].zone \in DOMAIN KeyReplies
      BY <1>1, <1>4, <3>1 DEF Climbing
    <3>3. i > 1 => path'[i].zone = Front(path'[i - 1].zone)
      BY <1>1, <1>4, <3>1 DEF Climbing
    <3>4. path'[i].zone # <<>> /\ path'[i].keys \in KeyReplies[path'[i].zone] \ {Absent}
      <4>1. CASE i = n
        BY <1>4, <3>1, <4>1
      <4>2. CASE i # n
        BY <1>1, <1>4, <3>1, <4>2 DEF Climbing
      <4> QED  BY <4>1, <4>2
    <3> QED  BY <3>2, <3>3, <3>4
  <2> QED  BY <2>1, <2>2
<1>8. Climbing'
  BY <1>1, <1>3, <1>6, <1>7 DEF Climbing
<1> QED  BY <1>5, <1>8 DEF TrustInv

LEMMA ReceiveTrusts ==
  ASSUME TrustInv, NEW m \in Responses, NEW cd, NEW do, Receive(m, cd, do)
  PROVE  TrustInv'
<1>1. /\ request' = [checkingDisabled |-> cd, dnssecOk |-> do, response |-> m]
      /\ keys' = Absent /\ path' = <<>> /\ UNCHANGED verdicts
      /\ signers' \in {{}, SignersOf(m)}
      /\ outcome' = Insecure \/ outcome' = Absent \/ (m \in DOMAIN verdicts /\ outcome' = verdicts[m])
  <2>1. CASE Enabled /\ ~cd /\ do /\ HasTypes(m, {"DNSKEY", "DS"})
    BY <2>1, Zenon DEF Receive
  <2>2. CASE ~(Enabled /\ ~cd /\ do /\ HasTypes(m, {"DNSKEY", "DS"}))
    BY <2>2, Zenon DEF Receive
  <2> QED  BY <2>1, <2>2
<1>2. request'.response = m
  BY <1>1
<1>3. IsPath(path')
  BY <1>1, NoPath
<1>4. Climbing'
  <2>1. Len(path') = 0
    BY <1>1
  <2> QED  BY <1>1, <1>2, <2>1 DEF Climbing
<1>5. outcome' = Secure => Authentic(m)
  <2>1. Absent # Secure /\ Insecure # Secure
    BY PublishedAssumption DEF Insecure, Secure
  <2> QED  BY <1>1, <2>1 DEF TrustInv
<1> QED  BY <1>1, <1>2, <1>3, <1>4, <1>5 DEF TrustInv

LEMMA TrySignerTrusts ==
  ASSUME TrustInv, NEW z, TrySigner(z)
  PROVE  TrustInv'
<1>1. /\ Validating /\ keys = Absent /\ z \in signers /\ signers' = signers \ {z}
      /\ path' = << [zone |-> z, keys |-> Absent] >>
      /\ UNCHANGED <<request, keys, outcome, verdicts>>
  BY DEF TrySigner
<1> DEFINE e == [zone |-> z, keys |-> Absent]
<1>2. e.zone = z /\ IsEntry(e) /\ path' = <<e>>
  BY <1>1 DEF IsEntry
<1> HIDE DEF e
<1>3. path' \in Seq({e}) /\ Len(path') = 1 /\ path'[1] = e
  BY <1>2
<1>4. IsPath(path')
  <2>1. \A d \in {e} : IsEntry(d)
    BY <1>2
  <2> QED  BY <1>3, <2>1 DEF IsPath
<1>5. z \in SignersOf(request.response) /\ signers' \subseteq SignersOf(request.response)
      /\ request.response \in Responses
  BY <1>1 DEF TrustInv, Climbing, Validating
<1>6. z \in DOMAIN KeyReplies
  BY <1>5, KeysAssumption
<1>7. Climbing'
  BY <1>1, <1>2, <1>3, <1>5, <1>6 DEF Climbing
<1> QED  BY <1>1, <1>4, <1>7 DEF TrustInv

LEMMA FetchKeysTrusts ==
  ASSUME TrustInv, NEW reply, FetchKeys(reply)
  PROVE  TrustInv'
<1> DEFINE z == path[Len(path)].zone
<1>1. /\ Validating /\ path # <<>> /\ path[Len(path)].keys = Absent /\ reply \in KeyReplies[z]
      /\ UNCHANGED <<request, verdicts>>
  BY DEF FetchKeys, Last
<1>2. \/ Answered(Bogus)
      \/ /\ Accept(KeysIn(reply, z)) /\ reply # Absent
         /\ KeysIn(reply, z) \cap Anchors # {} /\ SelfSigned(reply, z)
      \/ /\ z # <<>> /\ reply # Absent
         /\ path' = Append([path EXCEPT ![Len(path)].keys = reply], [zone |-> Front(z), keys |-> Absent])
         /\ UNCHANGED <<signers, keys, outcome>>
  BY Zenon DEF FetchKeys, Last
<1>3. Climbing /\ IsPath(path)
  BY <1>1 DEF TrustInv
<1>4. Len(path) \in 1..Len(path)
  BY <1>1, <1>3 DEF IsPath
<1>5. z \in DOMAIN KeyReplies /\ keys = Absent
  BY <1>1, <1>3, <1>4 DEF Climbing
<1>6. CASE Answered(Bogus)
  BY <1>1, <1>6, EndTrusts, Verdicts DEF TrustInv
<1> HIDE DEF z
<1>7. CASE /\ Accept(KeysIn(reply, z)) /\ reply # Absent
           /\ KeysIn(reply, z) \cap Anchors # {} /\ SelfSigned(reply, z)
  <2>1. Vouched(z, KeysIn(reply, z))
    BY <1>1, <1>5, <1>7, TrustGrows
  <2> QED  BY <1>1, <1>7, <2>1, AcceptTrusts DEF z
<1>8. CASE /\ z # <<>> /\ reply # Absent
           /\ path' = Append([path EXCEPT ![Len(path)].keys = reply], [zone |-> Front(z), keys |-> Absent])
           /\ UNCHANGED <<signers, keys, outcome>>
  BY <1>1, <1>5, <1>8, ClimbTrusts DEF z
<1> QED  BY <1>2, <1>6, <1>7, <1>8

LEMMA FetchDsTrusts ==
  ASSUME TrustInv, NEW reply, FetchDs(reply)
  PROVE  TrustInv'
<1> DEFINE z == path[Len(path)].zone
           own == path[Len(path)].keys
<1>1. /\ Validating /\ path # <<>> /\ keys # Absent /\ reply \in DsReplies[z]
      /\ UNCHANGED <<request, verdicts>>
  BY DEF FetchDs, Last
<1>2. \/ Answered(Bogus)
      \/ /\ Accept(KeysIn(own, z)) /\ reply # Absent
         /\ Vouches(reply, keys, z, KeysIn(own, z)) /\ SelfSigned(own, z)
  BY Zenon DEF FetchDs, Last
<1>3. Climbing /\ IsPath(path)
  BY <1>1 DEF TrustInv
<1>4. Len(path) \in 1..Len(path)
  BY <1>1, <1>3 DEF IsPath
<1>5. /\ z \in DOMAIN KeyReplies /\ z # <<>> /\ own \in KeyReplies[z] \ {Absent}
      /\ Vouched(Front(z), keys)
  BY <1>1, <1>3, <1>4 DEF Climbing
<1>6. CASE Answered(Bogus)
  BY <1>1, <1>6, EndTrusts, Verdicts DEF TrustInv
<1> HIDE DEF z, own
<1>7. CASE /\ Accept(KeysIn(own, z)) /\ reply # Absent
           /\ Vouches(reply, keys, z, KeysIn(own, z)) /\ SelfSigned(own, z)
  <2>1. Vouched(z, KeysIn(own, z))
    BY <1>1, <1>5, <1>7, TrustGrows
  <2> QED  BY <1>1, <1>7, <2>1, AcceptTrusts DEF z
<1> QED  BY <1>2, <1>6, <1>7

\* A verdict is kept as it is given.
LEMMA VerdictTrusts ==
  ASSUME TrustInv, Validating, NEW v, ConcludeValidation(v), UNCHANGED request,
         v = Secure => Authentic(request.response)
  PROVE  TrustInv'
<1>1. \A m \in DOMAIN verdicts' : verdicts'[m] = Secure => Authentic(m)
  BY DEF ConcludeValidation, TrustInv
<1> QED  BY <1>1, EndTrusts DEF ConcludeValidation

LEMMA DecideTrusts ==
  ASSUME TrustInv, Decide
  PROVE  TrustInv'
<1> DEFINE v == Verify(request.response, keys)
<1>1. Validating /\ path = <<>> /\ keys # Absent /\ UNCHANGED request
  BY DEF Decide
<1>2. \/ keys' = Absent /\ UNCHANGED <<signers, path, outcome, verdicts>>
      \/ ConcludeValidation(v)
  BY Zenon DEF Decide
<1>3. v = Secure => Authentic(request.response)
  <2>1. PICK z \in SignersOf(request.response) : Vouched(z, keys)
    BY <1>1 DEF TrustInv, Climbing
  <2>2. PICK p \in KeySets : p[1] = z /\ p[2] = keys
    BY <2>1 DEF Vouched
  <2> QED  BY <2>1, <2>2 DEF Authentic, Vouched
<1> HIDE DEF v
<1>4. CASE keys' = Absent /\ UNCHANGED <<signers, path, outcome, verdicts>>
  <2>1. Len(path) = 0
    BY <1>1
  <2> QED  BY <1>1, <1>4, <2>1 DEF TrustInv, Climbing, Validating, IsPath
<1>5. CASE ConcludeValidation(v)
  BY <1>1, <1>3, <1>5, VerdictTrusts
<1> QED  BY <1>2, <1>4, <1>5

LEMMA TrustContinues == TrustInv /\ [DnssecNext]_vars => TrustInv'
<1> SUFFICES ASSUME TrustInv, [DnssecNext]_vars PROVE TrustInv'
  OBVIOUS
<1>1. CASE \E m \in Responses, cd, do \in BOOLEAN : Receive(m, cd, do)
  BY <1>1, ReceiveTrusts
<1>2. CASE \E z \in signers : TrySigner(z)
  BY <1>2, TrySignerTrusts
<1>3. CASE GiveUp
  <2>1. Insecure # Secure
    BY DEF Insecure, Secure
  <2> QED  BY <1>3, <2>1, VerdictTrusts DEF GiveUp
<1>4. CASE \E reply \in ZoneReplies(KeyReplies) : FetchKeys(reply)
  BY <1>4, FetchKeysTrusts
<1>5. CASE \E reply \in ZoneReplies(DsReplies) : FetchDs(reply)
  BY <1>5, FetchDsTrusts
<1>6. CASE Decide
  BY <1>6, DecideTrusts
<1>7. CASE Return
  <2>1. /\ request' = Idle /\ outcome' = Absent /\ Absent # Secure
        /\ UNCHANGED <<path, verdicts>>
    BY <1>7, PublishedAssumption DEF Return
  <2> QED  BY <2>1 DEF TrustInv, IsPath, Validating
<1>8. CASE \E m \in DOMAIN verdicts : VerdictLapses(m)
  <2>1. /\ UNCHANGED <<request, signers, path, keys, outcome>>
        /\ \A n \in DOMAIN verdicts' : n \in DOMAIN verdicts /\ verdicts'[n] = verdicts[n]
    BY <1>8 DEF VerdictLapses
  <2> QED  BY <2>1 DEF TrustInv, IsPath, Validating, Climbing
<1>9. CASE UNCHANGED vars
  BY <1>9 DEF vars, TrustInv, IsPath, Validating, Climbing
<1> QED  BY <1>1, <1>2, <1>3, <1>4, <1>5, <1>6, <1>7, <1>8, <1>9, Zenon DEF DnssecNext

LEMMA AlwaysTrusted == DnssecSpec => []TrustInv
<1>1. DnssecInit => TrustInv
  <2> SUFFICES ASSUME DnssecInit PROVE TrustInv
    OBVIOUS
  <2>1. path = <<>> /\ verdicts = <<>> /\ request = Idle /\ outcome = Absent /\ Absent # Secure
    BY PublishedAssumption DEF DnssecInit
  <2> QED  BY <2>1, NoPath DEF TrustInv, Validating
<1>2. TrustInv /\ [DnssecNext]_vars => TrustInv'
  BY TrustContinues
<1> QED  BY <1>1, <1>2, PTL DEF DnssecSpec

\* A response is authenticated only when it verifies with keys of one of its signers
\* to which a chain of self-signed key sets and signed DS sets leads from an anchor.
SecureIsAuthentic == outcome = Secure => Authentic(request.response)

\* That is so for any zones and replies, whatever is fetched for a zone is the
\* published one or not, and whether the verdict is new or comes from the cache.
THEOREM OnlyAuthenticIsSecure == DnssecSpec => []SecureIsAuthentic
<1>1. TrustInv => SecureIsAuthentic
  BY DEF TrustInv, SecureIsAuthentic
<1> QED  BY <1>1, AlwaysTrusted, PTL

\* What verifies with keys a zone is trusted to have is signed by that zone.
LEMMA VerifiedIsSigned ==
  ASSUME NEW m \in Responses, NEW p \in KeySets, Trusted(p[1], p[2]), NEW n, NEW t,
         Verified(m, n, t, p[2])
  PROVE  IsSignedBy(p[1], m, n, t)
<1>1. PICK s \in Sigs(m, n, t) : s.by \in p[2] /\ MadeFor(s.source, n) /\ s.over = DataOf(m, n, t)
  BY DEF Verified
<1>2. s \in m.sigs /\ s.covers = t
  BY DEF Sigs
<1>3. [name |-> s.source, type |-> s.covers, data |-> s.over] \in Contents[p[1]]
  BY <1>1, <1>2, KeysAssumption
<1> QED  BY <1>1, <1>2, <1>3 DEF IsSignedBy

\* A denial that is accepted stands on the usable records of one kind, all valid.
Denied(m, ks) ==
  \E t \in {"NSEC", "NSEC3"} : ToSet(UsableProofs(m, t)) # {} /\ ~Invalid(m, t, ks)

LEMMA DenialRests ==
  ASSUME NEW m, NEW ks, Negative(m, ks) = Secure
  PROVE  m.answer = {} /\ Denied(m, ks)
<1>1. Absent # Secure /\ Insecure # Secure /\ Bogus # Secure
  BY PublishedAssumption DEF Insecure, Secure, Bogus
<1>2. ASSUME NodataNsec(m, ks) = Secure PROVE Denied(m, ks)
  <2> DEFINE R == ToSet(UsableProofs(m, "NSEC"))
  <2>1. ~Invalid(m, "NSEC", ks)
    BY <1>1, <1>2 DEF NodataNsec
  <2>2. R # {}
    BY <1>1, <1>2, <2>1, Zenon DEF NodataNsec
  <2> QED  BY <2>1, <2>2 DEF Denied
<1>3. ASSUME NodataNsec3(m, ks) = Secure PROVE Denied(m, ks)
  <2> DEFINE R == UsableProofs(m, "NSEC3")
  <2>1. ~Invalid(m, "NSEC3", ks)
    BY <1>1, <1>3 DEF NodataNsec3
  <2>2. \E n : Matching(R, n) # {}
    BY <1>1, <1>3, <2>1, Zenon DEF NodataNsec3
  <2>3. ToSet(R) # {}
    BY <2>2 DEF Matching
  <2> QED  BY <2>1, <2>3 DEF Denied
<1>4. ASSUME NxdomainNsec(m, ks) = Secure PROVE Denied(m, ks)
  <2> DEFINE R == ToSet(UsableProofs(m, "NSEC"))
  <2>1. ~Invalid(m, "NSEC", ks)
    BY <1>1, <1>4 DEF NxdomainNsec
  <2>2. R # {}
    BY <1>1, <1>4, <2>1, Zenon DEF NxdomainNsec
  <2> QED  BY <2>1, <2>2 DEF Denied
<1>5. ASSUME NxdomainNsec3(m, ks) = Secure PROVE Denied(m, ks)
  <2> DEFINE R == UsableProofs(m, "NSEC3")
  <2>1. ~Invalid(m, "NSEC3", ks)
    BY <1>1, <1>5 DEF NxdomainNsec3
  <2>2. ToSet(R) # {}
    BY <1>1, <1>5, <2>1, Zenon DEF NxdomainNsec3
  <2> QED  BY <2>1, <2>2 DEF Denied
<1>6. ReferralNsec(m, ks) # Secure /\ ReferralNsec3(m, ks) # Secure
  BY <1>1, Zenon DEF ReferralNsec, ReferralNsec3
<1>7. \A a, b : Either(a, b) = Secure => a = Secure \/ b = Secure
  BY DEF Either
<1>8. CASE m.answer # {}
  BY <1>1, <1>8 DEF Negative
<1>9. CASE m.answer = {} /\ m.rcode = "noerror"
  <2> DEFINE referral == IF IsReferral(m) THEN Either(ReferralNsec(m, ks), ReferralNsec3(m, ks)) ELSE Absent
  <2>1. Negative(m, ks) = Either(referral, Either(NodataNsec(m, ks), NodataNsec3(m, ks)))
    BY <1>9 DEF Negative
  <2>2. referral # Secure
    BY <1>1, <1>6, <1>7
  <2> QED  BY <1>2, <1>3, <1>7, <1>9, <2>1, <2>2
<1>10. CASE m.answer = {} /\ m.rcode = "nxdomain"
  <2>1. Negative(m, ks) = Either(NxdomainNsec(m, ks), NxdomainNsec3(m, ks))
    BY <1>10 DEF Negative
  <2> QED  BY <1>4, <1>5, <1>7, <1>10, <2>1
<1>11. CASE m.answer = {} /\ m.rcode \notin {"noerror", "nxdomain"}
  BY <1>1, <1>11 DEF Negative
<1> QED  BY <1>8, <1>9, <1>10, <1>11

LEMMA SecureIsSigned ==
  ASSUME NEW m \in Responses, NEW p \in KeySets, Trusted(p[1], p[2]), Verify(m, p[2]) = Secure
  PROVE  Genuine(p[1], m)
<1> DEFINE ks == p[2]
           signed == {r \in m.answer : Sigs(m, r.name, r.type) # {}}
<1>1. Absent # Secure /\ Insecure # Secure /\ Bogus # Secure
  BY PublishedAssumption DEF Insecure, Secure, Bogus
<1>2. \A r \in signed : Verified(m, r.name, r.type, ks)
  BY <1>1, Zenon DEF Verify
<1>3. \A r \in signed : IsSignedBy(p[1], m, r.name, r.type)
  BY <1>2, VerifiedIsSigned
<1>4. CASE signed # {}
  <2>1. m.answer # {}
    BY <1>4
  <2> QED  BY <1>3, <1>4, <2>1 DEF Genuine
<1>5. CASE signed = {}
  <2>1. Negative(m, ks) = Secure
    BY <1>1, <1>5, Zenon DEF Verify, Either
  <2>2. m.answer = {} /\ Denied(m, ks)
    BY <2>1, DenialRests
  <2>3. PICK t \in {"NSEC", "NSEC3"} : ToSet(UsableProofs(m, t)) # {} /\ ~Invalid(m, t, ks)
    BY <2>2 DEF Denied
  <2>4. \A r \in ToSet(UsableProofs(m, t)) : Verified(m, r.name, t, ks)
    BY <2>3 DEF Invalid
  <2>5. \A r \in ToSet(UsableProofs(m, t)) : IsSignedBy(p[1], m, r.name, t)
    BY <2>4, VerifiedIsSigned
  <2> QED  BY <2>2, <2>3, <2>5 DEF Genuine
<1> QED  BY <1>4, <1>5

\* A response with the AD bit rests on whole RRsets that one of its signers signed,
\* where the keys a zone is trusted to have sign only what is in the zone: whatever
\* is fetched for whichever zones, and whether the verdict is new or cached.  That
\* these RRsets prove what the response says is not part of it.
THEOREM SecureIsGenuine == DnssecSpec => []SecureMeansGenuine
<1>1. TrustInv => SecureMeansGenuine
  <2> SUFFICES ASSUME TrustInv, outcome = Secure
               PROVE  \E z \in SignersOf(request.response) : Genuine(z, request.response)
    BY DEF SecureMeansGenuine
  <2>1. request.response \in Responses /\ Authentic(request.response)
    BY DEF TrustInv
  <2>2. PICK z \in SignersOf(request.response), p \in KeySets :
          p[1] = z /\ Trusted(z, p[2]) /\ Verify(request.response, p[2]) = Secure
    BY <2>1 DEF Authentic
  <2> QED  BY <2>1, <2>2, SecureIsSigned
<1> QED  BY <1>1, AlwaysTrusted, PTL
==============================================================================
