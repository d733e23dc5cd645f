----------------------------- MODULE ProviderProofs -----------------------------
(***************************************************************************)
(* Theorems about Provider, for any requests, configurations and bounds.   *)
(*                                                                         *)
(* The argument.  Who is inside the gate is alone there (Gated), so while  *)
(* an exchange runs only the host's rotation changes the store, and a      *)
(* rotation is seen by its revision (Exchanged).  Tokens are issued in     *)
(* order and the store's never goes back, so a token that was rejected is  *)
(* either still the store's, and then the session remembers it, or never   *)
(* comes again (Stored).  A request that is repeated has therefore another *)
(* token, or a body that none of its posts had: repairs only go forward    *)
(* (Forward).  What a stream keeps is what it told (Direct, Spelled), so   *)
(* the response at its end is too.                                         *)
(*                                                                         *)
(* What is said of a request takes the state it depends on as parameters:  *)
(* the configuration c, the store s and the log l.                         *)
(***************************************************************************)
EXTENDS Provider, TLAPS, FiniteSetTheorems

Inside == {"load", "refresh", "answer", "reload", "rejectload"}
Exchanges == {"refresh", "answer"}
Before == {"lock", "load", "refresh", "answer", "reload"}
After == {"wait", "rejecting", "rejectload"}

\* A record with these fields.
Fielded(f, names) == DOMAIN f = names /\ f = [x \in names |-> f[x]]

RequestFields ==
    {"phase", "material", "original", "issue", "retried", "rejected", "healed", "flipped", "shape",
     "posts", "posted", "seen", "stream"}
SessionFields == {"gate", "rejected", "failure", "disabled"}
LogFields == {"issued", "held", "known", "spent", "replaced"}
ShapeFields == {"thinking", "effort"}

Logged(l) ==
    /\ Fielded(l, LogFields)
    /\ l.issued \in Nat /\ l.held \subseteq Nat /\ l.known \subseteq Nat /\ l.replaced \subseteq Nat

Typed ==
    /\ cfg \in Configs /\ store \in Material /\ Logged(log)
    /\ Fielded(session, SessionFields) /\ session.gate \in Requests \cup {None}
    /\ Fielded(req, Requests) /\ \A r \in Requests : Fielded(req[r], RequestFields)

\* The one inside holds the gate.
Gated ==
    /\ session.gate # None => req[session.gate].phase \in Inside
    /\ \A r \in Requests : req[r].phase \in Inside => session.gate = r

\* What the store has was issued, was held, was not replaced, and is remembered if
\* it was rejected.
Stored(c, s, l, rejected) ==
    /\ s.access <= l.issued /\ s.refresh <= l.issued
    /\ \A t \in l.known \cup l.replaced : t <= l.issued
    /\ s.access \in l.held
    /\ s.access \in l.known => rejected = s.access
    /\ c.mode # "copilot" => s.refresh \notin l.replaced

\* The material an exchange began with, and what the server issued for it.
Exchanged(q, c, s, l) ==
    /\ q.original \in Material
    /\ q.original.access <= l.issued /\ q.original.refresh <= l.issued
    /\ s.revision = q.original.revision =>
          s.access = q.original.access /\ s.refresh = q.original.refresh
    /\ q.original.revision <= s.revision
    /\ c.mode # "copilot" =>
          /\ s.revision # q.original.revision => s.refresh # q.original.refresh
          /\ q.original.refresh \notin l.replaced
    /\ q.phase = "answer" =>
          /\ q.issue \in Nat /\ q.issue <= l.issued
          /\ q.original.access < q.issue /\ q.original.refresh < q.issue
          /\ q.issue \notin l.known \cup l.replaced

\* How far a body was repaired that is repaired step by step.
Rank(effort) ==
    IF effort \in {"none", "max"} THEN 0 ELSE IF effort \in {"minimal", "xhigh"} THEN 1 ELSE 2

Forward(q, c, s) ==
    /\ Fielded(q.shape, ShapeFields)
    /\ \A p \in q.posted :
          /\ p[1] <= s.access
          /\ IF c.protocol = "anthropic" THEN ~q.healed => p[2] = q.shape
             ELSE Rank(p[2].effort) <= Rank(q.shape.effort)

Counted(q) ==
    /\ IsFiniteSet(q.posted) /\ Cardinality(q.posted) = q.posts /\ q.posts \in Nat /\ q.posts <= Attempts
    /\ \A p \in q.posted : p[1] \in Nat

Posted(q, c, s, l) ==
    /\ q.phase \in Ended => q.posted = {} /\ q.healed = FALSE
    /\ q.phase \in Before \cup {"post"} => q.posts < Attempts
    /\ q.phase \in Before \cup After \cup {"post"} => Forward(q, c, s)
    /\ q.phase \in Before =>
          \A p \in q.posted : p[2] = q.shape => p[1] < s.access \/ p[1] \in l.known
    /\ q.phase = "post" => \A p \in q.posted : p[2] = q.shape => p[1] < q.material.access
    /\ q.phase \in After => \A p \in q.posted : p[2] = q.shape => p[1] <= q.material.access

Valid(m, c) == ~c.pinned \/ m.account = "a"

Handed(q, c, s, l) ==
    /\ q.phase \in After \cup {"post"} => q.material \in Material /\ q.material.access <= s.access
    /\ q.phase \in {"post", "wait"} => q.material.access \in l.held \ q.seen /\ Valid(q.material, c)

Sound(q, c, s, l) ==
    /\ q.seen \subseteq l.known
    /\ q.phase \in Exchanges => Exchanged(q, c, s, l)
    /\ Handed(q, c, s, l) /\ Counted(q) /\ Posted(q, c, s, l)

ProviderInv ==
    /\ Typed /\ Gated
    /\ Stored(cfg, store, log, session.rejected)
    /\ \A r \in Requests : Sound(req[r], cfg, store, log)

-------------------------------------------------------------------------------
\* The store and the log only move on.
Later(s, l, t, k) ==
    /\ s \in Material /\ t \in Material
    /\ s.access <= t.access /\ l.held \subseteq k.held /\ l.known \subseteq k.known

\* What holds of a request but for its exchange still holds later.
LEMMA RestLater ==
    ASSUME NEW q, NEW c, NEW s, NEW l, NEW t, NEW k, Sound(q, c, s, l), Later(s, l, t, k)
    PROVE  q.seen \subseteq k.known /\ Handed(q, c, t, k) /\ Counted(q) /\ Posted(q, c, t, k)
<1>1. s.access \in Nat /\ t.access \in Nat /\ s.access <= t.access BY DEF Later, Material
<1>2. q.seen \subseteq k.known BY DEF Sound, Later
<1>3. Handed(q, c, t, k)
  <2>1. ASSUME q.phase \in After \cup {"post"}
        PROVE  q.material \in Material /\ q.material.access <= t.access
    <3>1. q.material \in Material /\ q.material.access <= s.access BY <2>1 DEF Sound, Handed
    <3>2. q.material.access \in Nat BY <3>1 DEF Material
    <3> QED BY <3>1, <3>2, <1>1
  <2>2. q.phase \in {"post", "wait"} => q.material.access \in k.held \ q.seen /\ Valid(q.material, c)
    BY DEF Sound, Handed, Later
  <2> QED BY <2>1, <2>2 DEF Handed
<1>4. Posted(q, c, t, k)
  <2>1. \A p \in q.posted : p[1] \in Nat BY DEF Sound, Counted
  <2>2. q.phase \in Before \cup After \cup {"post"} => Forward(q, c, t)
    BY <1>1, <2>1 DEF Sound, Posted, Forward
  <2>3. q.phase \in Before => \A p \in q.posted : p[2] = q.shape => p[1] < t.access \/ p[1] \in k.known
    BY <1>1, <2>1 DEF Sound, Posted, Later
  <2> QED BY <2>2, <2>3 DEF Sound, Posted
<1> QED BY <1>2, <1>3, <1>4 DEF Sound

LEMMA SoundLater ==
    ASSUME NEW q, NEW c, NEW s, NEW l, NEW t, NEW k,
           Sound(q, c, s, l), q.phase \notin Exchanges, Later(s, l, t, k)
    PROVE  Sound(q, c, t, k)
<1>1. q.seen \subseteq k.known /\ Handed(q, c, t, k) /\ Counted(q) /\ Posted(q, c, t, k) BY RestLater
<1> QED BY <1>1 DEF Sound

\* A step of one request: the others see the store and the log move on, and only if
\* that request holds the gate.
GateMoves(r, n) ==
    /\ session'.gate = r <=> n.phase \in Inside
    /\ session'.gate \in {session.gate, r, None}
    /\ session.gate \in {r, None} \/ session'.gate = session.gate

LEMMA StepKept ==
    ASSUME ProviderInv, NEW r \in Requests, NEW n, Fielded(n, RequestFields), Set(r, n), cfg' = cfg,
           store' \in Material, Logged(log'), Fielded(session', SessionFields),
           Stored(cfg, store', log', session'.rejected), Sound(n, cfg, store', log'),
           Later(store, log, store', log'), GateMoves(r, n),
           session.gate # r => store' = store /\ log' = log
    PROVE  ProviderInv'
<1>0. None \notin Requests BY ProviderAssumption
<1>1. \A q \in Requests : req'[q] = IF q = r THEN n ELSE req[q]
  BY Zenon DEF Set, ProviderInv, Typed, Fielded
<1>2. Fielded(req', Requests)
  BY Zenon DEF Set, ProviderInv, Typed, Fielded
<1>3. \A q \in Requests : Fielded(req'[q], RequestFields) BY <1>1 DEF ProviderInv, Typed
<1>4. session'.gate \in Requests \cup {None} BY DEF GateMoves, ProviderInv, Typed
<1>5. Typed' BY <1>2, <1>3, <1>4 DEF ProviderInv, Typed
<1>6. Gated'
  <2>1. session'.gate # None => req'[session'.gate].phase \in Inside
    BY <1>0, <1>1, <1>4 DEF GateMoves, ProviderInv, Gated, Typed
  <2>2. \A q \in Requests : req'[q].phase \in Inside => session'.gate = q
    BY <1>0, <1>1 DEF GateMoves, ProviderInv, Gated
  <2> QED BY <2>1, <2>2 DEF Gated
<1>7. ASSUME NEW q \in Requests PROVE Sound(req'[q], cfg, store', log')
  <2>1. CASE q = r BY <2>1, <1>1
  <2>2. CASE q # r /\ session.gate # r
    BY <2>2, <1>1 DEF ProviderInv
  <2>3. CASE q # r /\ session.gate = r
    <3>1. req[q].phase \notin Exchanges BY <2>3 DEF ProviderInv, Gated, Inside, Exchanges
    <3>2. Sound(req[q], cfg, store', log') BY <3>1, SoundLater DEF ProviderInv
    <3> QED BY <3>2, <2>3, <1>1
  <2> QED BY <2>1, <2>2, <2>3
<1>8. Stored(cfg, store, log, session.rejected)' OBVIOUS
<1>9. (\A q \in Requests : Sound(req[q], cfg, store, log))' BY <1>7
<1> QED BY <1>5, <1>6, <1>8, <1>9 DEF ProviderInv

-------------------------------------------------------------------------------
(* What a request becomes.                                                 *)
Body(n, q) == n.healed = q.healed /\ n.shape = q.shape /\ n.posts = q.posts /\ n.posted = q.posted

LEMMA EndedSound ==
    ASSUME NEW c, NEW s, NEW l, NEW n, n.phase \in Ended, n.posted = {}, n.posts = 0, n.seen = {},
           n.healed = FALSE
    PROVE  Sound(n, c, s, l)
<1>1. n.phase \notin Exchanges \cup Before \cup After \cup {"post"}
  BY DEF Ended, Exchanges, Before, After
<1>2. Counted(n) BY FS_EmptySet, ProviderAssumption DEF Counted
<1>3. Posted(n, c, s, l) BY <1>1 DEF Posted
<1>4. Handed(n, c, s, l) BY <1>1 DEF Handed, After
<1> QED BY <1>1, <1>2, <1>3, <1>4 DEF Sound

LEMMA GoneSound ==
    ASSUME NEW c, NEW s, NEW l, NEW phase \in Ended, NEW n, n = Gone(phase)
    PROVE  Fielded(n, RequestFields) /\ n.phase = phase /\ Sound(n, c, s, l)
<1>1. /\ Fielded(n, RequestFields) /\ n.phase = phase /\ n.posted = {} /\ n.posts = 0 /\ n.seen = {}
      /\ n.healed = FALSE
  BY Zenon DEF Gone, NewRequest, Fielded, RequestFields
<1> QED BY <1>1, EndedSound

\* A request that goes on before it has a token, or from its answer to the gate.
LEMMA MovesSound ==
    ASSUME NEW c, NEW s, NEW l, NEW q, NEW n, Sound(q, c, s, l), Body(n, q), n.seen \subseteq l.known,
           \/ q.phase \in Before /\ n.phase \in {"load", "reload"}
           \/ q.phase \in After /\ n.phase \in {"rejecting", "rejectload"} /\ n.material = q.material
    PROVE  Sound(n, c, s, l)
<1>1. Counted(n) BY DEF Sound, Counted, Body
<1>2. n.phase \notin Exchanges \cup Ended \cup {"post", "wait"} BY DEF Exchanges, Ended
<1>3. Handed(n, c, s, l) BY <1>2 DEF Handed, Sound, Before, After
<1>4. Posted(n, c, s, l)
  <2>1. CASE q.phase \in Before /\ n.phase \in {"load", "reload"}
    BY <1>2, <2>1 DEF Posted, Sound, Body, Before, After, Forward
  <2>2. CASE q.phase \in After /\ n.phase \in {"rejecting", "rejectload"} /\ n.material = q.material
    BY <1>2, <2>2 DEF Posted, Sound, Body, Before, After, Forward
  <2> QED BY <2>1, <2>2
<1> QED BY <1>1, <1>2, <1>3, <1>4 DEF Sound

\* An exchange begins with the store's material.
LEMMA ExchangingSound ==
    ASSUME NEW c, NEW s \in Material, NEW l, NEW rejected, NEW q, NEW n, Sound(q, c, s, l),
           Stored(c, s, l, rejected), Body(n, q), n.seen \subseteq l.known,
           q.phase \in Before, n.phase = "refresh", n.original = s
    PROVE  Sound(n, c, s, l)
<1>1. Counted(n) BY DEF Sound, Counted, Body
<1>2. Handed(n, c, s, l) BY DEF Handed, After
<1>3. Posted(n, c, s, l) BY DEF Posted, Sound, Body, Before, After, Forward, Ended
<1>4. Exchanged(n, c, s, l)
  <2>1. s.revision \in Nat /\ s.access \in Nat BY DEF Material
  <2> QED BY <2>1 DEF Exchanged, Stored
<1> QED BY <1>1, <1>2, <1>3, <1>4 DEF Sound

\* The store's material is handed out: it was never posted with this body.
LEMMA HandedSound ==
    ASSUME NEW c, NEW s \in Material, NEW l, NEW rejected, NEW q, NEW n, Sound(q, c, s, l),
           Stored(c, s, l, rejected), Body(n, q), n.seen = q.seen,
           q.phase \in Before, n.phase = "post", n.material = s,
           Valid(s, c), rejected # s.access
    PROVE  Sound(n, c, s, l)
<1>0. s.access \in Nat BY DEF Material
<1>1. Counted(n) BY DEF Sound, Counted, Body
<1>2. s.access \notin l.known BY DEF Stored
<1>3. Handed(n, c, s, l) BY <1>0, <1>2 DEF Handed, After, Sound, Stored
<1>4. Posted(n, c, s, l)
  <2>1. Forward(n, c, s) BY DEF Posted, Sound, Body, Forward
  <2>2. \A p \in n.posted : p[2] = n.shape => p[1] < s.access
    <3>1. \A p \in q.posted : p[1] \in Nat /\ p[1] <= s.access BY DEF Posted, Sound, Counted, Forward
    <3>2. \A p \in q.posted : p[2] = q.shape => p[1] < s.access \/ p[1] \in l.known
      BY DEF Posted, Sound
    <3> QED BY <1>0, <1>2, <3>1, <3>2 DEF Body
  <2>3. n.posts < Attempts BY DEF Posted, Sound, Body
  <2> QED BY <2>1, <2>2, <2>3 DEF Posted, Before, After, Ended
<1> QED BY <1>1, <1>3, <1>4 DEF Sound, Exchanges

\* The request is posted with a token and a body that no post of it had together.
LEMMA PostSound ==
    ASSUME NEW c, NEW s \in Material, NEW l, NEW q, NEW n, Sound(q, c, s, l),
           q.phase = "post", n.phase = "wait", n.material = q.material, n.seen = q.seen,
           n.healed = q.healed, n.shape = q.shape, n.posts = q.posts + 1,
           n.posted = q.posted \cup {<<q.material.access, q.shape>>}
    PROVE  Sound(n, c, s, l)
<1>1. q.material.access \in Nat /\ s.access \in Nat /\ q.material.access <= s.access
  BY DEF Sound, Handed, Material
<1>2. \A p \in q.posted : p[2] = q.shape => p[1] < q.material.access BY DEF Sound, Posted
<1>3. <<q.material.access, q.shape>> \notin q.posted BY <1>1, <1>2
<1>4. q.posts \in Nat /\ q.posts < Attempts BY DEF Sound, Posted, Counted
<1>5. IsFiniteSet(n.posted) /\ Cardinality(n.posted) = q.posts + 1
  <2> DEFINE pair == <<q.material.access, q.shape>>
  <2>1. IsFiniteSet(q.posted) /\ Cardinality(q.posted) = q.posts BY DEF Sound, Counted
  <2>2. pair \notin q.posted /\ n.posted = q.posted \cup {pair} BY <1>3
  <2> HIDE DEF pair
  <2>3. IsFiniteSet(q.posted \cup {pair}) /\ Cardinality(q.posted \cup {pair}) = Cardinality(q.posted) + 1
    BY <2>1, <2>2, FS_AddElement
  <2> QED BY <2>1, <2>2, <2>3
<1>6. Attempts \in Nat BY ProviderAssumption
<1>7. \A p \in n.posted : p[1] \in Nat BY <1>1 DEF Sound, Counted
<1>8. Counted(n) BY <1>4, <1>5, <1>6, <1>7 DEF Counted
<1>9. Handed(n, c, s, l) BY DEF Sound, Handed
<1>10. Posted(n, c, s, l)
  <2>1. Forward(n, c, s)
    <3>1. Forward(q, c, s) BY DEF Sound, Posted
    <3> DEFINE a == q.material.access
               w == q.shape
    <3>2. w.effort = n.shape.effort /\ Rank(w.effort) <= Rank(n.shape.effort) BY DEF Rank
    <3>3. \A p \in n.posted : p \in q.posted \/ (p[1] = a /\ p[2] = w) OBVIOUS
    <3>4. a <= s.access BY <1>1
    <3> HIDE DEF a, w
    <3> QED BY <3>1, <3>2, <3>3, <3>4 DEF Forward, w
  <2>2. \A p \in n.posted : p[2] = n.shape => p[1] <= n.material.access
    BY <1>1, <1>2, <1>7
  <2> QED BY <2>1, <2>2 DEF Posted, Before, After, Ended
<1> QED BY <1>8, <1>9, <1>10 DEF Sound, Exchanges

\* The server answers an exchange: its tokens are the newest there are.
LEMMA ExchangeSound ==
    ASSUME NEW c, NEW s \in Material, NEW l, NEW k, NEW rejected, NEW q, NEW n, Logged(l),
           Sound(q, c, s, l), Stored(c, s, l, rejected), Body(n, q), n.seen = q.seen,
           q.phase = "refresh", n.phase = "answer", n.original = q.original, n.issue = l.issued + 1,
           k.issued = l.issued + 1, k.held = l.held, k.known = l.known, k.replaced = l.replaced
    PROVE  Sound(n, c, s, k) /\ Stored(c, s, k, rejected)
<1>0. l.issued \in Nat /\ l.known \subseteq Nat /\ l.replaced \subseteq Nat BY DEF Logged
<1>1. Counted(n) BY DEF Sound, Counted, Body
<1>2. Handed(n, c, s, k) BY DEF Handed, After
<1>3. Posted(n, c, s, k) BY DEF Posted, Sound, Body, Before, After, Forward, Ended
<1>4. Exchanged(q, c, s, l) BY DEF Sound, Exchanges
<1>5. /\ q.original.access \in Nat /\ q.original.refresh \in Nat
      /\ q.original.access <= l.issued /\ q.original.refresh <= l.issued
  BY <1>4 DEF Exchanged, Material
<1>6. \A t \in l.known \cup l.replaced : t \in Nat /\ t <= l.issued BY <1>0 DEF Stored
<1>7. Exchanged(n, c, s, k)
  <2>1. n.issue \in Nat /\ n.issue <= k.issued /\ n.issue \notin k.known \cup k.replaced BY <1>0, <1>6
  <2>2. n.original.access < n.issue /\ n.original.refresh < n.issue BY <1>0, <1>5
  <2>3. n.original.access <= k.issued /\ n.original.refresh <= k.issued BY <1>0, <1>5
  <2> QED BY <1>4, <2>1, <2>2, <2>3 DEF Exchanged
<1>8. Stored(c, s, k, rejected)
  <2>1. s.access \in Nat /\ s.refresh \in Nat /\ s.access <= l.issued /\ s.refresh <= l.issued
    BY DEF Stored, Material
  <2>2. s.access <= k.issued /\ s.refresh <= k.issued BY <2>1, <1>0
  <2>3. \A t \in k.known \cup k.replaced : t <= k.issued BY <1>0, <1>6
  <2> QED BY <2>2, <2>3 DEF Stored
<1> QED BY <1>1, <1>2, <1>3, <1>7, <1>8 DEF Sound

\* The answer goes to the store, unless the host's rotation was first.
LEMMA ReplaceSound ==
    ASSUME NEW c, NEW s \in Material, NEW t \in Material, NEW l, NEW k, NEW rejected, NEW q, NEW n,
           Logged(l), Sound(q, c, s, l), Stored(c, s, l, rejected), Body(n, q), n.seen = q.seen,
           q.phase = "answer", n.phase = "reload",
           k.issued = l.issued, k.known = l.known, k.replaced = l.replaced \cup {q.original.refresh},
           \/ s.revision # q.original.revision /\ t = s /\ k.held = l.held
           \/ /\ s.revision = q.original.revision
              /\ t.access = q.issue /\ k.held = l.held \cup {q.issue}
              /\ t.refresh = IF c.mode = "copilot" THEN q.original.refresh ELSE q.issue
    PROVE  Sound(n, c, t, k) /\ Stored(c, t, k, rejected) /\ Later(s, l, t, k)
<1>1. Exchanged(q, c, s, l) BY DEF Sound, Exchanges
<1>2. /\ q.original.access \in Nat /\ q.original.refresh \in Nat /\ q.issue \in Nat /\ s.access \in Nat
      /\ q.original.access < q.issue /\ q.original.refresh < q.issue /\ q.issue <= l.issued
      /\ q.issue \notin l.known \cup l.replaced /\ q.original.refresh <= l.issued
  BY <1>1 DEF Exchanged, Material
<1>3. CASE s.revision # q.original.revision /\ t = s /\ k.held = l.held
  <2>1. c.mode # "copilot" => s.refresh # q.original.refresh BY <1>1, <1>3 DEF Exchanged
  <2>2. Stored(c, t, k, rejected) BY <1>2, <1>3, <2>1 DEF Stored
  <2>3. Later(s, l, t, k) BY <1>2, <1>3 DEF Later
  <2>4. Sound(n, c, s, l) BY MovesSound DEF Before, Sound
  <2>5. n.phase \notin Exchanges BY DEF Exchanges
  <2> QED BY <2>2, <2>3, <2>4, <2>5, SoundLater
<1>4. CASE /\ s.revision = q.original.revision
           /\ t.access = q.issue /\ k.held = l.held \cup {q.issue}
           /\ t.refresh = IF c.mode = "copilot" THEN q.original.refresh ELSE q.issue
  <2>1. s.access = q.original.access BY <1>1, <1>4 DEF Exchanged
  <2>2. Stored(c, t, k, rejected)
    <3>1. t.access <= k.issued /\ t.refresh <= k.issued BY <1>2, <1>4
    <3>2. \A x \in k.known \cup k.replaced : x <= k.issued BY <1>2 DEF Stored
    <3>3. t.access \in k.held /\ t.access \notin k.known BY <1>2, <1>4
    <3>4. c.mode # "copilot" => t.refresh \notin k.replaced BY <1>2, <1>4
    <3> QED BY <3>1, <3>2, <3>3, <3>4 DEF Stored
  <2>3. Later(s, l, t, k) BY <1>2, <1>4, <2>1 DEF Later
  <2>4. Sound(n, c, s, l) BY MovesSound DEF Before, Sound
  <2>5. n.phase \notin Exchanges BY DEF Exchanges
  <2> QED BY <2>2, <2>3, <2>4, <2>5, SoundLater
<1> QED BY <1>3, <1>4

\* After its rejection, a token is known or another one is in the store.
LEMMA AgainSound ==
    ASSUME NEW c, NEW s \in Material, NEW l, NEW q, NEW n, Sound(q, c, s, l), Body(n, q), n.seen = {},
           q.phase = "rejectload", n.phase = "lock", q.posts # Attempts,
           q.material.access = s.access => s.access \in l.known
    PROVE  Sound(n, c, s, l)
<1>1. Counted(n) BY DEF Sound, Counted, Body
<1>2. Handed(n, c, s, l) BY DEF Handed, After
<1>3. q.material.access \in Nat /\ s.access \in Nat /\ q.material.access <= s.access
  BY DEF Sound, Handed, Material, After
<1>4. \A p \in q.posted : p[1] \in Nat BY DEF Sound, Counted
<1>5. \A p \in q.posted : p[2] = q.shape => p[1] <= q.material.access BY DEF Sound, Posted, After
<1>6. \A p \in n.posted : p[2] = n.shape => p[1] < s.access \/ p[1] \in l.known
  <2>1. CASE q.material.access = s.access BY <1>3, <1>4, <1>5, <2>1 DEF Body
  <2>2. CASE q.material.access # s.access BY <1>3, <1>4, <1>5, <2>2 DEF Body
  <2> QED BY <2>1, <2>2
<1>7. n.posts < Attempts BY ProviderAssumption DEF Sound, Counted, Body
<1>8. Forward(n, c, s) BY DEF Sound, Posted, Forward, Body, After
<1>9. Posted(n, c, s, l) BY <1>6, <1>7, <1>8 DEF Posted, Before, After, Ended
<1> QED BY <1>1, <1>2, <1>9 DEF Sound, Exchanges

\* A repaired body is none of those that were posted.
LEMMA RepairedSound ==
    ASSUME NEW c, NEW s \in Material, NEW l, NEW q, NEW n, Sound(q, c, s, l), n.seen = {},
           q.phase = "wait", n.phase = "lock", q.posts # Attempts, n.posts = q.posts, n.posted = q.posted,
           Fielded(n.shape, ShapeFields), n.shape # q.shape, q.healed = FALSE,
           c.protocol = "anthropic" => n.healed = TRUE,
           c.protocol # "anthropic" => Rank(q.shape.effort) < Rank(n.shape.effort)
    PROVE  Sound(n, c, s, l)
<1>1. Counted(n) BY DEF Sound, Counted
<1>2. Handed(n, c, s, l) BY DEF Handed, After
<1>3. Forward(q, c, s) BY DEF Sound, Posted, After
<1>4. Forward(n, c, s) /\ \A p \in n.posted : p[2] # n.shape
  <2>1. CASE c.protocol = "anthropic" BY <1>3, <2>1 DEF Forward
  <2>2. CASE c.protocol # "anthropic" BY <1>3, <2>2 DEF Forward, Rank
  <2> QED BY <2>1, <2>2
<1>5. n.posts < Attempts BY ProviderAssumption DEF Sound, Counted
<1>6. Posted(n, c, s, l) BY <1>4, <1>5 DEF Posted, Before, After, Ended
<1> QED BY <1>1, <1>2, <1>6 DEF Sound, Exchanges

\* A request begins with no post.
LEMMA BeginSound ==
    ASSUME NEW c, NEW s, NEW l, NEW q, NEW n, Sound(q, c, s, l), n.seen = q.seen,
           q.phase = "new", n.phase = "lock", n.posts = q.posts, n.posted = q.posted, n.healed = q.healed,
           Fielded(n.shape, ShapeFields)
    PROVE  Sound(n, c, s, l)
<1>1. n.posted = {} /\ n.posts = 0 BY FS_EmptySet DEF Sound, Posted, Counted, Ended
<1>2. Counted(n) BY DEF Sound, Counted
<1>3. Handed(n, c, s, l) BY DEF Handed, After
<1>4. Posted(n, c, s, l) BY <1>1, ProviderAssumption DEF Posted, Before, After, Ended, Forward
<1> QED BY <1>2, <1>3, <1>4 DEF Sound, Exchanges

\* A stream says nothing more of tokens and posts.
LEMMA StreamSound ==
    ASSUME NEW c, NEW s, NEW l, NEW q, NEW n, Sound(q, c, s, l), n.seen = q.seen, Body(n, q),
           n.phase = "stream"
    PROVE  Sound(n, c, s, l)
<1>1. Counted(n) BY DEF Sound, Counted, Body
<1>2. Handed(n, c, s, l) BY DEF Handed, After
<1>3. Posted(n, c, s, l) BY DEF Posted, Before, After, Ended
<1> QED BY <1>1, <1>2, <1>3 DEF Sound, Exchanges

-------------------------------------------------------------------------------
(* The actions.                                                            *)
LEMMA SameKept ==
    ASSUME ProviderInv, NEW r \in Requests, NEW n, Fielded(n, RequestFields), Set(r, n),
           cfg' = cfg, store' = store, log' = log, Fielded(session', SessionFields),
           Stored(cfg, store, log, session'.rejected), Sound(n, cfg, store, log), GateMoves(r, n)
    PROVE  ProviderInv'
<1>1. store \in Material /\ Logged(log) BY DEF ProviderInv, Typed
<1>2. store.access \in Nat BY <1>1 DEF Material
<1>3. Later(store, log, store', log') BY <1>1, <1>2 DEF Later
<1>4. store' \in Material /\ Logged(log') BY <1>1
<1>5. Stored(cfg, store', log', session'.rejected) /\ Sound(n, cfg, store', log') OBVIOUS
<1> QED BY <1>3, <1>4, <1>5, StepKept

\* A step that does not touch the session.
LEMMA QuietKept ==
    ASSUME ProviderInv, NEW r \in Requests, NEW n, Fielded(n, RequestFields), Set(r, n),
           cfg' = cfg, store' = store, log' = log, session' = session,
           Sound(n, cfg, store, log), n.phase \in Inside <=> req[r].phase \in Inside
    PROVE  ProviderInv'
<1>0. None \notin Requests BY ProviderAssumption
<1>1. session.gate = r <=> req[r].phase \in Inside BY <1>0 DEF ProviderInv, Gated
<1>2. GateMoves(r, n) BY <1>1 DEF GateMoves
<1>3. Fielded(session', SessionFields) BY DEF ProviderInv, Typed
<1>4. Stored(cfg, store, log, session'.rejected) BY DEF ProviderInv
<1> QED BY <1>2, <1>3, <1>4, SameKept

\* The session once the gate is free.
LEMMA FreeRecord ==
    ASSUME ProviderInv
    PROVE  Fielded(Free, SessionFields) /\ Free.gate = None /\ Free.rejected = session.rejected
  BY Zenon DEF ProviderInv, Typed, Fielded, SessionFields, Free

LEMMA FailKept ==
    ASSUME ProviderInv, NEW r \in Requests, Fail(r)
    PROVE  ProviderInv'
<1>0. None \notin Requests BY ProviderAssumption
<1>1. PICK n : n = Gone("failed") OBVIOUS
<1>2. Fielded(n, RequestFields) /\ n.phase = "failed" /\ Sound(n, cfg, store, log)
  BY <1>1, GoneSound DEF Ended
<1>3. Set(r, n) /\ cfg' = cfg /\ store' = store /\ log' = log BY <1>1 DEF Fail
<1>4. CASE session.gate = r
  <2>1. session' = Free BY <1>4 DEF Fail
  <2>2. Fielded(session', SessionFields) /\ session'.gate = None /\ session'.rejected = session.rejected
    BY <2>1, FreeRecord
  <2>3. GateMoves(r, n) BY <1>0, <1>2, <1>4, <2>2 DEF GateMoves, Inside
  <2>4. Stored(cfg, store, log, session'.rejected) BY <2>2 DEF ProviderInv
  <2> QED BY <1>2, <1>3, <2>2, <2>3, <2>4, SameKept
<1>5. CASE session.gate # r
  <2>1. session' = session BY <1>5 DEF Fail
  <2>2. n.phase \in Inside <=> req[r].phase \in Inside BY <1>2, <1>5 DEF ProviderInv, Gated, Inside
  <2> QED BY <1>2, <1>3, <2>1, <2>2, QuietKept
<1> QED BY <1>4, <1>5

\* One that holds the gate ends.
LEMMA EndKept ==
    ASSUME ProviderInv, NEW r \in Requests, req[r].phase \in Inside, NEW phase \in Ended,
           Set(r, Gone(phase)), Fielded(session', SessionFields), session'.gate = None,
           Stored(cfg, store, log, session'.rejected), cfg' = cfg, store' = store, log' = log
    PROVE  ProviderInv'
<1>0. None \notin Requests BY ProviderAssumption
<1>1. PICK n : n = Gone(phase) OBVIOUS
<1>2. Fielded(n, RequestFields) /\ n.phase = phase /\ Sound(n, cfg, store, log) BY <1>1, GoneSound
<1>3. Set(r, n) BY <1>1
<1>4. n.phase \notin Inside BY <1>2 DEF Ended, Inside
<1>5. GateMoves(r, n) BY <1>0, <1>4 DEF GateMoves, ProviderInv, Gated
<1> QED BY <1>2, <1>3, <1>5, SameKept

LEMMA HandOutKept ==
    ASSUME ProviderInv, NEW r \in Requests, req[r].phase \in Inside \cap Before, NEW failure,
           validate(store), HandOut(r, store, failure)
    PROVE  ProviderInv'
<1>0. None \notin Requests \cup Nat BY ProviderAssumption
<1>1. PICK rejected : rejected = IF RejectedCurrent(store) THEN session.rejected ELSE None OBVIOUS
<1>2. PICK new : new = [Free EXCEPT !.failure = failure, !.rejected = rejected] OBVIOUS
<1>3. session' = new
  <2>1. Free.rejected = session.rejected BY FreeRecord
  <2>2. session' = [Free EXCEPT !.failure = failure,
                                !.rejected = IF RejectedCurrent(store) THEN Free.rejected ELSE None]
    BY DEF HandOut
  <2> QED BY <2>1, <2>2, <1>1, <1>2
<1>4. Fielded(session', SessionFields) /\ session'.gate = None /\ session'.rejected = rejected
  <2>1. Fielded(Free, SessionFields) /\ Free.gate = None BY FreeRecord
  <2> QED BY <1>2, <1>3, <2>1, Zenon DEF Fielded, SessionFields
<1>5. store \in Material /\ store.access \in Nat BY DEF ProviderInv, Typed, Material
<1>6. Stored(cfg, store, log, rejected)
  <2>1. store.access \in log.known => RejectedCurrent(store)
    BY <1>0, <1>5 DEF ProviderInv, Stored, RejectedCurrent
  <2> QED BY <1>1, <2>1 DEF ProviderInv, Stored, RejectedCurrent
<1>7. cfg' = cfg /\ store' = store /\ log' = log BY DEF HandOut
<1>8. CASE ~Usable(store)
  <2>1. Set(r, Gone("failed")) BY <1>8 DEF HandOut
  <2> QED BY <1>4, <1>6, <1>7, <2>1, EndKept DEF Ended
<1>9. CASE Usable(store) /\ cfg.direct
  <2>1. Set(r, Gone("done")) BY <1>9 DEF HandOut
  <2> QED BY <1>4, <1>6, <1>7, <2>1, EndKept DEF Ended
<1>10. CASE Usable(store) /\ ~cfg.direct
  <2>1. PICK n : n = [req[r] EXCEPT !.phase = "post", !.material = store, !.original = None, !.issue = 0] OBVIOUS
  <2>2. Set(r, n) BY <1>10, <2>1 DEF HandOut
  <2>3. Fielded(req[r], RequestFields) BY DEF ProviderInv, Typed
  <2>4. /\ Fielded(n, RequestFields) /\ n.phase = "post" /\ n.material = store /\ n.seen = req[r].seen
        /\ Body(n, req[r])
    BY <2>1, <2>3, Zenon DEF Fielded, RequestFields, Body
  <2>5. Valid(store, cfg) BY DEF Valid, validate
  <2>6. session.rejected # store.access BY <1>0, <1>5, <1>10 DEF Usable, RejectedCurrent
  <2>7. Sound(req[r], cfg, store, log) /\ Stored(cfg, store, log, session.rejected) BY DEF ProviderInv
  <2>8. req[r].phase \in Before OBVIOUS
  <2>9. Sound(n, cfg, store, log) BY <1>5, <2>4, <2>5, <2>6, <2>7, <2>8, HandedSound
  <2>10. GateMoves(r, n) BY <1>0, <1>4, <2>4 DEF GateMoves, Inside, ProviderInv, Gated
  <2>11. Stored(cfg, store, log, session'.rejected) BY <1>4, <1>6
  <2> QED BY <1>4, <1>7, <2>2, <2>4, <2>9, <2>10, <2>11, SameKept
<1> QED BY <1>8, <1>9, <1>10

LEMMA ExchangingKept ==
    ASSUME ProviderInv, NEW r \in Requests, req[r].phase \in Inside \cap Before, NEW retried,
           Exchanging(r, store, retried)
    PROVE  ProviderInv'
<1>1. PICK n : n = [req[r] EXCEPT !.phase = "refresh", !.original = store, !.retried = retried] OBVIOUS
<1>2. Set(r, n) /\ cfg' = cfg /\ store' = store /\ log' = log /\ session' = session
  BY <1>1 DEF Exchanging
<1>3. Fielded(req[r], RequestFields) BY DEF ProviderInv, Typed
<1>4. /\ Fielded(n, RequestFields) /\ n.phase = "refresh" /\ n.original = store /\ n.seen = req[r].seen
      /\ Body(n, req[r])
  BY <1>1, <1>3, Zenon DEF Fielded, RequestFields, Body
<1>5. Sound(req[r], cfg, store, log) /\ Stored(cfg, store, log, session.rejected) /\ store \in Material
  BY DEF ProviderInv, Typed
<1>6. n.seen \subseteq log.known BY <1>4, <1>5 DEF Sound
<1>7. req[r].phase \in Before OBVIOUS
<1>8. Sound(n, cfg, store, log) BY <1>4, <1>5, <1>6, <1>7, ExchangingSound
<1>9. n.phase \in Inside <=> req[r].phase \in Inside BY <1>4 DEF Inside
<1> QED BY <1>2, <1>4, <1>8, <1>9, QuietKept

LEMMA LockKept ==
    ASSUME ProviderInv, NEW r \in Requests, Lock(r)
    PROVE  ProviderInv'
<1>0. None \notin Requests BY ProviderAssumption
<1>1. PICK n : n = [req[r] EXCEPT !.phase = "load", !.seen = log.known, !.retried = FALSE] OBVIOUS
<1>2. /\ Set(r, n) /\ cfg' = cfg /\ store' = store /\ log' = log /\ session' = [session EXCEPT !.gate = r]
      /\ req[r].phase = "lock" /\ session.gate = None
  BY <1>1 DEF Lock
<1>3. Fielded(req[r], RequestFields) /\ Fielded(session, SessionFields) BY DEF ProviderInv, Typed
<1>4. Fielded(n, RequestFields) /\ n.phase = "load" /\ n.seen = log.known /\ Body(n, req[r])
  BY <1>1, <1>3, Zenon DEF Fielded, RequestFields, Body
<1>5. Fielded(session', SessionFields) /\ session'.gate = r /\ session'.rejected = session.rejected
  BY <1>2, <1>3, Zenon DEF Fielded, SessionFields
<1>6. Sound(req[r], cfg, store, log) /\ Stored(cfg, store, log, session'.rejected)
  BY <1>5 DEF ProviderInv
<1>7. Sound(n, cfg, store, log) BY <1>2, <1>4, <1>6, MovesSound DEF Before
<1>8. GateMoves(r, n) BY <1>0, <1>2, <1>4, <1>5 DEF GateMoves, Inside
<1> QED BY <1>2, <1>4, <1>5, <1>6, <1>7, <1>8, SameKept

LEMMA RejectLockKept ==
    ASSUME ProviderInv, NEW r \in Requests, RejectLock(r)
    PROVE  ProviderInv'
<1>0. None \notin Requests BY ProviderAssumption
<1>1. PICK n : n = [req[r] EXCEPT !.phase = "rejectload"] OBVIOUS
<1>2. /\ Set(r, n) /\ cfg' = cfg /\ store' = store /\ log' = log /\ session' = [session EXCEPT !.gate = r]
      /\ req[r].phase = "rejecting" /\ session.gate = None
  BY <1>1 DEF RejectLock
<1>3. Fielded(req[r], RequestFields) /\ Fielded(session, SessionFields) BY DEF ProviderInv, Typed
<1>4. /\ Fielded(n, RequestFields) /\ n.phase = "rejectload" /\ n.seen = req[r].seen /\ Body(n, req[r])
      /\ n.material = req[r].material
  BY <1>1, <1>3, Zenon DEF Fielded, RequestFields, Body
<1>5. Fielded(session', SessionFields) /\ session'.gate = r /\ session'.rejected = session.rejected
  BY <1>2, <1>3, Zenon DEF Fielded, SessionFields
<1>6. Sound(req[r], cfg, store, log) /\ Stored(cfg, store, log, session'.rejected)
  BY <1>5 DEF ProviderInv
<1>7. n.seen \subseteq log.known BY <1>4, <1>6 DEF Sound
<1>8. Sound(n, cfg, store, log) BY <1>2, <1>4, <1>6, <1>7, MovesSound DEF After
<1>9. GateMoves(r, n) BY <1>0, <1>2, <1>4, <1>5 DEF GateMoves, Inside
<1> QED BY <1>2, <1>4, <1>5, <1>6, <1>8, <1>9, SameKept

LEMMA LoadKept ==
    ASSUME ProviderInv, NEW r \in Requests, Load(r)
    PROVE  ProviderInv'
<1>1. req[r].phase \in Inside \cap Before BY DEF Load, Inside, Before
<1>2. CASE Fail(r) BY <1>2, FailKept
<1>3. CASE Exchanging(r, store, FALSE) BY <1>1, <1>3, ExchangingKept
<1>4. CASE validate(store) /\ HandOut(r, store, session.failure) BY <1>1, <1>4, HandOutKept
<1> QED BY <1>2, <1>3, <1>4 DEF Load

LEMMA ReloadKept ==
    ASSUME ProviderInv, NEW r \in Requests, Reload(r)
    PROVE  ProviderInv'
<1>1. req[r].phase \in Inside \cap Before BY DEF Reload, Inside, Before
<1>2. CASE Fail(r) BY <1>2, FailKept
<1>3. CASE validate(store) /\ HandOut(r, store, None) BY <1>1, <1>3, HandOutKept
<1> QED BY <1>2, <1>3 DEF Reload

LEMMA RecoverKept ==
    ASSUME ProviderInv, NEW r \in Requests, Recover(r)
    PROVE  ProviderInv'
<1>1. req[r].phase \in Inside \cap Before BY DEF Recover, Inside, Before
<1>2. CASE Fail(r) BY <1>2, FailKept
<1>3. CASE Exchanging(r, store, TRUE) BY <1>1, <1>3, ExchangingKept
<1>4. CASE validate(store) /\ HandOut(r, store, None) BY <1>1, <1>4, HandOutKept
<1>5. CASE validate(store) /\ HandOut(r, store, Failure(r)) BY <1>1, <1>5, HandOutKept
<1>6. CASE /\ Set(r, Gone("failed")) /\ session' = [Free EXCEPT !.failure = Failure(r)]
           /\ UNCHANGED <<cfg, store, overrides, log>>
  <2>1. Fielded(Free, SessionFields) /\ Free.gate = None /\ Free.rejected = session.rejected BY FreeRecord
  <2>2. Fielded(session', SessionFields) /\ session'.gate = None /\ session'.rejected = Free.rejected
    BY <1>6, <2>1, Zenon DEF Fielded, SessionFields
  <2>3. Stored(cfg, store, log, session'.rejected) BY <2>1, <2>2 DEF ProviderInv
  <2> QED BY <1>1, <1>6, <2>2, <2>3, EndKept DEF Ended
<1> QED BY <1>2, <1>3, <1>4, <1>5, <1>6 DEF Recover

LEMMA ExchangeKept ==
    ASSUME ProviderInv, NEW r \in Requests, Exchange(r)
    PROVE  ProviderInv'
<1>0. None \notin Requests BY ProviderAssumption
<1>1. PICK n : n = [req[r] EXCEPT !.phase = "answer", !.issue = log.issued + 1] OBVIOUS
<1>2. PICK spent : log' = [log EXCEPT !.issued = log.issued + 1, !.spent = spent] BY DEF Exchange
<1>3. Set(r, n) /\ cfg' = cfg /\ store' = store /\ session' = session /\ req[r].phase = "refresh"
  BY <1>1 DEF Exchange
<1>4. Fielded(req[r], RequestFields) /\ Logged(log) /\ store \in Material
      /\ Fielded(session, SessionFields)
  BY DEF ProviderInv, Typed
<1>5. /\ Fielded(n, RequestFields) /\ n.phase = "answer" /\ n.issue = log.issued + 1
      /\ n.original = req[r].original /\ n.seen = req[r].seen /\ Body(n, req[r])
  BY <1>1, <1>4, Zenon DEF Fielded, RequestFields, Body
<1>6. /\ Fielded(log', LogFields) /\ log'.issued = log.issued + 1 /\ log'.held = log.held
      /\ log'.known = log.known /\ log'.replaced = log.replaced
  BY <1>2, <1>4, Zenon DEF Fielded, LogFields, Logged
<1>7. Logged(log') BY <1>4, <1>6 DEF Logged
<1>8. Sound(req[r], cfg, store, log) /\ Stored(cfg, store, log, session.rejected) BY DEF ProviderInv
<1>9. Sound(n, cfg, store, log') /\ Stored(cfg, store, log', session.rejected)
  BY <1>3, <1>4, <1>5, <1>6, <1>8, ExchangeSound
<1>10. store.access \in Nat BY <1>4 DEF Material
<1>11. Later(store, log, store', log') BY <1>3, <1>4, <1>6, <1>10 DEF Later
<1>12. session.gate = r BY <1>3 DEF ProviderInv, Gated, Inside
<1>13. GateMoves(r, n) BY <1>3, <1>5, <1>12 DEF GateMoves, Inside
<1>14. Stored(cfg, store', log', session'.rejected) /\ Sound(n, cfg, store', log') BY <1>3, <1>9
<1>15. store' \in Material /\ Fielded(session', SessionFields) BY <1>3, <1>4
<1> QED BY <1>3, <1>5, <1>7, <1>11, <1>12, <1>13, <1>14, <1>15, StepKept

\* What the server's answer makes of the material.
LEMMA UpdatedType ==
    ASSUME NEW r \in Requests, NEW account \in {"a", "b"}, NEW m \in Material, m = req[r].original,
           req[r].issue \in Nat
    PROVE  /\ Updated(r, account) \in Material
           /\ Updated(r, account).access = req[r].issue
           /\ Updated(r, account).refresh = IF cfg.mode = "copilot" THEN m.refresh ELSE req[r].issue
<1> DEFINE refresh == IF cfg.mode = "copilot" THEN m.refresh ELSE req[r].issue
           name == IF cfg.mode = "anthropic" \/ (cfg.mode = "openai" /\ m.account = "") THEN account
                   ELSE m.account
<1>1. m.access \in Nat /\ m.refresh \in Nat /\ m.account \in Accounts /\ m.revision \in Nat BY DEF Material
<1>2. Updated(r, account) = [m EXCEPT !.access = req[r].issue, !.age = 0, !.revision = m.revision + 1,
                                      !.refresh = refresh, !.account = name]
  BY Zenon DEF Updated
<1>3. refresh \in Nat BY <1>1
<1>5. account \in Accounts BY DEF Accounts
<1>6. name \in Accounts BY <1>1, <1>5, Zenon
<1>7. m.revision + 1 \in Nat BY <1>1
<1> HIDE DEF refresh, name
<1>4. Updated(r, account) \in Material /\ Updated(r, account).access = req[r].issue
      /\ Updated(r, account).refresh = refresh
  <2>1. PICK new, a, v : new = Updated(r, account) /\ a = req[r].issue /\ v = m.revision + 1 OBVIOUS
  <2>2. new = [m EXCEPT !.access = a, !.age = 0, !.revision = v, !.refresh = refresh, !.account = name]
    BY <1>2, <2>1
  <2>3. a \in Nat /\ v \in Nat BY <1>7, <2>1
  <2>4. new \in Material /\ new.access = a /\ new.refresh = refresh
    <3>1. 0 \in 0..2 OBVIOUS
    <3> QED BY <1>3, <1>6, <2>2, <2>3, <3>1, Zenon DEF Material
  <2> QED BY <2>1, <2>4
<1> QED BY <1>4 DEF refresh

LEMMA ReplaceKept ==
    ASSUME ProviderInv, NEW r \in Requests, Replace(r)
    PROVE  ProviderInv'
<1>1. CASE Fail(r) BY <1>1, FailKept
<1>2. ASSUME NEW account \in {"a", "b"}, NEW new, new = Updated(r, account),
             Set(r, [req[r] EXCEPT !.phase = "reload"]),
             store' = IF store.revision = req[r].original.revision THEN new ELSE store,
             log' = [log EXCEPT !.replaced = log.replaced \cup {req[r].original.refresh},
                        !.held = IF store.revision = req[r].original.revision
                                 THEN log.held \cup {new.access} ELSE log.held],
             UNCHANGED <<cfg, session, overrides>>, req[r].phase = "answer"
      PROVE  ProviderInv'
  <2>1. Fielded(req[r], RequestFields) /\ Logged(log) /\ store \in Material
        /\ Fielded(session, SessionFields)
    BY DEF ProviderInv, Typed
  <2>2. Sound(req[r], cfg, store, log) /\ Stored(cfg, store, log, session.rejected) BY DEF ProviderInv
  <2>3. req[r].original \in Material /\ req[r].issue \in Nat /\ req[r].issue <= log.issued
        /\ req[r].original.refresh <= log.issued
    BY <1>2, <2>2 DEF Sound, Exchanged, Exchanges
  <2>4. PICK m \in Material : m = req[r].original BY <2>3
  <2>5. /\ new \in Material /\ new.access = req[r].issue
        /\ new.refresh = IF cfg.mode = "copilot" THEN m.refresh ELSE req[r].issue
    BY <1>2, <2>3, <2>4, UpdatedType
  <2>6. PICK n : n = [req[r] EXCEPT !.phase = "reload"] OBVIOUS
  <2>7. Fielded(n, RequestFields) /\ n.phase = "reload" /\ n.seen = req[r].seen /\ Body(n, req[r])
    BY <2>1, <2>6, Zenon DEF Fielded, RequestFields, Body
  <2>8. PICK held : held = IF store.revision = req[r].original.revision
                           THEN log.held \cup {new.access} ELSE log.held
    OBVIOUS
  <2>9. log' = [log EXCEPT !.replaced = log.replaced \cup {req[r].original.refresh}, !.held = held]
    BY <1>2, <2>8
  <2>10. /\ Fielded(log', LogFields) /\ log'.issued = log.issued /\ log'.held = held
         /\ log'.known = log.known /\ log'.replaced = log.replaced \cup {req[r].original.refresh}
    BY <2>1, <2>9, Zenon DEF Fielded, LogFields, Logged
  <2>11. req[r].original.refresh \in Nat BY <2>3 DEF Material
  <2>12. Logged(log') BY <2>1, <2>3, <2>5, <2>8, <2>10, <2>11 DEF Logged
  <2>13. store' \in Material BY <1>2, <2>1, <2>5
  <2>14. \/ store.revision # req[r].original.revision /\ store' = store /\ log'.held = log.held
         \/ /\ store.revision = req[r].original.revision
            /\ store'.access = req[r].issue /\ log'.held = log.held \cup {req[r].issue}
            /\ store'.refresh = IF cfg.mode = "copilot" THEN req[r].original.refresh ELSE req[r].issue
    BY <1>2, <2>4, <2>5, <2>8, <2>10
  <2>15. /\ Sound(n, cfg, store', log') /\ Stored(cfg, store', log', session.rejected)
         /\ Later(store, log, store', log')
    <3>1. PICK t, k : t = store' /\ k = log' OBVIOUS
    <3>2. \/ store.revision # req[r].original.revision /\ t = store /\ k.held = log.held
          \/ /\ store.revision = req[r].original.revision
             /\ t.access = req[r].issue /\ k.held = log.held \cup {req[r].issue}
             /\ t.refresh = IF cfg.mode = "copilot" THEN req[r].original.refresh ELSE req[r].issue
      BY <2>14, <3>1
    <3>3. /\ k.issued = log.issued /\ k.known = log.known
          /\ k.replaced = log.replaced \cup {req[r].original.refresh}
      BY <2>10, <3>1
    <3>4. t \in Material BY <2>13, <3>1
    <3>5. req[r].phase = "answer" /\ n.phase = "reload" /\ n.seen = req[r].seen /\ Body(n, req[r])
      BY <1>2, <2>7
    <3>6. Sound(n, cfg, t, k) /\ Stored(cfg, t, k, session.rejected) /\ Later(store, log, t, k)
      BY ONLY <2>1, <2>2, <3>2, <3>3, <3>4, <3>5, ReplaceSound
    <3> QED BY <3>1, <3>6
  <2>16. session.gate = r BY <1>2 DEF ProviderInv, Gated, Inside
  <2>17. GateMoves(r, n) BY <1>2, <2>7, <2>16 DEF GateMoves, Inside
  <2>18. Set(r, n) /\ cfg' = cfg /\ Stored(cfg, store', log', session'.rejected)
         /\ Fielded(session', SessionFields)
    BY <1>2, <2>1, <2>6, <2>15
  <2> QED BY <2>7, <2>12, <2>13, <2>15, <2>16, <2>17, <2>18, StepKept
<1> QED BY <1>1, <1>2 DEF Replace

LEMMA RejectKept ==
    ASSUME ProviderInv, NEW r \in Requests, Reject(r)
    PROVE  ProviderInv'
<1>0. None \notin Requests BY ProviderAssumption
<1>1. CASE Fail(r) BY <1>1, FailKept
<1>2. ASSUME NEW rejected, NEW k,
             session' = [Free EXCEPT !.rejected = rejected], log' = k, Set(r, Again(req[r])),
             UNCHANGED <<cfg, store, overrides>>, req[r].phase = "rejectload",
             \/ /\ store.access = req[r].material.access /\ rejected = store.access
                /\ k = [log EXCEPT !.known = log.known \cup {store.access}]
             \/ store.access # req[r].material.access /\ rejected = session.rejected /\ k = log
      PROVE  ProviderInv'
  <2>1. Fielded(req[r], RequestFields) /\ Logged(log) /\ store \in Material BY DEF ProviderInv, Typed
  <2>2. store.access \in Nat BY <2>1 DEF Material
  <2>3. Sound(req[r], cfg, store, log) /\ Stored(cfg, store, log, session.rejected) BY DEF ProviderInv
  <2>4. /\ Logged(k) /\ k.issued = log.issued /\ k.held = log.held /\ k.replaced = log.replaced
        /\ \/ k.known = log.known /\ store.access # req[r].material.access /\ rejected = session.rejected
           \/ /\ k.known = log.known \cup {store.access} /\ rejected = store.access
    <3>1. CASE store.access # req[r].material.access /\ rejected = session.rejected /\ k = log
      BY <2>1, <3>1
    <3>2. CASE /\ store.access = req[r].material.access /\ rejected = store.access
               /\ k = [log EXCEPT !.known = log.known \cup {store.access}]
      <4>1. /\ Fielded(k, LogFields) /\ k.issued = log.issued /\ k.held = log.held
            /\ k.replaced = log.replaced /\ k.known = log.known \cup {store.access}
        BY <2>1, <3>2, Zenon DEF Fielded, LogFields, Logged
      <4> QED BY <2>1, <2>2, <3>2, <4>1 DEF Logged
    <3> QED BY <1>2, <3>1, <3>2
  <2>5. Later(store, log, store, k) BY <2>1, <2>2, <2>4 DEF Later
  <2>6. Sound(req[r], cfg, store, k) BY <1>2, <2>3, <2>5, SoundLater DEF Exchanges
  <2>7. Stored(cfg, store, k, rejected) BY <2>3, <2>4 DEF Stored
  <2>8. Fielded(Free, SessionFields) /\ Free.gate = None BY FreeRecord
  <2>9. Fielded(session', SessionFields) /\ session'.gate = None /\ session'.rejected = rejected
    BY <1>2, <2>8, Zenon DEF Fielded, SessionFields
  <2>10. session.gate = r BY <1>2 DEF ProviderInv, Gated, Inside
  <2>11. ASSUME NEW n, n = Again(req[r]), Fielded(n, RequestFields), n.phase \notin Inside,
                Sound(n, cfg, store, k)
         PROVE  ProviderInv'
    <3>1. GateMoves(r, n) BY <1>0, <2>9, <2>10, <2>11 DEF GateMoves
    <3>2. /\ store' \in Material /\ Logged(log') /\ Stored(cfg, store', log', session'.rejected)
          /\ Sound(n, cfg, store', log') /\ Later(store, log, store', log') /\ Set(r, n) /\ cfg' = cfg
      BY <1>2, <2>1, <2>4, <2>5, <2>7, <2>9, <2>11
    <3> QED BY <2>9, <2>10, <2>11, <3>1, <3>2, StepKept
  <2>12. CASE req[r].posts = Attempts
    <3>1. PICK n : n = Gone("failed") OBVIOUS
    <3>2. n = Again(req[r]) BY <2>12, <3>1 DEF Again
    <3>3. Fielded(n, RequestFields) /\ n.phase = "failed" /\ Sound(n, cfg, store, k)
      BY <3>1, GoneSound DEF Ended
    <3> QED BY <2>11, <3>2, <3>3 DEF Inside
  <2>13. CASE req[r].posts # Attempts
    <3>1. PICK n : n = [req[r] EXCEPT !.phase = "lock", !.material = None, !.seen = {}] OBVIOUS
    <3>2. n = Again(req[r]) BY <2>13, <3>1 DEF Again
    <3>3. Fielded(n, RequestFields) /\ n.phase = "lock" /\ n.seen = {} /\ Body(n, req[r])
      BY <2>1, <3>1, Zenon DEF Fielded, RequestFields, Body
    <3>4. req[r].material.access = store.access => store.access \in k.known BY <2>4
    <3>5. Sound(n, cfg, store, k) BY <1>2, <2>1, <2>6, <2>13, <3>3, <3>4, AgainSound
    <3> QED BY <2>11, <3>2, <3>3, <3>5 DEF Inside
  <2> QED BY <2>12, <2>13
<1>3. CASE ~Fail(r)
  <2>1. PICK current : /\ current = (store.access = req[r].material.access)
                       /\ session' = [Free EXCEPT !.rejected = IF current THEN store.access ELSE @]
                       /\ log' = IF current THEN [log EXCEPT !.known = @ \cup {store.access}] ELSE log
                       /\ Set(r, Again(req[r])) /\ UNCHANGED <<cfg, store, overrides>>
    BY <1>3, Zenon DEF Reject
  <2>2. req[r].phase = "rejectload" BY DEF Reject
  <2>3. Free.rejected = session.rejected BY FreeRecord
  <2>4. CASE store.access = req[r].material.access
    <3>1. session' = [Free EXCEPT !.rejected = store.access]
          /\ log' = [log EXCEPT !.known = log.known \cup {store.access}]
      BY <2>1, <2>4
    <3>2. PICK k : k = [log EXCEPT !.known = log.known \cup {store.access}] OBVIOUS
    <3>3. log' = k BY <3>1, <3>2
    <3> QED BY <1>2, <2>1, <2>2, <2>4, <3>1, <3>2, <3>3
  <2>5. CASE store.access # req[r].material.access
    <3>1. session' = [Free EXCEPT !.rejected = session.rejected] /\ log' = log
      BY <2>1, <2>3, <2>5
    <3> QED BY <1>2, <2>1, <2>2, <2>5, <3>1
  <2> QED BY <2>4, <2>5
<1> QED BY <1>1, <1>3

-------------------------------------------------------------------------------
(* Bodies.                                                                 *)
LEMMA ShapeFielded ==
    ASSUME NEW thinking, NEW effort
    PROVE  Fielded(Shape(thinking, effort), ShapeFields)
  BY Zenon DEF Shape, Fielded, ShapeFields

LEMMA EffortSet ==
    ASSUME NEW shape, NEW effort, Fielded(shape, ShapeFields)
    PROVE  /\ Fielded([shape EXCEPT !.effort = effort], ShapeFields)
           /\ [shape EXCEPT !.effort = effort].effort = effort
  BY Zenon DEF Fielded, ShapeFields

LEMMA WeakerRank ==
    ASSUME NEW effort \in DOMAIN Weaker
    PROVE  Rank(effort) < Rank(Weaker[effort])
<1>1. effort \in {"max", "xhigh", "none", "minimal"} BY DEF Weaker
<1>2. CASE effort = "max" BY <1>2 DEF Weaker, Rank
<1>3. CASE effort = "xhigh" BY <1>3 DEF Weaker, Rank
<1>4. CASE effort = "none" BY <1>4 DEF Weaker, Rank
<1>5. CASE effort = "minimal" BY <1>5 DEF Weaker, Rank
<1> QED BY <1>1, <1>2, <1>3, <1>4, <1>5

\* A repair makes another body, or one that is repaired further.
LEMMA RepairForward ==
    ASSUME NEW shape, NEW complaint, NEW flipped, Fielded(shape, ShapeFields)
    PROVE  /\ Fielded(repair(shape, complaint, flipped), ShapeFields)
           /\ cfg.protocol # "anthropic" =>
                 \/ repair(shape, complaint, flipped) = shape
                 \/ Rank(shape.effort) < Rank(repair(shape, complaint, flipped).effort)
<1>1. CASE /\ complaint = "thinking" /\ cfg.protocol = "anthropic" /\ ~flipped
           /\ shape.thinking \in {"adaptive", "enabled"}
  <2>1. repair(shape, complaint, flipped) = Flipped(shape) BY <1>1 DEF repair
  <2>2. Fielded(Flipped(shape), ShapeFields) BY ShapeFielded DEF Flipped
  <2> QED BY <1>1, <2>1, <2>2
<1>2. CASE /\ complaint = "effort" /\ cfg.protocol = "anthropic"
           /\ shape.thinking = "adaptive" /\ shape.effort \in {"xhigh", "max"}
  <2>1. repair(shape, complaint, flipped) = [shape EXCEPT !.effort = "high"] BY <1>2 DEF repair
  <2> QED BY <1>2, <2>1, EffortSet
<1>3. CASE complaint = "effort" /\ cfg.protocol # "anthropic" /\ shape.effort \in DOMAIN Weaker
  <2>1. repair(shape, complaint, flipped) = [shape EXCEPT !.effort = Weaker[shape.effort]]
    BY <1>3 DEF repair
  <2>2. PICK effort : effort = Weaker[shape.effort] OBVIOUS
  <2>3. Rank(shape.effort) < Rank(effort) BY <1>3, <2>2, WeakerRank
  <2>4. /\ Fielded([shape EXCEPT !.effort = effort], ShapeFields)
        /\ [shape EXCEPT !.effort = effort].effort = effort
    BY EffortSet
  <2> QED BY <2>1, <2>2, <2>3, <2>4
<1>4. CASE /\ ~(/\ complaint = "thinking" /\ cfg.protocol = "anthropic" /\ ~flipped
                /\ shape.thinking \in {"adaptive", "enabled"})
           /\ ~(/\ complaint = "effort" /\ cfg.protocol = "anthropic"
                /\ shape.thinking = "adaptive" /\ shape.effort \in {"xhigh", "max"})
           /\ ~(complaint = "effort" /\ cfg.protocol # "anthropic" /\ shape.effort \in DOMAIN Weaker)
  <2>1. repair(shape, complaint, flipped) = shape BY <1>4 DEF repair
  <2> QED BY <2>1
<1> QED BY <1>1, <1>2, <1>3, <1>4

LEMMA LearnedFielded ==
    ASSUME NEW shape, Fielded(shape, ShapeFields)
    PROVE  Fielded(Learned(shape), ShapeFields)
<1>1. PICK kind : kind = IF overrides # None /\ shape.thinking \notin {"none", overrides.kind}
                         THEN repair(shape, "thinking", FALSE) ELSE shape
  OBVIOUS
<1>2. Fielded(kind, ShapeFields) BY <1>1, RepairForward
<1>3. Learned(shape) = IF overrides # None /\ overrides.cap THEN repair(kind, "effort", FALSE) ELSE kind
  BY <1>1 DEF Learned
<1> QED BY <1>2, <1>3, RepairForward

-------------------------------------------------------------------------------
(* Provider::send_body.                                                    *)
LEMMA BeginKept ==
    ASSUME ProviderInv, NEW r \in Requests, Begin(r)
    PROVE  ProviderInv'
<1>1. PICK shape : shape = Learned(cfg.shape) OBVIOUS
<1>2. PICK n : n = [req[r] EXCEPT !.phase = "lock", !.shape = shape] OBVIOUS
<1>3. /\ Set(r, n) /\ cfg' = cfg /\ store' = store /\ log' = log /\ session' = session
      /\ req[r].phase = "new"
  BY <1>1, <1>2 DEF Begin
<1>4. cfg.shape \in Shapes BY ProviderAssumption DEF ProviderInv, Typed
<1>5. Fielded(cfg.shape, ShapeFields) BY <1>4, Zenon DEF Shapes, Fielded, ShapeFields
<1>6. Fielded(shape, ShapeFields) BY <1>1, <1>5, LearnedFielded
<1>7. Fielded(req[r], RequestFields) BY DEF ProviderInv, Typed
<1>8. /\ Fielded(n, RequestFields) /\ n.phase = "lock" /\ n.shape = shape /\ n.seen = req[r].seen
      /\ n.posts = req[r].posts /\ n.posted = req[r].posted /\ n.healed = req[r].healed
  BY <1>2, <1>7, Zenon DEF Fielded, RequestFields
<1>9. Sound(req[r], cfg, store, log) BY DEF ProviderInv
<1>10. Sound(n, cfg, store, log) BY <1>3, <1>6, <1>8, <1>9, BeginSound
<1>11. n.phase \in Inside <=> req[r].phase \in Inside BY <1>3, <1>8 DEF Inside
<1> QED BY <1>3, <1>8, <1>10, <1>11, QuietKept

LEMMA PostKept ==
    ASSUME ProviderInv, NEW r \in Requests, Post(r)
    PROVE  ProviderInv'
<1>1. PICK posts, posted : /\ posts = req[r].posts + 1
                           /\ posted = req[r].posted \cup {<<req[r].material.access, req[r].shape>>}
  OBVIOUS
<1>2. PICK n : n = [req[r] EXCEPT !.phase = "wait", !.posts = posts, !.posted = posted] OBVIOUS
<1>3. /\ Set(r, n) /\ cfg' = cfg /\ store' = store /\ log' = log /\ session' = session
      /\ req[r].phase = "post"
  BY <1>1, <1>2 DEF Post
<1>4. Fielded(req[r], RequestFields) /\ store \in Material BY DEF ProviderInv, Typed
<1>5. /\ Fielded(n, RequestFields) /\ n.phase = "wait" /\ n.posts = posts /\ n.posted = posted
      /\ n.seen = req[r].seen /\ n.material = req[r].material /\ n.shape = req[r].shape
      /\ n.healed = req[r].healed
  BY <1>2, <1>4, Zenon DEF Fielded, RequestFields
<1>6. Sound(req[r], cfg, store, log) BY DEF ProviderInv
<1>7. Sound(n, cfg, store, log) BY <1>1, <1>3, <1>4, <1>5, <1>6, PostSound
<1>8. n.phase \in Inside <=> req[r].phase \in Inside BY <1>3, <1>5 DEF Inside
<1> QED BY <1>3, <1>5, <1>7, <1>8, QuietKept

LEMMA UnauthorizedKept ==
    ASSUME ProviderInv, NEW r \in Requests, Unauthorized(r)
    PROVE  ProviderInv'
<1>1. PICK n : n = [req[r] EXCEPT !.phase = "rejecting", !.rejected = TRUE, !.seen = {}] OBVIOUS
<1>2. /\ Set(r, n) /\ cfg' = cfg /\ store' = store /\ log' = log /\ session' = session
      /\ req[r].phase = "wait"
  BY <1>1 DEF Unauthorized
<1>3. Fielded(req[r], RequestFields) BY DEF ProviderInv, Typed
<1>4. /\ Fielded(n, RequestFields) /\ n.phase = "rejecting" /\ n.seen = {} /\ n.material = req[r].material
      /\ Body(n, req[r])
  BY <1>1, <1>3, Zenon DEF Fielded, RequestFields, Body
<1>5. Sound(req[r], cfg, store, log) BY DEF ProviderInv
<1>6. n.seen \subseteq log.known BY <1>4
<1>7. Sound(n, cfg, store, log) BY <1>2, <1>4, <1>5, <1>6, MovesSound DEF After
<1>8. n.phase \in Inside <=> req[r].phase \in Inside BY <1>2, <1>4 DEF Inside
<1> QED BY <1>2, <1>4, <1>7, <1>8, QuietKept

\* One that holds no gate ends.
LEMMA QuitKept ==
    ASSUME ProviderInv, NEW r \in Requests, req[r].phase \notin Inside, NEW phase \in Ended,
           Set(r, Gone(phase)), cfg' = cfg, store' = store, log' = log, session' = session
    PROVE  ProviderInv'
<1>1. PICK n : n = Gone(phase) OBVIOUS
<1>2. Fielded(n, RequestFields) /\ n.phase = phase /\ Sound(n, cfg, store, log) BY <1>1, GoneSound
<1>3. n.phase \notin Inside BY <1>2 DEF Ended, Inside
<1>4. Set(r, n) BY <1>1
<1> QED BY <1>2, <1>3, <1>4, QuietKept

LEMMA BadRequestKept ==
    ASSUME ProviderInv, NEW r \in Requests, BadRequest(r)
    PROVE  ProviderInv'
<1>0. req[r].phase = "wait" BY DEF BadRequest
<1>1. CASE Fail(r) BY <1>1, FailKept
<1>2. CASE ~Fail(r)
  <2>1. PICK complaint, shape : /\ shape = repair(req[r].shape, complaint, req[r].flipped)
                                /\ ~req[r].healed /\ shape # req[r].shape /\ Repaired(r, shape)
    BY <1>2 DEF BadRequest
  <2>2. Fielded(req[r], RequestFields) /\ store \in Material BY DEF ProviderInv, Typed
  <2>3. Sound(req[r], cfg, store, log) BY DEF ProviderInv
  <2>4. Fielded(req[r].shape, ShapeFields) BY <1>0, <2>3 DEF Sound, Posted, Forward, After
  <2>5. /\ Fielded(shape, ShapeFields)
        /\ cfg.protocol # "anthropic" => Rank(req[r].shape.effort) < Rank(shape.effort)
    BY <2>1, <2>4, RepairForward
  <2>6. PICK healed, flipped : Set(r, Again([req[r] EXCEPT !.shape = shape, !.healed = healed, !.flipped = flipped]))
                               /\ healed = (cfg.protocol = "anthropic")
    BY <2>1, Zenon DEF Repaired
  <2>7. cfg' = cfg /\ store' = store /\ log' = log /\ session' = session BY <2>1 DEF Repaired
  <2>8. PICK q : q = [req[r] EXCEPT !.shape = shape, !.healed = healed, !.flipped = flipped] OBVIOUS
  <2>9. /\ Fielded(q, RequestFields) /\ q.posts = req[r].posts /\ q.posted = req[r].posted
        /\ q.shape = shape /\ q.healed = healed
    BY <2>2, <2>8, Zenon DEF Fielded, RequestFields
  <2>10. CASE q.posts = Attempts
    <3>1. Set(r, Gone("failed")) BY <2>6, <2>8, <2>10 DEF Again
    <3>2. req[r].phase \notin Inside BY <1>0 DEF Inside
    <3> QED BY <2>7, <3>1, <3>2, QuitKept DEF Ended
  <2>11. CASE q.posts # Attempts
    <3>1. PICK n : n = [q EXCEPT !.phase = "lock", !.material = None, !.seen = {}] OBVIOUS
    <3>2. Set(r, n) BY <2>6, <2>8, <2>11, <3>1 DEF Again
    <3>3. /\ Fielded(n, RequestFields) /\ n.phase = "lock" /\ n.seen = {} /\ n.posts = q.posts
          /\ n.posted = q.posted /\ n.shape = q.shape /\ n.healed = q.healed
      BY <2>9, <3>1, Zenon DEF Fielded, RequestFields
    <3>4. cfg.protocol = "anthropic" => n.healed = TRUE BY <2>6, <2>9, <3>3
    <3>5. req[r].healed = FALSE BY <2>1
    <3>6. Sound(n, cfg, store, log)
      BY <1>0, <2>1, <2>2, <2>3, <2>5, <2>9, <2>11, <3>3, <3>4, <3>5, RepairedSound
    <3>7. n.phase \in Inside <=> req[r].phase \in Inside BY <1>0, <3>3 DEF Inside
    <3> QED BY <2>7, <3>2, <3>3, <3>6, <3>7, QuietKept
  <2> QED BY <2>10, <2>11
<1> QED BY <1>1, <1>2

LEMMA AcceptedKept ==
    ASSUME ProviderInv, NEW r \in Requests, Accepted(r)
    PROVE  ProviderInv'
<1>1. req[r].phase = "wait" /\ cfg' = cfg /\ store' = store /\ log' = log /\ session' = session
  BY DEF Accepted
<1>2. req[r].phase \notin Inside BY <1>1 DEF Inside
<1>3. CASE ~cfg.stream
  <2>1. Set(r, Gone("done")) BY <1>3 DEF Accepted
  <2> QED BY <1>1, <1>2, <2>1, QuitKept DEF Ended
<1>4. CASE cfg.stream
  <2>1. PICK n : n = [req[r] EXCEPT !.phase = "stream"] OBVIOUS
  <2>2. Set(r, n) BY <1>4, <2>1 DEF Accepted
  <2>3. Fielded(req[r], RequestFields) /\ Sound(req[r], cfg, store, log) BY DEF ProviderInv, Typed
  <2>4. Fielded(n, RequestFields) /\ n.phase = "stream" /\ n.seen = req[r].seen /\ Body(n, req[r])
    BY <2>1, <2>3, Zenon DEF Fielded, RequestFields, Body
  <2>5. Sound(n, cfg, store, log) BY <2>3, <2>4, StreamSound
  <2>6. n.phase \in Inside <=> req[r].phase \in Inside BY <1>1, <2>4 DEF Inside
  <2> QED BY <1>1, <2>2, <2>4, <2>5, <2>6, QuietKept
<1> QED BY <1>3, <1>4

LEMMA ReadKept ==
    ASSUME ProviderInv, NEW r \in Requests, Read(r)
    PROVE  ProviderInv'
<1>1. req[r].phase = "stream" BY DEF Read
<1>2. PICK st : /\ Set(r, IF st = Broken THEN Gone("failed")
                          ELSE [req[r] EXCEPT !.stream = [st EXCEPT !.events = @ + 1]])
                /\ UNCHANGED <<cfg, store, session, overrides, log>>
  BY DEF Read
<1>3. cfg' = cfg /\ store' = store /\ log' = log /\ session' = session BY <1>2
<1>4. req[r].phase \notin Inside BY <1>1 DEF Inside
<1>5. CASE st = Broken
  <2>1. Set(r, Gone("failed")) BY <1>2, <1>5
  <2> QED BY <1>3, <1>4, <2>1, QuitKept DEF Ended
<1>6. CASE st # Broken
  <2>1. PICK new : new = [st EXCEPT !.events = @ + 1] OBVIOUS
  <2>2. PICK n : n = [req[r] EXCEPT !.stream = new] OBVIOUS
  <2>3. Set(r, n) BY <1>2, <1>6, <2>1, <2>2
  <2>4. Fielded(req[r], RequestFields) /\ Sound(req[r], cfg, store, log) BY DEF ProviderInv, Typed
  <2>5. Fielded(n, RequestFields) /\ n.phase = "stream" /\ n.seen = req[r].seen /\ Body(n, req[r])
    BY <1>1, <2>2, <2>4, Zenon DEF Fielded, RequestFields, Body
  <2>6. Sound(n, cfg, store, log) BY <2>4, <2>5, StreamSound
  <2>7. n.phase \in Inside <=> req[r].phase \in Inside BY <1>1, <2>5
  <2> QED BY <1>3, <2>3, <2>5, <2>6, <2>7, QuietKept
<1> QED BY <1>5, <1>6

LEMMA DrainedKept ==
    ASSUME ProviderInv, NEW r \in Requests, Drained(r)
    PROVE  ProviderInv'
<1>1. /\ req[r].phase \notin Inside /\ Set(r, Gone("done"))
      /\ cfg' = cfg /\ store' = store /\ log' = log /\ session' = session
  BY DEF Drained, Inside
<1> QED BY <1>1, QuitKept DEF Ended

-------------------------------------------------------------------------------
(* The host and time.                                                      *)
LEMMA HostKept ==
    ASSUME ProviderInv, cfg' = cfg, req' = req, store' \in Material, Logged(log'),
           Fielded(session', SessionFields), session'.gate = session.gate,
           Stored(cfg, store', log', session'.rejected), Later(store, log, store', log'),
           \A r \in Requests : req[r].phase \in Exchanges => Exchanged(req[r], cfg, store', log')
    PROVE  ProviderInv'
<1>1. Typed' BY DEF ProviderInv, Typed
<1>2. Gated' BY DEF ProviderInv, Gated
<1>3. ASSUME NEW r \in Requests PROVE Sound(req[r], cfg, store', log')
  <2>1. Sound(req[r], cfg, store, log) BY DEF ProviderInv
  <2>2. /\ req[r].seen \subseteq log'.known /\ Handed(req[r], cfg, store', log') /\ Counted(req[r])
        /\ Posted(req[r], cfg, store', log')
    BY <2>1, RestLater
  <2> QED BY <2>2 DEF Sound
<1>4. (\A r \in Requests : Sound(req[r], cfg, store, log))' BY <1>3
<1> QED BY <1>1, <1>2, <1>4 DEF ProviderInv

\* A rotation during an exchange shows in the revision.
LEMMA RotateKept ==
    ASSUME ProviderInv, Rotate
    PROVE  ProviderInv'
<1>1. PICK account \in Accounts :
         store' = [store EXCEPT !.access = log.issued + 1, !.refresh = log.issued + 1, !.age = 0,
                                !.revision = store.revision + 1, !.account = account]
  <2>1. store.account \in Accounts /\ "b" \in Accounts BY DEF ProviderInv, Typed, Material, Accounts
  <2> QED BY <2>1 DEF Rotate
<1>2. PICK new, revision : new = log.issued + 1 /\ revision = store.revision + 1 OBVIOUS
<1>3. store \in Material /\ Logged(log) /\ log.issued \in Nat BY DEF ProviderInv, Typed, Logged
<1>4. store.access \in Nat /\ store.refresh \in Nat /\ store.revision \in Nat BY <1>3 DEF Material
<1>5. new \in Nat /\ revision \in Nat BY <1>2, <1>3, <1>4
<1>6. store' = [store EXCEPT !.access = new, !.refresh = new, !.age = 0, !.revision = revision, !.account = account]
  BY <1>1, <1>2
<1>7. /\ store' \in Material /\ store'.access = new /\ store'.refresh = new
      /\ store'.revision = revision
  <2>1. 0 \in 0..2 OBVIOUS
  <2> QED BY <1>3, <1>5, <1>6, <2>1, Zenon DEF Material
<1>8. PICK held : held = log.held \cup {new} OBVIOUS
<1>9. log' = [log EXCEPT !.issued = new, !.held = held] BY <1>2, <1>8 DEF Rotate
<1>10. /\ Fielded(log', LogFields) /\ log'.issued = new /\ log'.held = held
       /\ log'.known = log.known /\ log'.replaced = log.replaced
  BY <1>3, <1>9, Zenon DEF Fielded, LogFields, Logged
<1>11. Logged(log') BY <1>3, <1>5, <1>8, <1>10 DEF Logged
<1>12. Stored(cfg, store, log, session.rejected) BY DEF ProviderInv
<1>13. \A t \in log.known \cup log.replaced : t \in Nat /\ t <= log.issued
  BY <1>3, <1>12 DEF Stored, Logged
<1>14. new \notin log.known \cup log.replaced BY <1>2, <1>3, <1>13
<1>15. Stored(cfg, store', log', session.rejected)
  <2>1. store'.access <= log'.issued /\ store'.refresh <= log'.issued BY <1>5, <1>7, <1>10
  <2>2. \A t \in log'.known \cup log'.replaced : t <= log'.issued BY <1>2, <1>3, <1>10, <1>13
  <2> QED BY <1>7, <1>8, <1>10, <1>14, <2>1, <2>2 DEF Stored
<1>16. Later(store, log, store', log')
  <2>1. store.access <= new BY <1>2, <1>3, <1>4, <1>12 DEF Stored
  <2> QED BY <1>3, <1>7, <1>8, <1>10, <2>1 DEF Later
<1>17. ASSUME NEW r \in Requests, req[r].phase \in Exchanges
       PROVE  Exchanged(req[r], cfg, store', log')
  <2>1. Exchanged(req[r], cfg, store, log) BY <1>17 DEF ProviderInv, Sound
  <2>2. /\ req[r].original \in Material /\ req[r].original.access \in Nat
        /\ req[r].original.refresh \in Nat /\ req[r].original.revision \in Nat
    BY <2>1 DEF Exchanged, Material
  <2>3. /\ req[r].original.access <= log.issued /\ req[r].original.refresh <= log.issued
        /\ req[r].original.revision <= store.revision
    BY <2>1 DEF Exchanged
  <2>4. /\ req[r].original.access <= log'.issued /\ req[r].original.refresh <= log'.issued
        /\ req[r].original.revision <= store'.revision
        /\ store'.revision # req[r].original.revision
        /\ store'.refresh # req[r].original.refresh
    BY <1>2, <1>3, <1>4, <1>7, <1>10, <2>2, <2>3
  <2>5. req[r].phase = "answer" => req[r].issue \in Nat /\ req[r].issue <= log'.issued
    <3>1. req[r].phase = "answer" => req[r].issue \in Nat /\ req[r].issue <= log.issued
      BY <2>1 DEF Exchanged
    <3> QED BY <1>2, <1>3, <1>10, <3>1
  <2> QED BY <1>10, <2>1, <2>2, <2>4, <2>5 DEF Exchanged
<1>18. /\ cfg' = cfg /\ req' = req /\ Fielded(session', SessionFields) /\ session'.gate = session.gate
       /\ Stored(cfg, store', log', session'.rejected)
  BY <1>15 DEF Rotate, ProviderInv, Typed
<1> QED BY <1>7, <1>11, <1>16, <1>17, <1>18, HostKept

\* Steps of the session that leave its gate and its rejection alone.
LEMMA SessionKept ==
    ASSUME ProviderInv, cfg' = cfg, req' = req, store' = store, log' = log,
           Fielded(session', SessionFields), session'.gate = session.gate,
           session'.rejected = session.rejected
    PROVE  ProviderInv'
<1>1. store \in Material /\ Logged(log) BY DEF ProviderInv, Typed
<1>2. store.access \in Nat BY <1>1 DEF Material
<1>3. Later(store, log, store', log') BY <1>1, <1>2 DEF Later
<1>4. Stored(cfg, store', log', session'.rejected) BY DEF ProviderInv
<1>5. \A r \in Requests : req[r].phase \in Exchanges => Exchanged(req[r], cfg, store', log')
  BY DEF ProviderInv, Sound
<1> QED BY <1>1, <1>3, <1>4, <1>5, HostKept

LEMMA TickKept ==
    ASSUME ProviderInv, Tick
    PROVE  ProviderInv'
<1>1. CASE /\ session.failure # None /\ session' = [session EXCEPT !.failure.cooling = FALSE]
           /\ UNCHANGED <<cfg, store, overrides, req, log>>
  <2>1. Fielded(session, SessionFields) BY DEF ProviderInv, Typed
  <2>2. /\ Fielded(session', SessionFields) /\ session'.gate = session.gate
        /\ session'.rejected = session.rejected
    BY <1>1, <2>1, Zenon DEF Fielded, SessionFields
  <2> QED BY <1>1, <2>2, SessionKept
<1>2. CASE /\ store.age < 2 /\ store' = [store EXCEPT !.age = store.age + 1]
           /\ UNCHANGED <<cfg, session, overrides, req, log>>
  <2>1. store \in Material /\ Logged(log) BY DEF ProviderInv, Typed
  <2>2. PICK age : age = store.age + 1 OBVIOUS
  <2>3. age \in 0..2 BY <1>2, <2>1, <2>2 DEF Material
  <2>4. store' = [store EXCEPT !.age = age] BY <1>2, <2>2
  <2>5. /\ store' \in Material /\ store'.access = store.access /\ store'.refresh = store.refresh
        /\ store'.revision = store.revision
    BY <2>1, <2>3, <2>4, Zenon DEF Material
  <2>6. store.access \in Nat BY <2>1 DEF Material
  <2>7. Later(store, log, store', log') BY <1>2, <2>1, <2>5, <2>6 DEF Later
  <2>8. Stored(cfg, store', log', session'.rejected) BY <1>2, <2>5 DEF ProviderInv, Stored
  <2>9. \A r \in Requests : req[r].phase \in Exchanges => Exchanged(req[r], cfg, store', log')
    BY <1>2, <2>5 DEF ProviderInv, Sound, Exchanged
  <2>10. Fielded(session', SessionFields) /\ Logged(log') BY <1>2, <2>1 DEF ProviderInv, Typed
  <2> QED BY <1>2, <2>5, <2>7, <2>8, <2>9, <2>10, HostKept
<1> QED BY <1>1, <1>2 DEF Tick

LEMMA DisableKept ==
    ASSUME ProviderInv, disable_refresh
    PROVE  ProviderInv'
<1>1. Fielded(session, SessionFields) BY DEF ProviderInv, Typed
<1>2. /\ Fielded(session', SessionFields) /\ session'.gate = session.gate
      /\ session'.rejected = session.rejected
  BY <1>1, Zenon DEF Fielded, SessionFields, disable_refresh
<1> QED BY <1>2, SessionKept DEF disable_refresh

-------------------------------------------------------------------------------
LEMMA ProviderInit ==
    ASSUME Init
    PROVE  ProviderInv
<1>1. cfg \in Configs /\ store \in Material /\ store = cfg.material BY ProviderAssumption DEF Init
<1>2. store.access \in Nat /\ store.refresh \in Nat BY <1>1 DEF Material
<1>3. /\ Fielded(log, LogFields) /\ log.issued = Newest(store) /\ log.held = {store.access}
      /\ log.known = {} /\ log.replaced = {}
  BY <1>1, Zenon DEF Init, Fielded, LogFields
<1>4. Newest(store) \in Nat /\ store.access <= Newest(store) /\ store.refresh <= Newest(store)
  BY <1>2 DEF Newest
<1>5. Logged(log) BY <1>2, <1>3, <1>4 DEF Logged
<1>6. Fielded(session, SessionFields) /\ session.gate = None BY Zenon DEF Init, Fielded, SessionFields
<1>7. PICK n : n = NewRequest OBVIOUS
<1>8. /\ Fielded(n, RequestFields) /\ n.phase = "new" /\ n.posted = {} /\ n.posts = 0 /\ n.seen = {}
      /\ n.healed = FALSE
  BY <1>7, Zenon DEF NewRequest, Fielded, RequestFields
<1>9. Fielded(n, RequestFields) /\ n.phase = "new" /\ Sound(n, cfg, store, log)
  <2>1. n.phase \in Ended BY <1>8 DEF Ended
  <2>2. Sound(n, cfg, store, log) BY ONLY <1>8, <2>1, EndedSound, Zenon
  <2> QED BY <1>8, <2>2
<1>10. Fielded(req, Requests) /\ \A r \in Requests : req[r] = n
  BY <1>7, Zenon DEF Init, Fielded
<1>11. Typed BY <1>1, <1>5, <1>6, <1>9, <1>10 DEF Typed
<1>12. Gated BY <1>6, <1>9, <1>10 DEF Gated, Inside
<1>13. Stored(cfg, store, log, session.rejected) BY <1>3, <1>4 DEF Stored
<1> QED BY <1>9, <1>10, <1>11, <1>12, <1>13 DEF ProviderInv

LEMMA ProviderStep ==
    ASSUME ProviderInv, Next
    PROVE  ProviderInv'
<1>1. ASSUME NEW r \in Requests, Step(r) PROVE ProviderInv'
  <2>1. CASE Refused(r) \/ Disconnected(r) BY <2>1, FailKept DEF Refused, Disconnected
  <2> QED BY <1>1, <2>1, LoadKept, ExchangeKept, ReplaceKept, ReloadKept, RecoverKept, RejectKept, PostKept,
             UnauthorizedKept, BadRequestKept, AcceptedKept, ReadKept, DrainedKept DEF Step
<1>2. ASSUME NEW r \in Requests, Lock(r) \/ RejectLock(r) \/ Begin(r) \/ Interrupted(r) PROVE ProviderInv'
  BY <1>2, LockKept, RejectLockKept, BeginKept, FailKept DEF Interrupted
<1>3. CASE Rotate \/ disable_refresh \/ Tick BY <1>3, RotateKept, DisableKept, TickKept
<1> QED BY <1>1, <1>2, <1>3 DEF Next

\* The inductive invariant: the gate, the store, the exchanges and the posts.
THEOREM ProviderInductive == Spec => []ProviderInv
<1>1. Init => ProviderInv BY ProviderInit
<1>2. ProviderInv /\ [Next]_vars => ProviderInv'
  <2>1. ASSUME ProviderInv, UNCHANGED vars PROVE ProviderInv'
    <3>1. /\ cfg' = cfg /\ req' = req /\ store' = store /\ log' = log /\ session' = session
      BY <2>1 DEF vars
    <3>2. Fielded(session', SessionFields) BY <2>1, <3>1 DEF ProviderInv, Typed
    <3> QED BY <2>1, <3>1, <3>2, SessionKept
  <2> QED BY <2>1, ProviderStep
<1> QED BY <1>1, <1>2, PTL DEF Spec

\* One exchange of the session runs at a time, a refresh token whose answer went to
\* the store is not sent again, and the gate is never left behind: whatever requests,
\* rotations, failures and cancellations overlap (Session::token, reject).
THEOREM ProviderExchangesOnce == Spec => []ExchangesOnce
<1>1. ProviderInv => ExchangesOnce
  <2>1. ASSUME ProviderInv PROVE GateReleased BY <2>1 DEF ProviderInv, Gated, GateReleased, Inside
  <2>2. ASSUME ProviderInv, NEW r \in Requests, req[r].phase \in {"refresh", "answer"}
        PROVE  /\ \A q \in Requests \ {r} : req[q].phase \notin {"refresh", "answer"}
               /\ cfg.mode # "copilot" /\ req[r].phase = "refresh" =>
                     req[r].original.refresh \notin log.replaced
    BY <2>2 DEF ProviderInv, Gated, Inside, Sound, Exchanged, Exchanges
  <2> QED BY <2>1, <2>2 DEF ExchangesOnce
<1> QED BY <1>1, ProviderInductive, PTL

\* What is on the wire was held by the store for the account of the scope and was not
\* known to be rejected; no request is posted twice with one token and one body, nor
\* more than Attempts times (Provider::send_body).
THEOREM ProviderPostsSound == Spec => []PostsSound
<1>1. ProviderInv => PostsSound
  <2>1. ASSUME ProviderInv, NEW r \in Requests
        PROVE  /\ req[r].phase \in {"post", "wait"} =>
                     req[r].material.access \in log.held \ req[r].seen /\ validate(req[r].material)
               /\ Cardinality(req[r].posted) = req[r].posts /\ req[r].posts <= Attempts
    <3>1. Sound(req[r], cfg, store, log) BY <2>1 DEF ProviderInv
    <3> QED BY <3>1 DEF Sound, Handed, Counted, Valid, validate
  <2> QED BY <2>1 DEF PostsSound
<1> QED BY <1>1, ProviderInductive, PTL

-------------------------------------------------------------------------------
(* Streams.  Anthropic and chat streams keep in each part what was told of *)
(* it (Direct): items by index, and past, the parts whose index was taken  *)
(* by another.  Responses streams keep it as fragments (Spelled).          *)
StreamFields ==
    {"items", "archived", "stopped", "started", "ending", "fragments", "told", "events", "complete",
     "response"}

Keys == Calls \cup {Text(1), Text(2)}

Parts == [key : Keys, content : Seq(Nat)]

Direct(items, past, told) ==
    /\ past \subseteq Parts /\ \A i \in DOMAIN items : items[i] \in Parts
    /\ \A i \in DOMAIN items : items[i].content = At(told, items[i].key)
    /\ \A part \in past : part.content = At(told, part.key)
    /\ \A i, j \in DOMAIN items : items[i].key = items[j].key => i = j
    /\ \A i \in DOMAIN items : \A part \in past : part.key # items[i].key
    /\ \A key \in DOMAIN told :
          \/ \E i \in DOMAIN items : items[i].key = key
          \/ \E part \in past : part.key = key

KeyOf(items, i) == IF i \in DOMAIN items THEN items[i].key ELSE Text(i)

Spelled(items, fragments, told) ==
    /\ DOMAIN items \subseteq Indexes /\ DOMAIN fragments \subseteq Indexes
    /\ \A i \in DOMAIN items : items[i].key \in Calls \cup {Text(i)} /\ items[i].content \in Seq(Nat)
    /\ \A i, j \in DOMAIN items : items[i].key = items[j].key => i = j
    /\ \A i \in DOMAIN fragments :
          /\ fragments[i] \in Seq(Nat)
          /\ KeyOf(items, i) \in DOMAIN told /\ told[KeyOf(items, i)] = fragments[i]
    /\ \A key \in DOMAIN told : \E i \in DOMAIN fragments : KeyOf(items, i) = key
    /\ \A i \in DOMAIN items \cap DOMAIN fragments :
          items[i].content # <<>> => items[i].content = fragments[i]

\* The text of a chat has the index 0, calls the others.
ChatKeys(items, past) ==
    /\ \A i \in DOMAIN items : IF i = 0 THEN items[i].key = Text(1) ELSE i \in Indexes /\ items[i].key \in Calls
    /\ \A part \in past : part.key \in Calls

AnthropicKeys(items) == \A i \in DOMAIN items : i \in Indexes /\ items[i].key \in Calls \cup {Text(i)}

Honest(told, response) ==
    /\ \A part \in response : part.key \in DOMAIN told => told[part.key] = part.content
    /\ \A key \in DOMAIN told : \E part \in response : part.key = key

StreamSays(c, st) ==
    /\ c.protocol = "anthropic" =>
          /\ st.archived = <<>> /\ DOMAIN st.fragments = {}
          /\ Direct(st.items, {}, st.told) /\ AnthropicKeys(st.items)
    /\ c.protocol = "chat" =>
          /\ st.archived \in Seq(Parts)
          /\ Direct(st.items, Range(st.archived), st.told) /\ ChatKeys(st.items, Range(st.archived))
    /\ c.protocol \notin {"anthropic", "chat"} => Spelled(st.items, st.fragments, st.told)

StreamOK(c, st) ==
    /\ Fielded(st, StreamFields) /\ st.events \in Nat
    /\ IF st.complete THEN Honest(st.told, st.response) ELSE StreamSays(c, st)

StreamInv == \A r \in Requests : StreamOK(cfg, req[r].stream)

LEMMA Texts == Text(1) = "first" /\ Text(2) = "second"
  BY DEF Text

LEMMA PartFields ==
    ASSUME NEW key, NEW content
    PROVE  /\ Part(key, content).key = key /\ Part(key, content).content = content
           /\ key \in Keys /\ content \in Seq(Nat) => Part(key, content) \in Parts
  BY DEF Part, Parts

LEMMA AppendOne ==
    ASSUME NEW s \in Seq(Nat), NEW n \in Nat
    PROVE  Append(s, n) = s \o <<n>> /\ Append(s, n) \in Seq(Nat) /\ <<>> \o s = s /\ s \o <<n>> \in Seq(Nat)
  OBVIOUS

\* No part has this key yet.
Unused(items, past, key) ==
    /\ \A j \in DOMAIN items : items[j].key # key
    /\ \A part \in past : part.key # key

\* A part begins, in the place of another perhaps, which is past then.
LEMMA DirectPlace ==
    ASSUME NEW items, NEW past, NEW told, NEW i, NEW key \in Keys, NEW next, NEW then,
           Direct(items, past, told), Unused(items, past, key), next = Put(items, i, Part(key, <<>>)),
           \/ i \notin DOMAIN items /\ then = past
           \/ i \in DOMAIN items /\ then = past \cup {items[i]}
    PROVE  Direct(next, then, told)
<1>1. /\ DOMAIN next = DOMAIN items \cup {i} /\ next[i] = Part(key, <<>>)
      /\ \A j \in DOMAIN items : j # i => next[j] = items[j]
  BY DEF Put
<1>2. next[i].key = key /\ next[i].content = <<>> /\ next[i] \in Parts
  <2>1. <<>> \in Seq(Nat) OBVIOUS
  <2>2. Part(key, <<>>) \in Parts BY <2>1, PartFields
  <2>3. Part(key, <<>>).key = key /\ Part(key, <<>>).content = <<>> BY PartFields
  <2> QED BY <1>1, <2>2, <2>3, Zenon
<1>3. key \notin DOMAIN told BY DEF Direct, Unused
<1>4. then \subseteq Parts /\ \A j \in DOMAIN next : next[j] \in Parts BY <1>1, <1>2 DEF Direct
<1>5. \A j \in DOMAIN next : next[j].content = At(told, next[j].key)
  BY <1>1, <1>2, <1>3 DEF Direct, At
<1>6. \A part \in then : part.content = At(told, part.key) BY DEF Direct
<1>7. \A j, k \in DOMAIN next : next[j].key = next[k].key => j = k BY <1>1, <1>2 DEF Direct, Unused
<1>8. \A j \in DOMAIN next : \A part \in then : part.key # next[j].key
  BY <1>1, <1>2 DEF Direct, Unused
<1>9. ASSUME NEW k \in DOMAIN told
      PROVE  \/ \E j \in DOMAIN next : next[j].key = k
             \/ \E part \in then : part.key = k
  <2>1. CASE \E part \in past : part.key = k BY <2>1
  <2>2. CASE \E j \in DOMAIN items : items[j].key = k
    <3>1. PICK j \in DOMAIN items : items[j].key = k BY <2>2
    <3>2. CASE j = i BY <3>1, <3>2
    <3>3. CASE j # i BY <1>1, <3>1, <3>3
    <3> QED BY <3>2, <3>3
  <2> QED BY <2>1, <2>2 DEF Direct
<1> QED BY <1>4, <1>5, <1>6, <1>7, <1>8, <1>9 DEF Direct

\* A part gets more content and it is told.
LEMMA DirectExtend ==
    ASSUME NEW items, NEW past, NEW told, NEW i \in DOMAIN items, NEW n \in Nat, NEW next, NEW says,
           Direct(items, past, told),
           next = Put(items, i, Part(items[i].key, Append(items[i].content, n))),
           says = Put(told, items[i].key, At(told, items[i].key) \o <<n>>)
    PROVE  Direct(next, past, says) /\ DOMAIN next = DOMAIN items
           /\ \A j \in DOMAIN items : next[j].key = items[j].key
<1> DEFINE key == items[i].key
           content == Append(items[i].content, n)
<1>1. items[i] \in Parts BY DEF Direct
<1>2. key \in Keys /\ items[i].content \in Seq(Nat) BY <1>1 DEF Parts
<1>3. content = items[i].content \o <<n>> /\ content \in Seq(Nat) BY <1>2, AppendOne
<1>4. At(told, key) = items[i].content BY DEF Direct
<1>5. says = Put(told, key, content) BY <1>3, <1>4
<1>6. next = Put(items, i, Part(key, content)) OBVIOUS
<1> HIDE DEF content, key
<1>7. /\ DOMAIN next = DOMAIN items /\ next[i] = Part(key, content)
      /\ \A j \in DOMAIN items : j # i => next[j] = items[j]
  BY <1>6 DEF Put
<1>8. next[i].key = key /\ next[i].content = content /\ next[i] \in Parts
  <2>1. Part(key, content) \in Parts BY <1>2, <1>3, PartFields
  <2>2. Part(key, content).key = key /\ Part(key, content).content = content BY PartFields
  <2> QED BY <1>7, <2>1, <2>2, Zenon
<1>9. /\ DOMAIN says = DOMAIN told \cup {key} /\ says[key] = content
      /\ \A k \in DOMAIN told : k # key => says[k] = told[k]
  BY <1>5 DEF Put
<1>10. At(says, key) = content /\ \A k : k # key => At(says, k) = At(told, k) BY <1>9 DEF At
<1>11. \A j \in DOMAIN items : next[j].key = items[j].key BY <1>7, <1>8 DEF key
<1>12. past \subseteq Parts /\ \A j \in DOMAIN next : next[j] \in Parts BY <1>7, <1>8 DEF Direct
<1>13. \A j \in DOMAIN next : next[j].content = At(says, next[j].key)
  <2>1. ASSUME NEW j \in DOMAIN items, j # i PROVE items[j].key # key BY <2>1 DEF Direct, key
  <2> QED BY <1>7, <1>8, <1>10, <2>1 DEF Direct
<1>14. \A part \in past : part.content = At(says, part.key)
  <2>1. \A part \in past : part.key # key BY DEF Direct, key
  <2> QED BY <1>10, <2>1 DEF Direct
<1>15. \A j, k \in DOMAIN next : next[j].key = next[k].key => j = k BY <1>7, <1>11 DEF Direct
<1>16. \A j \in DOMAIN next : \A part \in past : part.key # next[j].key BY <1>7, <1>11 DEF Direct
<1>17. \A k \in DOMAIN says :
          \/ \E j \in DOMAIN next : next[j].key = k
          \/ \E part \in past : part.key = k
  BY <1>7, <1>9, <1>11 DEF Direct, key
<1> QED BY <1>7, <1>11, <1>12, <1>13, <1>14, <1>15, <1>16, <1>17 DEF Direct

LEMMA DirectHonest ==
    ASSUME NEW items, NEW past, NEW told, Direct(items, past, told)
    PROVE  Honest(told, past \cup Range(items))
<1>1. \A part \in Range(items) : \E i \in DOMAIN items : part = items[i] BY DEF Range
<1>2. \A i \in DOMAIN items : items[i] \in Range(items) BY DEF Range
<1>3. \A part \in past \cup Range(items) : part.content = At(told, part.key) BY <1>1 DEF Direct
<1>4. \A part \in past \cup Range(items) : part.key \in DOMAIN told => told[part.key] = part.content
  BY <1>3 DEF At
<1>5. \A key \in DOMAIN told : \E part \in past \cup Range(items) : part.key = key BY <1>2 DEF Direct
<1> QED BY <1>4, <1>5 DEF Honest

-------------------------------------------------------------------------------
\* The keys a server may give an item of a responses stream.
Allowed(items, fragments, i, key) ==
    IF i \in DOMAIN items THEN key = items[i].key
    ELSE \/ key = Text(i)
         \/ i \notin DOMAIN fragments /\ key \in Calls /\ \A j \in DOMAIN items : items[j].key # key

LEMMA SpelledPlace ==
    ASSUME NEW items, NEW fragments, NEW told, NEW i \in Indexes, NEW key, NEW content \in Seq(Nat), NEW next,
           Spelled(items, fragments, told), Allowed(items, fragments, i, key),
           next = Put(items, i, Part(key, content)),
           content # <<>> /\ i \in DOMAIN fragments => content = fragments[i]
    PROVE  Spelled(next, fragments, told)
<1>1. /\ DOMAIN next = DOMAIN items \cup {i} /\ next[i] = Part(key, content)
      /\ \A j \in DOMAIN items : j # i => next[j] = items[j]
  BY DEF Put
<1>2. next[i].key = key /\ next[i].content = content BY <1>1, PartFields
<1>3. Text(1) \notin Calls /\ Text(2) \notin Calls /\ Text(1) # Text(2) BY Texts DEF Calls
<1>4. key \in Calls \cup {Text(i)} BY DEF Allowed, Spelled
<1>5. \A j \in DOMAIN items : j # i => items[j].key # key
  BY <1>3 DEF Allowed, Spelled, Indexes
<1>6. i \in DOMAIN fragments => key = KeyOf(items, i) BY DEF Allowed, KeyOf
<1>7. KeyOf(next, i) = key BY <1>1, <1>2 DEF KeyOf
<1>8. \A j : j # i => KeyOf(next, j) = KeyOf(items, j) BY <1>1 DEF KeyOf
<1>9. \A j \in DOMAIN fragments : KeyOf(next, j) = KeyOf(items, j) BY <1>6, <1>7, <1>8
<1>10. DOMAIN next \subseteq Indexes /\ DOMAIN fragments \subseteq Indexes BY <1>1 DEF Spelled
<1>11. \A j \in DOMAIN next : next[j].key \in Calls \cup {Text(j)} /\ next[j].content \in Seq(Nat)
  BY <1>1, <1>2, <1>4 DEF Spelled
<1>12. \A j, k \in DOMAIN next : next[j].key = next[k].key => j = k
  BY <1>1, <1>2, <1>5 DEF Spelled
<1>13. \A j \in DOMAIN fragments :
          /\ fragments[j] \in Seq(Nat)
          /\ KeyOf(next, j) \in DOMAIN told /\ told[KeyOf(next, j)] = fragments[j]
  BY <1>9 DEF Spelled
<1>14. \A k \in DOMAIN told : \E j \in DOMAIN fragments : KeyOf(next, j) = k BY <1>9 DEF Spelled
<1>15. \A j \in DOMAIN next \cap DOMAIN fragments :
          next[j].content # <<>> => next[j].content = fragments[j]
  BY <1>1, <1>2 DEF Spelled
<1> QED BY <1>10, <1>11, <1>12, <1>13, <1>14, <1>15 DEF Spelled

LEMMA KeysApart ==
    ASSUME NEW items, NEW fragments, NEW told, Spelled(items, fragments, told), NEW i \in Indexes,
           NEW j \in Indexes, KeyOf(items, i) = KeyOf(items, j)
    PROVE  i = j
<1>1. Text(1) \notin Calls /\ Text(2) \notin Calls /\ Text(1) # Text(2) BY Texts DEF Calls
<1> QED BY <1>1 DEF Spelled, KeyOf, Indexes

LEMMA SpelledSpoken ==
    ASSUME NEW items, NEW fragments, NEW told, NEW i \in Indexes, NEW content \in Seq(Nat), NEW next, NEW says,
           Spelled(items, fragments, told),
           next = Put(fragments, i, At(fragments, i) \o content),
           says = Put(told, KeyOf(items, i), At(told, KeyOf(items, i)) \o content),
           i \in DOMAIN items /\ items[i].content # <<>> => items[i].content = At(fragments, i) \o content
    PROVE  Spelled(items, next, says)
<1> DEFINE key == KeyOf(items, i)
           whole == At(fragments, i) \o content
<1>2. \A j \in Indexes : j # i => KeyOf(items, j) # key BY KeysApart
<1>3. At(told, key) = At(fragments, i)
  <2>1. CASE i \in DOMAIN fragments BY <2>1 DEF Spelled, At
  <2>2. CASE i \notin DOMAIN fragments
    <3>1. key \notin DOMAIN told BY <1>2, <2>2 DEF Spelled
    <3> QED BY <2>2, <3>1 DEF At
  <2> QED BY <2>1, <2>2
<1>4. whole \in Seq(Nat)
  <2>1. At(fragments, i) \in Seq(Nat)
    <3>1. <<>> \in Seq(Nat) OBVIOUS
    <3> QED BY <3>1 DEF At, Spelled
  <2>2. \A s \in Seq(Nat) : s \o content \in Seq(Nat) OBVIOUS
  <2> QED BY <2>1, <2>2
<1>5. next = Put(fragments, i, whole) /\ says = Put(told, key, whole) BY <1>3
<1>6. i \in DOMAIN items /\ items[i].content # <<>> => items[i].content = whole OBVIOUS
<1> HIDE DEF whole, key
<1>7. /\ DOMAIN next = DOMAIN fragments \cup {i} /\ next[i] = whole
      /\ \A j \in DOMAIN fragments : j # i => next[j] = fragments[j]
  BY <1>5 DEF Put
<1>8. /\ DOMAIN says = DOMAIN told \cup {key} /\ says[key] = whole
      /\ \A k \in DOMAIN told : k # key => says[k] = told[k]
  BY <1>5 DEF Put
<1>9. DOMAIN next \subseteq Indexes BY <1>7 DEF Spelled
<1>10. \A j \in DOMAIN next :
          /\ next[j] \in Seq(Nat)
          /\ KeyOf(items, j) \in DOMAIN says /\ says[KeyOf(items, j)] = next[j]
  <2>1. ASSUME NEW j \in DOMAIN fragments, j # i
        PROVE  /\ next[j] \in Seq(Nat)
               /\ KeyOf(items, j) \in DOMAIN says /\ says[KeyOf(items, j)] = next[j]
    <3>1. KeyOf(items, j) # key BY <1>2, <2>1 DEF Spelled
    <3> QED BY <1>7, <1>8, <2>1, <3>1 DEF Spelled
  <2>2. KeyOf(items, i) = key BY DEF key
  <2> QED BY <1>4, <1>7, <1>8, <2>1, <2>2
<1>11. \A k \in DOMAIN says : \E j \in DOMAIN next : KeyOf(items, j) = k
  <2>1. KeyOf(items, i) = key BY DEF key
  <2> QED BY <1>7, <1>8, <2>1 DEF Spelled
<1>12. \A j \in DOMAIN items \cap DOMAIN next :
          items[j].content # <<>> => items[j].content = next[j]
  BY <1>6, <1>7 DEF Spelled
<1> QED BY <1>9, <1>10, <1>11, <1>12 DEF Spelled

LEMMA SpelledHonest ==
    ASSUME NEW st, Spelled(st.items, st.fragments, st.told)
    PROVE  Honest(st.told, Assembled(st))
<1> DEFINE P(i) == IF i \in DOMAIN st.items THEN st.items[i] ELSE Part(Text(i), <<>>)
           W(i) == IF P(i).content # <<>> THEN P(i) ELSE Part(P(i).key, At(st.fragments, i))
           All == DOMAIN st.items \cup DOMAIN st.fragments
<1>1. Assembled(st) = {W(i) : i \in All} BY DEF Assembled
<1>2. \A i : P(i).key = KeyOf(st.items, i) /\ (i \notin DOMAIN st.items => P(i).content = <<>>)
  BY PartFields DEF KeyOf
<1>3. \A i \in DOMAIN st.items : P(i).content = st.items[i].content OBVIOUS
<1> HIDE DEF P
<1>4. \A i : W(i).key = KeyOf(st.items, i) BY <1>2, PartFields
<1>5. \A i \in DOMAIN st.fragments : W(i).content = st.fragments[i]
  <2>1. TAKE i \in DOMAIN st.fragments
  <2>2. CASE P(i).content # <<>> BY <1>2, <1>3, <2>2 DEF Spelled
  <2>3. CASE P(i).content = <<>> BY <2>3, PartFields DEF At
  <2> QED BY <2>2, <2>3
<1> HIDE DEF W
<1>6. \A i \in All : W(i).key \in DOMAIN st.told => st.told[W(i).key] = W(i).content
  <2>1. TAKE i \in All
  <2>2. HAVE W(i).key \in DOMAIN st.told
  <2>3. PICK j \in DOMAIN st.fragments : KeyOf(st.items, j) = KeyOf(st.items, i) BY <1>4, <2>2 DEF Spelled
  <2>4. j = i
    <3>1. i \in Indexes /\ j \in Indexes BY DEF Spelled
    <3> QED BY <2>3, <3>1, KeysApart
  <2> QED BY <1>4, <1>5, <2>3, <2>4 DEF Spelled
<1>7. \A key \in DOMAIN st.told : \E i \in All : W(i).key = key BY <1>4 DEF Spelled
<1> QED BY <1>1, <1>6, <1>7 DEF Honest

-------------------------------------------------------------------------------
(* What events make of a stream.                                           *)
Runs(new, st) == Fielded(new, StreamFields) /\ new.events = st.events /\ new.complete = st.complete

LEMMA PlacedFields ==
    ASSUME NEW st, Fielded(st, StreamFields), NEW i, NEW part, NEW new, new = Placed(st, i, part)
    PROVE  /\ Runs(new, st) /\ new.items = Put(st.items, i, part) /\ new.archived = st.archived
           /\ new.fragments = st.fragments /\ new.told = st.told
  BY Zenon DEF Fielded, StreamFields, Runs, Placed

LEMMA TellFields ==
    ASSUME NEW st, Fielded(st, StreamFields), NEW key, NEW content, NEW new, new = Tell(st, key, content)
    PROVE  /\ Runs(new, st) /\ new.told = Put(st.told, key, At(st.told, key) \o content)
           /\ new.items = st.items /\ new.archived = st.archived /\ new.fragments = st.fragments
  BY Zenon DEF Fielded, StreamFields, Runs, Tell

LEMMA FragmentFields ==
    ASSUME NEW st, Fielded(st, StreamFields), NEW x, NEW new, new = [st EXCEPT !.fragments = x]
    PROVE  /\ Runs(new, st) /\ new.fragments = x
           /\ new.items = st.items /\ new.told = st.told /\ new.archived = st.archived
  BY Zenon DEF Fielded, StreamFields, Runs

LEMMA ExtendFields ==
    ASSUME NEW st, Fielded(st, StreamFields), NEW i, NEW n, NEW new, new = Extend(st, i, n)
    PROVE  /\ Runs(new, st) /\ new.archived = st.archived /\ new.fragments = st.fragments
           /\ new.items = Put(st.items, i, Part(st.items[i].key, Append(st.items[i].content, n)))
           /\ new.told = Put(st.told, st.items[i].key, At(st.told, st.items[i].key) \o <<n>>)
<1>1. PICK part, mid : /\ part = Part(st.items[i].key, Append(st.items[i].content, n))
                       /\ mid = Placed(st, i, part)
  OBVIOUS
<1>2. new = Tell(mid, st.items[i].key, <<n>>) BY <1>1 DEF Extend
<1>3. /\ Runs(mid, st) /\ mid.items = Put(st.items, i, part) /\ mid.archived = st.archived
      /\ mid.fragments = st.fragments /\ mid.told = st.told
  BY <1>1, PlacedFields
<1>4. Fielded(mid, StreamFields) BY <1>3 DEF Runs
<1>5. PICK key, one : key = st.items[i].key /\ one = <<n>> OBVIOUS
<1>6. /\ Runs(new, mid) /\ new.told = Put(mid.told, key, At(mid.told, key) \o one)
      /\ new.items = mid.items /\ new.archived = mid.archived /\ new.fragments = mid.fragments
  <2>1. new = Tell(mid, key, one) BY <1>2, <1>5
  <2> QED BY ONLY <1>4, <2>1, TellFields
<1>7. Runs(new, st) BY <1>3, <1>6 DEF Runs
<1> QED BY <1>1, <1>3, <1>5, <1>6, <1>7

LEMMA SpokenFields ==
    ASSUME NEW st, Fielded(st, StreamFields), NEW i, NEW key, NEW content, NEW new,
           new = Spoken(st, i, key, content)
    PROVE  /\ Runs(new, st) /\ new.items = st.items
           /\ new.fragments = Put(st.fragments, i, At(st.fragments, i) \o content)
           /\ new.told = Put(st.told, key, At(st.told, key) \o content)
<1>1. PICK x, mid : x = Put(st.fragments, i, At(st.fragments, i) \o content) /\ mid = [st EXCEPT !.fragments = x]
  OBVIOUS
<1>2. new = Tell(mid, key, content) BY <1>1 DEF Spoken
<1>3. /\ Runs(mid, st) /\ mid.fragments = x
      /\ mid.items = st.items /\ mid.told = st.told /\ mid.archived = st.archived
  BY <1>1, FragmentFields
<1>4. Fielded(mid, StreamFields) BY <1>3 DEF Runs
<1>5. /\ Runs(new, mid) /\ new.told = Put(mid.told, key, At(mid.told, key) \o content)
      /\ new.items = mid.items /\ new.archived = mid.archived /\ new.fragments = mid.fragments
  BY ONLY <1>2, <1>4, TellFields
<1>6. Runs(new, st) BY <1>3, <1>5 DEF Runs
<1> QED BY <1>1, <1>3, <1>5, <1>6

\* An event that changes no content.
LEMMA SaysSame ==
    ASSUME NEW c, NEW st, NEW new, StreamOK(c, st), ~st.complete, Runs(new, st),
           new.items = st.items, new.archived = st.archived, new.fragments = st.fragments, new.told = st.told
    PROVE  StreamOK(c, new)
  BY DEF StreamOK, StreamSays, Runs

LEMMA Finished ==
    ASSUME NEW c, NEW st, NEW response, NEW new, Fielded(st, StreamFields), st.events \in Nat,
           Honest(st.told, response), new = Finishes(st, response)
    PROVE  StreamOK(c, new)
<1>1. /\ Fielded(new, StreamFields) /\ new.events = st.events /\ new.complete
      /\ new.response = response /\ new.told = st.told
  BY Zenon DEF Fielded, StreamFields, Finishes
<1> QED BY <1>1 DEF StreamOK

\* No part of the stream has the key.
LEMMA NamedFresh ==
    ASSUME NEW st, NEW key, key \notin Named(st)
    PROVE  Unused(st.items, Range(st.archived), key)
  BY DEF Named, Unused, Range

LEMMA AnthropicKept ==
    ASSUME NEW st, NEW ev, NEW i \in Indexes, NEW key \in Sayable(st, ev, i), NEW n \in Nat, NEW new,
           StreamOK(cfg, st), ~st.complete, cfg.protocol = "anthropic",
           new = anthropic(st, ev, i, key, n), new # Broken
    PROVE  StreamOK(cfg, new)
<1>1. /\ Fielded(st, StreamFields) /\ st.events \in Nat /\ st.archived = <<>> /\ DOMAIN st.fragments = {}
      /\ Direct(st.items, {}, st.told) /\ AnthropicKeys(st.items)
  BY DEF StreamOK, StreamSays
<1>2. CASE ev = "start"
  <2>1. new = [st EXCEPT !.started = TRUE, !.ending = FALSE] BY <1>2 DEF anthropic
  <2>2. /\ Runs(new, st) /\ new.items = st.items /\ new.archived = st.archived
        /\ new.fragments = st.fragments /\ new.told = st.told
    BY <1>1, <2>1, Zenon DEF Fielded, StreamFields, Runs
  <2> QED BY <2>2, SaysSame
<1>3. CASE ev = "item"
  <2>1. new = Placed(st, i, Part(key, <<>>)) /\ i \notin DOMAIN st.items BY <1>3 DEF anthropic
  <2>2. PICK part : part = Part(key, <<>>) OBVIOUS
  <2>3. /\ Runs(new, st) /\ new.items = Put(st.items, i, part) /\ new.archived = st.archived
        /\ new.fragments = st.fragments /\ new.told = st.told
    BY <1>1, <2>1, <2>2, PlacedFields
  <2>4. key = Text(i) \/ key \in Calls \ Named(st) BY <1>1, <1>3, <2>1 DEF Sayable
  <2>5. Text(1) \notin Calls /\ Text(2) \notin Calls /\ Text(1) # Text(2) BY Texts DEF Calls
  <2>6. Unused(st.items, {}, key)
    <3>1. CASE key = Text(i) BY <1>1, <2>1, <2>5, <3>1 DEF AnthropicKeys, Unused, Indexes
    <3>2. CASE key \in Calls \ Named(st) BY <3>2, NamedFresh DEF Unused
    <3> QED BY <2>4, <3>1, <3>2
  <2>7. key \in Keys BY <2>4 DEF Keys, Indexes
  <2>8. new.items = Put(st.items, i, Part(key, <<>>)) BY <2>2, <2>3
  <2>9. Direct(new.items, {}, st.told) BY <1>1, <2>1, <2>6, <2>7, <2>8, DirectPlace
  <2>10. AnthropicKeys(new.items)
    <3>1. /\ DOMAIN new.items = DOMAIN st.items \cup {i} /\ new.items[i] = part
          /\ \A j \in DOMAIN st.items : j # i => new.items[j] = st.items[j]
      BY <2>3 DEF Put
    <3>2. part.key = key BY <2>2, PartFields
    <3> QED BY <1>1, <2>4, <3>1, <3>2 DEF AnthropicKeys
  <2> QED BY <1>1, <2>3, <2>9, <2>10 DEF StreamOK, StreamSays, Runs
<1>4. CASE ev = "delta"
  <2>1. new = Extend(st, i, n) /\ i \in DOMAIN st.items BY <1>4 DEF anthropic
  <2>2. /\ Runs(new, st) /\ new.archived = st.archived /\ new.fragments = st.fragments
        /\ new.items = Put(st.items, i, Part(st.items[i].key, Append(st.items[i].content, n)))
        /\ new.told = Put(st.told, st.items[i].key, At(st.told, st.items[i].key) \o <<n>>)
    BY <1>1, <2>1, ExtendFields
  <2>3. /\ Direct(new.items, {}, new.told) /\ DOMAIN new.items = DOMAIN st.items
        /\ \A j \in DOMAIN st.items : new.items[j].key = st.items[j].key
    BY <1>1, <2>1, <2>2, DirectExtend
  <2>4. AnthropicKeys(new.items) BY <1>1, <2>3 DEF AnthropicKeys
  <2> QED BY <1>1, <2>2, <2>3, <2>4 DEF StreamOK, StreamSays, Runs
<1>5. CASE ev = "done"
  <2>1. PICK x : new = [st EXCEPT !.stopped = x] BY <1>5 DEF anthropic
  <2>2. /\ Runs(new, st) /\ new.items = st.items /\ new.archived = st.archived
        /\ new.fragments = st.fragments /\ new.told = st.told
    BY <1>1, <2>1, Zenon DEF Fielded, StreamFields, Runs
  <2> QED BY <2>2, SaysSame
<1>6. CASE ev = "ending"
  <2>1. new = [st EXCEPT !.ending = TRUE] BY <1>6 DEF anthropic
  <2>2. /\ Runs(new, st) /\ new.items = st.items /\ new.archived = st.archived
        /\ new.fragments = st.fragments /\ new.told = st.told
    BY <1>1, <2>1, Zenon DEF Fielded, StreamFields, Runs
  <2> QED BY <2>2, SaysSame
<1>7. CASE ev = "end"
  <2>1. new = Finishes(st, Range(st.items)) BY <1>7 DEF anthropic
  <2>2. Honest(st.told, {} \cup Range(st.items)) BY <1>1, DirectHonest
  <2>3. PICK response : response = Range(st.items) OBVIOUS
  <2>4. Honest(st.told, response) BY <2>2, <2>3
  <2> QED BY <1>1, <2>1, <2>3, <2>4, Finished
<1>8. CASE ev \notin {"start", "item", "delta", "done", "ending", "end"} BY <1>8 DEF anthropic
<1> QED BY <1>2, <1>3, <1>4, <1>5, <1>6, <1>7, <1>8

LEMMA RangeAppend ==
    ASSUME NEW s \in Seq(Parts), NEW part \in Parts, NEW new, new = Append(s, part)
    PROVE  new \in Seq(Parts) /\ Range(new) = Range(s) \cup {part}
<1>1. /\ new \in Seq(Parts) /\ DOMAIN new = 1..(Len(s) + 1) /\ DOMAIN s = 1..Len(s) /\ Len(s) \in Nat
      /\ new[Len(s) + 1] = part /\ \A j \in 1..Len(s) : new[j] = s[j]
  OBVIOUS
<1>2. DOMAIN new = DOMAIN s \cup {Len(s) + 1} BY <1>1
<1>3. \A p \in Range(new) : p \in Range(s) \cup {part} BY <1>1, <1>2 DEF Range
<1>4. \A p \in Range(s) \cup {part} : p \in Range(new) BY <1>1, <1>2 DEF Range
<1> QED BY <1>1, <1>3, <1>4

LEMMA ChatKept ==
    ASSUME NEW st, NEW ev, NEW i \in Indexes, NEW key \in Sayable(st, ev, i), NEW n \in Nat, NEW new,
           StreamOK(cfg, st), ~st.complete, cfg.protocol = "chat",
           new = chat(st, ev, i, key, n), new # Broken
    PROVE  StreamOK(cfg, new)
<1>1. /\ Fielded(st, StreamFields) /\ st.events \in Nat /\ st.archived \in Seq(Parts)
      /\ Direct(st.items, Range(st.archived), st.told) /\ ChatKeys(st.items, Range(st.archived))
  BY DEF StreamOK, StreamSays
<1>2. ASSUME NEW s, NEW t, NEW j \in DOMAIN s.items, t = Extend(s, j, n), Runs(s, st), s.archived \in Seq(Parts),
             Direct(s.items, Range(s.archived), s.told), ChatKeys(s.items, Range(s.archived))
      PROVE  StreamOK(cfg, t)
  <2>1. Fielded(s, StreamFields) BY <1>2 DEF Runs
  <2>2. /\ Runs(t, s) /\ t.archived = s.archived /\ t.fragments = s.fragments
        /\ t.items = Put(s.items, j, Part(s.items[j].key, Append(s.items[j].content, n)))
        /\ t.told = Put(s.told, s.items[j].key, At(s.told, s.items[j].key) \o <<n>>)
    BY <1>2, <2>1, ExtendFields
  <2>3. /\ Direct(t.items, Range(s.archived), t.told) /\ DOMAIN t.items = DOMAIN s.items
        /\ \A k \in DOMAIN s.items : t.items[k].key = s.items[k].key
    BY <1>2, <2>2, DirectExtend
  <2>4. ChatKeys(t.items, Range(s.archived)) BY <1>2, <2>3 DEF ChatKeys
  <2> QED BY <1>1, <1>2, <2>2, <2>3, <2>4 DEF StreamOK, StreamSays, Runs
<1>3. Text(1) \notin Calls /\ Text(2) \notin Calls /\ Text(1) # Text(2) BY Texts DEF Calls
<1>4. CASE ev = "item"
  <2>1. new = ChatItem(st, i, key) BY <1>4 DEF chat
  <2>2. CASE i \in DOMAIN st.items /\ st.items[i].key = key
    <3>1. new = st BY <2>1, <2>2 DEF ChatItem
    <3> QED BY <3>1
  <2>3. CASE ~(i \in DOMAIN st.items /\ st.items[i].key = key)
    <3>1. key \in Calls \ Named(st) BY <1>4, <2>3 DEF Sayable
    <3>2. key \in Keys /\ Unused(st.items, Range(st.archived), key) BY <3>1, NamedFresh DEF Keys
    <3>3. PICK part : part = Part(key, <<>>) OBVIOUS
    <3>4. part.key = key BY <3>3, PartFields
    <3>5. ASSUME Runs(new, st), new.told = st.told, new.items = Put(st.items, i, part),
                 new.archived \in Seq(Parts), Direct(new.items, Range(new.archived), st.told),
                 \A p \in Range(new.archived) : p.key \in Calls
          PROVE  StreamOK(cfg, new)
      <4>1. /\ DOMAIN new.items = DOMAIN st.items \cup {i} /\ new.items[i] = part
            /\ \A j \in DOMAIN st.items : j # i => new.items[j] = st.items[j]
        BY <3>5 DEF Put
      <4>2. ChatKeys(new.items, Range(new.archived)) BY <1>1, <3>1, <3>4, <3>5, <4>1 DEF ChatKeys, Indexes
      <4> QED BY <1>1, <3>5, <4>2 DEF StreamOK, StreamSays, Runs
    <3>6. CASE i \notin DOMAIN st.items
      <4>1. new = Placed(st, i, part) BY <2>1, <3>3, <3>6 DEF ChatItem
      <4>2. /\ Runs(new, st) /\ new.items = Put(st.items, i, part) /\ new.archived = st.archived
            /\ new.fragments = st.fragments /\ new.told = st.told
        BY <1>1, <4>1, PlacedFields
      <4>3. Direct(new.items, Range(st.archived), st.told) BY <1>1, <3>2, <3>3, <3>6, <4>2, DirectPlace
      <4> QED BY <1>1, <3>5, <4>2, <4>3 DEF ChatKeys
    <3>7. CASE i \in DOMAIN st.items
      <4>1. PICK past, mid : past = Append(st.archived, st.items[i]) /\ mid = [st EXCEPT !.archived = past]
        OBVIOUS
      <4>2. new = Placed(mid, i, part) BY <2>1, <2>3, <3>3, <3>7, <4>1 DEF ChatItem
      <4>3. /\ Runs(mid, st) /\ mid.archived = past
            /\ mid.items = st.items /\ mid.told = st.told /\ mid.fragments = st.fragments
        BY <1>1, <4>1, Zenon DEF Fielded, StreamFields, Runs
      <4>4. Fielded(mid, StreamFields) BY <4>3 DEF Runs
      <4>5. /\ Runs(new, mid) /\ new.items = Put(mid.items, i, part) /\ new.archived = mid.archived
            /\ new.fragments = mid.fragments /\ new.told = mid.told
        BY <4>2, <4>4, PlacedFields
      <4>6. st.items[i] \in Parts BY <1>1, <3>7 DEF Direct
      <4>7. past \in Seq(Parts) /\ Range(past) = Range(st.archived) \cup {st.items[i]}
        BY <1>1, <4>1, <4>6, RangeAppend
      <4>8. new.items = Put(st.items, i, Part(key, <<>>)) BY <3>3, <4>3, <4>5
      <4>9. Direct(new.items, Range(past), st.told)
        BY <1>1, <3>2, <3>7, <4>7, <4>8, DirectPlace
      <4>10. \A p \in Range(past) : p.key \in Calls
        BY <1>1, <3>7, <4>7 DEF ChatKeys, Indexes
      <4>11. Runs(new, st) BY <4>3, <4>5 DEF Runs
      <4> QED BY <3>5, <4>3, <4>5, <4>7, <4>9, <4>10, <4>11
    <3> QED BY <3>6, <3>7
  <2> QED BY <2>2, <2>3
<1>5. CASE ev = "delta" /\ key \in Calls
  <2>1. new = Extend(st, i, n) /\ i \in DOMAIN st.items BY <1>5 DEF chat
  <2>2. Runs(st, st) BY <1>1 DEF Runs
  <2> QED BY <1>1, <1>2, <2>1, <2>2
<1>6. CASE ev = "delta" /\ key \notin Calls
  <2>1. CASE 0 \in DOMAIN st.items
    <3>1. new = Extend(st, 0, n) BY <1>6, <2>1 DEF chat
    <3>2. Runs(st, st) BY <1>1 DEF Runs
    <3> QED BY <1>1, <1>2, <2>1, <3>1, <3>2
  <2>2. CASE 0 \notin DOMAIN st.items
    <3>1. PICK part, mid : part = Part(Text(1), <<>>) /\ mid = Placed(st, 0, part) OBVIOUS
    <3>2. new = Extend(mid, 0, n) BY <1>6, <2>2, <3>1 DEF chat
    <3>3. /\ Runs(mid, st) /\ mid.items = Put(st.items, 0, part) /\ mid.archived = st.archived
          /\ mid.fragments = st.fragments /\ mid.told = st.told
      BY <1>1, <3>1, PlacedFields
    <3>4. Unused(st.items, Range(st.archived), Text(1)) BY <1>1, <1>3, <2>2 DEF ChatKeys, Unused
    <3>5. PICK name : name = Text(1) OBVIOUS
    <3>6. name \in Keys /\ Unused(st.items, Range(st.archived), name) BY <3>4, <3>5 DEF Keys
    <3>7. mid.items = Put(st.items, 0, Part(name, <<>>)) BY <3>1, <3>3, <3>5
    <3>8. Direct(mid.items, Range(mid.archived), mid.told)
      BY <1>1, <2>2, <3>3, <3>6, <3>7, DirectPlace
    <3>9. /\ DOMAIN mid.items = DOMAIN st.items \cup {0} /\ mid.items[0] = part
          /\ \A j \in DOMAIN st.items : j # 0 => mid.items[j] = st.items[j]
      BY <3>3 DEF Put
    <3>10. part.key = Text(1) BY <3>1, PartFields
    <3>11. ChatKeys(mid.items, Range(mid.archived)) BY <1>1, <3>3, <3>9, <3>10 DEF ChatKeys
    <3> QED BY <1>1, <1>2, <3>2, <3>3, <3>8, <3>9, <3>11
  <2> QED BY <2>1, <2>2
<1>7. CASE ev = "ending"
  <2>1. new = [st EXCEPT !.ending = TRUE] BY <1>7 DEF chat
  <2>2. /\ Runs(new, st) /\ new.items = st.items /\ new.archived = st.archived
        /\ new.fragments = st.fragments /\ new.told = st.told
    BY <1>1, <2>1, Zenon DEF Fielded, StreamFields, Runs
  <2> QED BY <2>2, SaysSame
<1>8. CASE ev = "end"
  <2>1. PICK response : response = Range(st.archived) \cup Range(st.items) OBVIOUS
  <2>2. new = Finishes(st, response) BY <1>8, <2>1 DEF chat
  <2>3. Honest(st.told, response) BY <1>1, <2>1, DirectHonest
  <2> QED BY <1>1, <2>2, <2>3, Finished
<1>9. CASE ev \notin {"item", "delta", "ending", "end"} BY <1>9 DEF chat
<1> QED BY <1>4, <1>5, <1>6, <1>7, <1>8, <1>9

LEMMA ResponsesKept ==
    ASSUME NEW st, NEW ev, NEW i \in Indexes, NEW key \in Sayable(st, ev, i), NEW n \in Nat, NEW new,
           StreamOK(cfg, st), ~st.complete, cfg.protocol \notin {"anthropic", "chat"},
           ev \in {"item", "delta"} => ~Final(st, i),
           new = responses(st, ev, i, key, n), new # Broken
    PROVE  StreamOK(cfg, new)
<1>1. Fielded(st, StreamFields) /\ st.events \in Nat /\ Spelled(st.items, st.fragments, st.told)
  BY DEF StreamOK, StreamSays
<1>2. CASE ev = "start"
  <2>1. new = [st EXCEPT !.started = TRUE] BY <1>2 DEF responses
  <2>2. /\ Runs(new, st) /\ new.items = st.items /\ new.archived = st.archived
        /\ new.fragments = st.fragments /\ new.told = st.told
    BY <1>1, <2>1, Zenon DEF Fielded, StreamFields, Runs
  <2> QED BY <2>2, SaysSame
<1>3. ASSUME ev \notin {"start", "ending", "end", "extra"}
      PROVE  Allowed(st.items, st.fragments, i, key)
  <2>1. CASE i \in DOMAIN st.items BY <1>3, <2>1 DEF Sayable, Allowed
  <2>2. CASE i \notin DOMAIN st.items
    <3>1. IF i \in DOMAIN st.fragments THEN key = Text(i) ELSE key = Text(i) \/ key \in Calls \ Named(st)
      BY <1>3, <2>2 DEF Sayable
    <3>2. key \notin Named(st) => \A j \in DOMAIN st.items : st.items[j].key # key
      BY NamedFresh DEF Unused
    <3> QED BY <2>2, <3>1, <3>2 DEF Allowed
  <2> QED BY <2>1, <2>2
<1>4. Whole(st, i, n) \in Seq(Nat)
  <2>1. <<n>> \in Seq(Nat) OBVIOUS
  <2> QED BY <1>1, <2>1 DEF Whole, Spelled
<1>5. ASSUME NEW content \in Seq(Nat), new = Placed(st, i, Part(key, content)),
             Allowed(st.items, st.fragments, i, key),
             content # <<>> /\ i \in DOMAIN st.fragments => content = st.fragments[i]
      PROVE  StreamOK(cfg, new)
  <2>1. PICK part : part = Part(key, content) OBVIOUS
  <2>2. /\ Runs(new, st) /\ new.items = Put(st.items, i, part) /\ new.archived = st.archived
        /\ new.fragments = st.fragments /\ new.told = st.told
    BY <1>1, <1>5, <2>1, PlacedFields
  <2>3. new.items = Put(st.items, i, Part(key, content)) BY <2>1, <2>2
  <2>4. Spelled(new.items, st.fragments, st.told) BY <1>1, <1>5, <2>3, SpelledPlace
  <2> QED BY <1>1, <2>2, <2>4 DEF StreamOK, StreamSays, Runs
<1>6. CASE ev = "item"
  <2>1. new = Placed(st, i, Part(key, <<>>)) BY <1>6 DEF responses
  <2>2. PICK content : content = <<>> OBVIOUS
  <2>3. content \in Seq(Nat) BY <2>2
  <2> QED BY <1>3, <1>5, <1>6, <2>1, <2>2, <2>3
<1>7. CASE ev = "whole"
  <2>1. new = Placed(st, i, Part(key, Whole(st, i, n))) BY <1>7 DEF responses
  <2>2. i \in DOMAIN st.fragments => Whole(st, i, n) = st.fragments[i] BY DEF Whole
  <2> QED BY <1>3, <1>4, <1>5, <1>7, <2>1, <2>2
<1>8. ASSUME NEW content \in Seq(Nat), new = Spoken(st, i, key, content), ~Unknown(st, key),
             Allowed(st.items, st.fragments, i, key),
             i \in DOMAIN st.items /\ st.items[i].content # <<>> =>
                 st.items[i].content = At(st.fragments, i) \o content
      PROVE  StreamOK(cfg, new)
  <2>1. key = KeyOf(st.items, i) BY <1>8 DEF Unknown, Allowed, KeyOf
  <2>2. /\ Runs(new, st) /\ new.items = st.items
        /\ new.fragments = Put(st.fragments, i, At(st.fragments, i) \o content)
        /\ new.told = Put(st.told, key, At(st.told, key) \o content)
    BY <1>1, <1>8, SpokenFields
  <2>3. Spelled(st.items, new.fragments, new.told) BY <1>1, <1>8, <2>1, <2>2, SpelledSpoken
  <2> QED BY <1>1, <2>2, <2>3 DEF StreamOK, StreamSays, Runs
<1>9. CASE ev = "delta"
  <2>1. new = Spoken(st, i, key, <<n>>) /\ ~Unknown(st, key) BY <1>9 DEF responses
  <2>2. PICK content : content = <<n>> OBVIOUS
  <2>3. content \in Seq(Nat) BY <2>2
  <2>4. i \in DOMAIN st.items => st.items[i].content = <<>> BY <1>9 DEF Final
  <2> QED BY <1>3, <1>8, <1>9, <2>1, <2>2, <2>3, <2>4
<1>10. CASE ev = "done"
  <2>1. CASE i \in DOMAIN st.fragments
    <3>1. new = st BY <1>10, <2>1 DEF responses
    <3> QED BY <3>1
  <2>2. CASE i \notin DOMAIN st.fragments
    <3>1. new = Spoken(st, i, key, Whole(st, i, n)) /\ ~Unknown(st, key) BY <1>10, <2>2 DEF responses
    <3>2. PICK content \in Seq(Nat) : content = Whole(st, i, n) BY <1>4
    <3>3. At(st.fragments, i) = <<>> BY <2>2 DEF At
    <3>4. <<>> \o content = content OBVIOUS
    <3>5. i \in DOMAIN st.items /\ st.items[i].content # <<>> => st.items[i].content = content
      BY <2>2, <3>2 DEF Whole
    <3>6. i \in DOMAIN st.items /\ st.items[i].content # <<>> =>
              st.items[i].content = At(st.fragments, i) \o content
      BY <3>3, <3>4, <3>5
    <3> QED BY <1>3, <1>8, <1>10, <3>1, <3>2, <3>6
  <2> QED BY <2>1, <2>2
<1>11. CASE ev = "end"
  <2>1. PICK response : response = Assembled(st) OBVIOUS
  <2>2. new = Finishes(st, response) BY <1>11, <2>1 DEF responses
  <2>3. Honest(st.told, response) BY <1>1, <2>1, SpelledHonest
  <2> QED BY <1>1, <2>2, <2>3, Finished
<1>12. CASE ev \notin {"start", "item", "whole", "delta", "done", "end"} BY <1>12 DEF responses
<1> QED BY <1>2, <1>6, <1>7, <1>9, <1>10, <1>11, <1>12

LEMMA EventKept ==
    ASSUME NEW st, NEW ev, NEW i \in Indexes, NEW key \in Sayable(st, ev, i), NEW n \in Nat, NEW new,
           StreamOK(cfg, st), cfg \in Configs,
           cfg.protocol = "responses" /\ ev \in {"item", "delta"} => ~Final(st, i),
           new = event(st, ev, i, key, n), new # Broken
    PROVE  StreamOK(cfg, new)
<1>1. cfg.protocol \in {"anthropic", "chat", "responses"} BY ProviderAssumption
<1>2. CASE st.complete
  <2>1. new = st BY <1>2 DEF event
  <2> QED BY <2>1
<1>3. CASE ~st.complete /\ cfg.protocol = "anthropic"
  <2>1. new = anthropic(st, ev, i, key, n) BY <1>3 DEF event
  <2> QED BY <1>3, <2>1, AnthropicKept
<1>4. CASE ~st.complete /\ cfg.protocol = "chat"
  <2>1. new = chat(st, ev, i, key, n) BY <1>4 DEF event
  <2> QED BY <1>4, <2>1, ChatKept
<1>5. CASE ~st.complete /\ cfg.protocol = "responses"
  <2>1. new = responses(st, ev, i, key, n) BY <1>5 DEF event
  <2>2. cfg.protocol \notin {"anthropic", "chat"} BY <1>5
  <2> QED BY <1>5, <2>1, <2>2, ResponsesKept
<1> QED BY <1>1, <1>2, <1>3, <1>4, <1>5

LEMMA CountedEvent ==
    ASSUME NEW c, NEW st, NEW new, StreamOK(c, st), new = [st EXCEPT !.events = @ + 1]
    PROVE  StreamOK(c, new)
<1>1. Fielded(st, StreamFields) /\ st.events \in Nat BY DEF StreamOK
<1>2. PICK events : events = st.events + 1 OBVIOUS
<1>3. new = [st EXCEPT !.events = events] BY <1>2
<1>4. /\ Fielded(new, StreamFields) /\ new.events = events /\ new.complete = st.complete
      /\ new.items = st.items /\ new.archived = st.archived
      /\ new.fragments = st.fragments /\ new.told = st.told /\ new.response = st.response
  BY <1>1, <1>3, Zenon DEF Fielded, StreamFields
<1>5. new.events \in Nat BY <1>1, <1>2, <1>4
<1> QED BY <1>4, <1>5 DEF StreamOK, StreamSays

LEMMA NewStreamOK ==
    ASSUME NEW c
    PROVE  StreamOK(c, NewStream)
<1>1. PICK st : st = NewStream OBVIOUS
<1>2. /\ Fielded(st, StreamFields) /\ st.events = 0 /\ st.complete = FALSE /\ st.items = <<>>
      /\ st.archived = <<>> /\ st.fragments = <<>> /\ st.told = <<>>
  BY <1>1, Zenon DEF NewStream, Fielded, StreamFields
<1>3. DOMAIN <<>> = {} /\ Range(<<>>) = {} /\ <<>> \in Seq(Parts) BY DEF Range
<1>4. Direct(<<>>, {}, <<>>) /\ AnthropicKeys(<<>>) /\ ChatKeys(<<>>, {})
  BY <1>3 DEF Direct, AnthropicKeys, ChatKeys
<1>5. Spelled(<<>>, <<>>, <<>>) BY <1>3 DEF Spelled
<1>6. StreamSays(c, st) BY <1>2, <1>3, <1>4, <1>5 DEF StreamSays
<1>7. StreamOK(c, st) BY <1>2, <1>6 DEF StreamOK
<1> QED BY <1>1, <1>7

\* Only an event changes a stream; a request that ends forgets its own.
LEMMA StreamKept ==
    ASSUME ProviderInv, StreamInv, NEW r \in Requests, NEW n, Set(r, n), cfg' = cfg, StreamOK(cfg, n.stream)
    PROVE  StreamInv'
<1>1. \A q \in Requests : req'[q] = IF q = r THEN n ELSE req[q]
  BY Zenon DEF Set, ProviderInv, Typed, Fielded
<1>2. \A q \in Requests : StreamOK(cfg, req'[q].stream) BY <1>1 DEF StreamInv
<1> QED BY <1>2 DEF StreamInv

LEMMA GoneStream ==
    ASSUME NEW phase
    PROVE  Gone(phase).stream = NewStream
  BY Zenon DEF Gone, NewRequest

LEMMA EndStream ==
    ASSUME ProviderInv, StreamInv, NEW r \in Requests, NEW phase, Set(r, Gone(phase)), cfg' = cfg
    PROVE  StreamInv'
<1>1. PICK n : n = Gone(phase) OBVIOUS
<1>2. StreamOK(cfg, n.stream) BY <1>1, GoneStream, NewStreamOK
<1>3. Set(r, n) BY <1>1
<1> QED BY <1>2, <1>3, StreamKept

LEMMA SameStream ==
    ASSUME ProviderInv, StreamInv, NEW r \in Requests, NEW n, Set(r, n), cfg' = cfg, n.stream = req[r].stream
    PROVE  StreamInv'
<1>1. StreamOK(cfg, n.stream) BY DEF StreamInv
<1> QED BY <1>1, StreamKept

LEMMA AgainStream ==
    ASSUME ProviderInv, StreamInv, NEW r \in Requests, NEW q, Fielded(q, RequestFields),
           Set(r, Again(q)), cfg' = cfg, q.stream = req[r].stream
    PROVE  StreamInv'
<1>1. CASE q.posts = Attempts
  <2>1. Set(r, Gone("failed")) BY <1>1 DEF Again
  <2> QED BY <2>1, EndStream
<1>2. CASE q.posts # Attempts
  <2>1. PICK n : n = [q EXCEPT !.phase = "lock", !.material = None, !.seen = {}] OBVIOUS
  <2>2. Set(r, n) BY <1>2, <2>1 DEF Again
  <2>3. n.stream = q.stream BY <2>1, Zenon DEF Fielded, RequestFields
  <2> QED BY <2>2, <2>3, SameStream
<1> QED BY <1>1, <1>2

LEMMA HandOutStream ==
    ASSUME ProviderInv, StreamInv, NEW r \in Requests, NEW m, NEW failure, HandOut(r, m, failure)
    PROVE  StreamInv'
<1>0. cfg' = cfg BY DEF HandOut
<1>1. CASE ~Usable(m)
  <2>1. Set(r, Gone("failed")) BY <1>1 DEF HandOut
  <2> QED BY <1>0, <2>1, EndStream
<1>2. CASE Usable(m) /\ cfg.direct
  <2>1. Set(r, Gone("done")) BY <1>2 DEF HandOut
  <2> QED BY <1>0, <2>1, EndStream
<1>3. CASE Usable(m) /\ ~cfg.direct
  <2>1. PICK n : n = [req[r] EXCEPT !.phase = "post", !.material = m, !.original = None, !.issue = 0] OBVIOUS
  <2>2. Set(r, n) BY <1>3, <2>1 DEF HandOut
  <2>3. Fielded(req[r], RequestFields) BY DEF ProviderInv, Typed
  <2>4. n.stream = req[r].stream BY <2>1, <2>3, Zenon DEF Fielded, RequestFields
  <2> QED BY <1>0, <2>2, <2>4, SameStream
<1> QED BY <1>1, <1>2, <1>3

LEMMA FailStream ==
    ASSUME ProviderInv, StreamInv, NEW r \in Requests, Fail(r)
    PROVE  StreamInv'
  BY EndStream DEF Fail

LEMMA ExchangingStream ==
    ASSUME ProviderInv, StreamInv, NEW r \in Requests, NEW m, NEW retried, Exchanging(r, m, retried)
    PROVE  StreamInv'
<1>1. PICK n : n = [req[r] EXCEPT !.phase = "refresh", !.original = m, !.retried = retried] OBVIOUS
<1>2. Set(r, n) /\ cfg' = cfg BY <1>1 DEF Exchanging
<1>3. Fielded(req[r], RequestFields) BY DEF ProviderInv, Typed
<1>4. n.stream = req[r].stream BY <1>1, <1>3, Zenon DEF Fielded, RequestFields
<1> QED BY <1>2, <1>4, SameStream

\* The session's part of a request.
LEMMA SessionStream ==
    ASSUME ProviderInv, StreamInv, NEW r \in Requests,
           Load(r) \/ Exchange(r) \/ Replace(r) \/ Reload(r) \/ Recover(r) \/ Reject(r) \/ Lock(r) \/ RejectLock(r)
    PROVE  StreamInv'
<1>0. Fielded(req[r], RequestFields) BY DEF ProviderInv, Typed
<1>1. CASE Load(r) BY <1>1, FailStream, ExchangingStream, HandOutStream DEF Load
<1>2. CASE Exchange(r)
  <2>1. PICK n : n = [req[r] EXCEPT !.phase = "answer", !.issue = log.issued + 1] OBVIOUS
  <2>2. Set(r, n) /\ cfg' = cfg BY <1>2, <2>1 DEF Exchange
  <2>3. n.stream = req[r].stream BY <1>0, <2>1, Zenon DEF Fielded, RequestFields
  <2> QED BY <2>2, <2>3, SameStream
<1>3. CASE Replace(r)
  <2>1. CASE Fail(r) BY <2>1, FailStream
  <2>2. CASE ~Fail(r)
    <3>1. PICK n : n = [req[r] EXCEPT !.phase = "reload"] OBVIOUS
    <3>2. Set(r, n) /\ cfg' = cfg BY <1>3, <2>2, <3>1 DEF Replace
    <3>3. n.stream = req[r].stream BY <1>0, <3>1, Zenon DEF Fielded, RequestFields
    <3> QED BY <3>2, <3>3, SameStream
  <2> QED BY <2>1, <2>2
<1>4. CASE Reload(r) BY <1>4, FailStream, HandOutStream DEF Reload
<1>5. CASE Recover(r)
  <2>1. CASE Set(r, Gone("failed")) /\ cfg' = cfg BY <2>1, EndStream
  <2> QED BY <1>5, <2>1, FailStream, ExchangingStream, HandOutStream DEF Recover
<1>6. CASE Reject(r)
  <2>1. CASE Fail(r) BY <2>1, FailStream
  <2>2. CASE ~Fail(r)
    <3>1. Set(r, Again(req[r])) /\ cfg' = cfg BY <1>6, <2>2, Zenon DEF Reject
    <3>2. PICK q : q = req[r] OBVIOUS
    <3> QED BY <1>0, <3>1, <3>2, AgainStream
  <2> QED BY <2>1, <2>2
<1>7. CASE Lock(r)
  <2>1. PICK n : n = [req[r] EXCEPT !.phase = "load", !.seen = log.known, !.retried = FALSE] OBVIOUS
  <2>2. Set(r, n) /\ cfg' = cfg BY <1>7, <2>1 DEF Lock
  <2>3. n.stream = req[r].stream BY <1>0, <2>1, Zenon DEF Fielded, RequestFields
  <2> QED BY <2>2, <2>3, SameStream
<1>8. CASE RejectLock(r)
  <2>1. PICK n : n = [req[r] EXCEPT !.phase = "rejectload"] OBVIOUS
  <2>2. Set(r, n) /\ cfg' = cfg BY <1>8, <2>1 DEF RejectLock
  <2>3. n.stream = req[r].stream BY <1>0, <2>1, Zenon DEF Fielded, RequestFields
  <2> QED BY <2>2, <2>3, SameStream
<1> QED BY <1>1, <1>2, <1>3, <1>4, <1>5, <1>6, <1>7, <1>8

\* What send_body does.
LEMMA SendStream ==
    ASSUME ProviderInv, StreamInv, NEW r \in Requests,
           Begin(r) \/ Post(r) \/ Unauthorized(r) \/ BadRequest(r) \/ Accepted(r) \/ Drained(r)
    PROVE  StreamInv'
<1>0. Fielded(req[r], RequestFields) BY DEF ProviderInv, Typed
<1>1. CASE Begin(r)
  <2>1. PICK shape : shape = Learned(cfg.shape) OBVIOUS
  <2>2. PICK n : n = [req[r] EXCEPT !.phase = "lock", !.shape = shape] OBVIOUS
  <2>3. Set(r, n) /\ cfg' = cfg BY <1>1, <2>1, <2>2 DEF Begin
  <2>4. n.stream = req[r].stream BY <1>0, <2>2, Zenon DEF Fielded, RequestFields
  <2> QED BY <2>3, <2>4, SameStream
<1>2. CASE Post(r)
  <2>1. PICK posts, posted : /\ posts = req[r].posts + 1
                             /\ posted = req[r].posted \cup {<<req[r].material.access, req[r].shape>>}
    OBVIOUS
  <2>2. PICK n : n = [req[r] EXCEPT !.phase = "wait", !.posts = posts, !.posted = posted] OBVIOUS
  <2>3. Set(r, n) /\ cfg' = cfg BY <1>2, <2>1, <2>2 DEF Post
  <2>4. n.stream = req[r].stream BY <1>0, <2>2, Zenon DEF Fielded, RequestFields
  <2> QED BY <2>3, <2>4, SameStream
<1>3. CASE Unauthorized(r)
  <2>1. PICK n : n = [req[r] EXCEPT !.phase = "rejecting", !.rejected = TRUE, !.seen = {}] OBVIOUS
  <2>2. Set(r, n) /\ cfg' = cfg BY <1>3, <2>1 DEF Unauthorized
  <2>3. n.stream = req[r].stream BY <1>0, <2>1, Zenon DEF Fielded, RequestFields
  <2> QED BY <2>2, <2>3, SameStream
<1>4. CASE BadRequest(r)
  <2>1. CASE Fail(r) BY <2>1, FailStream
  <2>2. CASE ~Fail(r)
    <3>1. PICK shape : Repaired(r, shape) BY <1>4, <2>2 DEF BadRequest
    <3>2. PICK healed, flipped :
             Set(r, Again([req[r] EXCEPT !.shape = shape, !.healed = healed, !.flipped = flipped]))
      BY <3>1, Zenon DEF Repaired
    <3>3. cfg' = cfg BY <3>1 DEF Repaired
    <3>4. PICK q : q = [req[r] EXCEPT !.shape = shape, !.healed = healed, !.flipped = flipped] OBVIOUS
    <3>5. Fielded(q, RequestFields) /\ q.stream = req[r].stream
      BY <1>0, <3>4, Zenon DEF Fielded, RequestFields
    <3>6. Set(r, Again(q)) BY <3>2, <3>4
    <3> QED BY <3>3, <3>5, <3>6, AgainStream
  <2> QED BY <2>1, <2>2
<1>5. CASE Accepted(r)
  <2>1. CASE ~cfg.stream
    <3>1. Set(r, Gone("done")) /\ cfg' = cfg BY <1>5, <2>1 DEF Accepted
    <3> QED BY <3>1, EndStream
  <2>2. CASE cfg.stream
    <3>1. PICK n : n = [req[r] EXCEPT !.phase = "stream"] OBVIOUS
    <3>2. Set(r, n) /\ cfg' = cfg BY <1>5, <2>2, <3>1 DEF Accepted
    <3>3. n.stream = req[r].stream BY <1>0, <3>1, Zenon DEF Fielded, RequestFields
    <3> QED BY <3>2, <3>3, SameStream
  <2> QED BY <2>1, <2>2
<1>6. CASE Drained(r)
  <2>1. Set(r, Gone("done")) /\ cfg' = cfg BY <1>6 DEF Drained
  <2> QED BY <2>1, EndStream
<1> QED BY <1>1, <1>2, <1>3, <1>4, <1>5, <1>6

LEMMA ReadStream ==
    ASSUME ProviderInv, StreamInv, NEW r \in Requests, Read(r)
    PROVE  StreamInv'
<1>0. Fielded(req[r], RequestFields) /\ cfg \in Configs BY DEF ProviderInv, Typed
<1>1. PICK ev, i, key, st :
         /\ i \in Indexes /\ key \in Sayable(req[r].stream, ev, i)
         /\ cfg.protocol = "responses" /\ ev \in {"item", "delta"} => ~Final(req[r].stream, i)
         /\ st = event(req[r].stream, ev, i, key, req[r].stream.events + 1)
         /\ Set(r, IF st = Broken THEN Gone("failed")
                   ELSE [req[r] EXCEPT !.stream = [st EXCEPT !.events = @ + 1]])
         /\ cfg' = cfg
  BY DEF Read
<1>2. CASE st = Broken
  <2>1. Set(r, Gone("failed")) BY <1>1, <1>2
  <2> QED BY <1>1, <2>1, EndStream
<1>3. CASE st # Broken
  <2>1. StreamOK(cfg, req[r].stream) BY DEF StreamInv
  <2>2. PICK n : n = req[r].stream.events + 1 OBVIOUS
  <2>3. n \in Nat BY <2>1, <2>2 DEF StreamOK
  <2>4. PICK old : old = req[r].stream OBVIOUS
  <2>5. /\ i \in Indexes /\ st = event(old, ev, i, key, n) /\ key \in Sayable(old, ev, i) /\ StreamOK(cfg, old)
        /\ cfg.protocol = "responses" /\ ev \in {"item", "delta"} => ~Final(old, i)
    BY <1>1, <2>1, <2>2, <2>4
  <2>6. StreamOK(cfg, st) BY <1>0, <1>3, <2>3, <2>5, EventKept
  <2>7. PICK new : new = [st EXCEPT !.events = @ + 1] OBVIOUS
  <2>8. StreamOK(cfg, new) BY <2>6, <2>7, CountedEvent
  <2>9. PICK q : q = [req[r] EXCEPT !.stream = new] OBVIOUS
  <2>10. Set(r, q) BY <1>1, <1>3, <2>7, <2>9
  <2>11. q.stream = new BY <1>0, <2>9, Zenon DEF Fielded, RequestFields
  <2> QED BY <1>1, <2>8, <2>10, <2>11, StreamKept
<1> QED BY <1>2, <1>3

LEMMA StreamStep ==
    ASSUME ProviderInv, StreamInv, Next
    PROVE  StreamInv'
<1>1. ASSUME NEW r \in Requests, Step(r) PROVE StreamInv'
  <2>1. CASE Refused(r) \/ Disconnected(r) BY <2>1, FailStream DEF Refused, Disconnected
  <2> QED BY <1>1, <2>1, SessionStream, SendStream, ReadStream DEF Step
<1>2. ASSUME NEW r \in Requests, Lock(r) \/ RejectLock(r) \/ Begin(r) \/ Interrupted(r) PROVE StreamInv'
  BY <1>2, SessionStream, SendStream, FailStream DEF Interrupted
<1>3. CASE Rotate \/ disable_refresh \/ Tick
  <2>1. cfg' = cfg /\ req' = req BY <1>3 DEF Rotate, disable_refresh, Tick
  <2> QED BY <2>1 DEF StreamInv
<1> QED BY <1>1, <1>2, <1>3 DEF Next

\* The response that a stream ends with has exactly the fragments that were told as
\* events, in their order and once, however the server interleaves the events of a
\* stream and however long it is (StreamState::event, finish).
THEOREM ProviderStreamHonest == Spec => []StreamHonest
<1>1. Init => StreamInv
  <2>1. ASSUME Init PROVE StreamInv
    <3>1. \A r \in Requests : req[r].stream = NewStream BY <2>1, Zenon DEF Init, NewRequest
    <3> QED BY <3>1, NewStreamOK DEF StreamInv
  <2> QED BY <2>1
<1>2. ProviderInv /\ StreamInv /\ [Next]_vars => StreamInv'
  <2>1. ASSUME StreamInv, UNCHANGED vars PROVE StreamInv' BY <2>1 DEF vars, StreamInv
  <2> QED BY <2>1, StreamStep
<1>3. StreamInv => StreamHonest
  <2>1. ASSUME StreamInv, NEW r \in Requests, req[r].stream.complete
        PROVE  Honest(req[r].stream.told, req[r].stream.response)
    BY <2>1 DEF StreamInv, StreamOK
  <2> QED BY <2>1 DEF StreamHonest, Honest
<1> QED BY <1>1, <1>2, <1>3, ProviderInductive, PTL DEF Spec
=================================================================================
