----------------------- MODULE AccountServicesProofs ------------------------
(***************************************************************************)
(* Proofs about the services of an account in PlatformServices: how one    *)
(* gets in, and what is stored of one.  Each part has its own inductive    *)
(* invariant; since a behaviour is that of one part, the invariant of the  *)
(* whole says of each part that it holds while that part runs.             *)
(***************************************************************************)
EXTENDS AccessControl, JwksKeyStore, SignIn, MemoryStore, SkillLibrary, PresentationSettings,
        AccountDeletion, RateWindows, SequenceTheorems, FunctionTheorems, FiniteSetTheorems, TLAPS

USE AccessAssumption, JwksAssumption

-----------------------------------------------------------------------------
(***************************************************************************)
(* Logins.  A state that the cap has not thrown out has at most one        *)
(* callback or session to its name, and none as long as a callback with it *)
(* would be let through.  A session whose rotated-out token was shown is   *)
(* gone for good.                                                          *)
(***************************************************************************)
Uses(l) == granted[l] + exchanging[l]

Unspent(l) == login[l] = "none" \/ (login[l] = "issued" /\ l \notin ToSet(consumed))

StatesAreSpent ==
  \A l \in Login :
    /\ Uses(l) \in 0..2
    /\ l \notin evicted => /\ Uses(l) <= 1
                           /\ Unspent(l) => Uses(l) = 0

AccessInv ==
  /\ login \in [Login -> {"none", "issued", "expired"}]
  /\ consumed \in Seq(Login) /\ Len(consumed) <= MaxConsumed
  /\ exchanging \in [Login -> 0..2] /\ granted \in [Login -> 0..2]
  /\ rotation \in [Session -> {"none", "live", "gone"}]
  /\ minted \in [Session -> 0..MaxRotation]
  /\ evicted \subseteq Login /\ aged \subseteq Session /\ reused \subseteq Session
  /\ StatesAreSpent
  /\ \A s \in reused : rotation[s] = "gone"

LEMMA AccessStarts == AccessInit => AccessInv
<1>. SUFFICES ASSUME AccessInit PROVE AccessInv
  OBVIOUS
<1>1. consumed \in Seq(Login) /\ Len(consumed) = 0
  BY DEF AccessInit
<1>2. StatesAreSpent
  BY DEF AccessInit, StatesAreSpent, Uses
<1>. QED
  BY <1>1, <1>2 DEF AccessInit, AccessInv

(***************************************************************************)
(* A sequence without its i-th element.                                    *)
(***************************************************************************)
LEMMA RemovedAt ==
  ASSUME NEW S, NEW s \in Seq(S), NEW i \in 1..Len(s)
  PROVE  /\ RemoveAt(s, i) \in Seq(S) /\ Len(RemoveAt(s, i)) = Len(s) - 1
         /\ \A k \in 1..i - 1 : RemoveAt(s, i)[k] = s[k]
         /\ \A k \in i + 1..Len(s) : RemoveAt(s, i)[k - 1] = s[k]
<1>1. PICK a : a = SubSeq(s, 1, i - 1)
  OBVIOUS
<1>2. PICK b : b = SubSeq(s, i + 1, Len(s))
  OBVIOUS
<1>3. a \in Seq(S) /\ Len(a) = i - 1 /\ \A k \in 1..i - 1 : a[k] = s[k]
  <2>1. \A k \in 1..i - 1 : s[k] \in S
    OBVIOUS
  <2>. QED
    BY <1>1, <2>1, SubSeqProperties
<1>4. b \in Seq(S) /\ Len(b) = Len(s) - i /\ \A k \in 1..Len(s) - i : b[k] = s[i + k]
  <2>1. \A k \in i + 1..Len(s) : s[k] \in S
    OBVIOUS
  <2>2. i + 1 \in Int /\ Len(s) \in Int
    OBVIOUS
  <2>3. /\ SubSeq(s, i + 1, Len(s)) \in Seq(S)
        /\ Len(SubSeq(s, i + 1, Len(s))) = IF i + 1 <= Len(s) THEN Len(s) - (i + 1) + 1 ELSE 0
        /\ \A k \in 1..Len(s) - (i + 1) + 1 : SubSeq(s, i + 1, Len(s))[k] = s[(i + 1) + k - 1]
    BY <2>1, <2>2, SubSeqProperties
  <2>. QED
    BY <1>2, <2>2, <2>3
<1>5. RemoveAt(s, i) = a \o b
  BY <1>1, <1>2 DEF RemoveAt
<1>6. /\ a \o b \in Seq(S) /\ Len(a \o b) = Len(s) - 1
      /\ \A k \in 1..Len(s) - 1 : (a \o b)[k] = IF k <= i - 1 THEN a[k] ELSE b[k - (i - 1)]
  <2>1. /\ a \o b \in Seq(S) /\ Len(a \o b) = Len(a) + Len(b)
        /\ \A k \in 1..Len(a) + Len(b) :
             (a \o b)[k] = IF k <= Len(a) THEN a[k] ELSE b[k - Len(a)]
    BY <1>3, <1>4, ConcatProperties
  <2>2. Len(a) = i - 1 /\ Len(a) + Len(b) = Len(s) - 1
    BY <1>3, <1>4
  <2>. QED
    BY <2>1, <2>2
<1>7. \A k \in 1..Len(s) - 1 : (a \o b)[k] = IF k <= i - 1 THEN a[k] ELSE b[k - (i - 1)]
  BY <1>6
<1>8. ASSUME NEW k \in i + 1..Len(s) PROVE (a \o b)[k - 1] = s[k]
  <2>1. k - 1 \in 1..Len(s) - 1 /\ ~(k - 1 <= i - 1) /\ (k - 1) - (i - 1) = k - i
    OBVIOUS
  <2>2. (a \o b)[k - 1] = b[k - i]
    BY <1>7, <2>1
  <2>3. k - i \in 1..Len(s) - i /\ i + (k - i) = k
    OBVIOUS
  <2>4. b[k - i] = s[i + (k - i)]
    BY <1>4, <2>3
  <2>. QED
    BY <2>2, <2>3, <2>4
<1>9. ASSUME NEW k \in 1..i - 1 PROVE (a \o b)[k] = s[k]
  BY <1>3, <1>7
<1>. QED
  BY <1>5, <1>6, <1>8, <1>9

(***************************************************************************)
(* The Map of used states: purging takes nothing but the state out of it,  *)
(* consuming puts the state in.                                            *)
(***************************************************************************)
LEMMA PurgedMap ==
  ASSUME consumed \in Seq(Login), NEW l \in Login
  PROVE  /\ Purged(l) \in Seq(Login) /\ Len(Purged(l)) <= Len(consumed)
         /\ ToSet(consumed) \ {l} \subseteq ToSet(Purged(l))
<1>1. CASE l \notin ToSet(consumed)
  BY <1>1 DEF Purged
<1>2. CASE l \in ToSet(consumed)
  <2>. DEFINE i == CHOOSE j \in DOMAIN consumed : consumed[j] = l
  <2>1. i \in 1..Len(consumed) /\ consumed[i] = l
    BY <1>2 DEF ToSet
  <2>2. Purged(l) = RemoveAt(consumed, i)
    BY <1>2 DEF Purged
  <2>. HIDE DEF i
  <2>3. /\ Purged(l) \in Seq(Login) /\ Len(Purged(l)) = Len(consumed) - 1
        /\ \A k \in 1..i - 1 : Purged(l)[k] = consumed[k]
        /\ \A k \in i + 1..Len(consumed) : Purged(l)[k - 1] = consumed[k]
    <3>1. /\ RemoveAt(consumed, i) \in Seq(Login) /\ Len(RemoveAt(consumed, i)) = Len(consumed) - 1
          /\ \A k \in 1..i - 1 : RemoveAt(consumed, i)[k] = consumed[k]
          /\ \A k \in i + 1..Len(consumed) : RemoveAt(consumed, i)[k - 1] = consumed[k]
      BY <2>1, RemovedAt
    <3>. QED
      BY <2>2, <3>1
  <2>4. ASSUME NEW m \in ToSet(consumed) \ {l}
        PROVE  m \in ToSet(Purged(l))
    <3>1. PICK k \in 1..Len(consumed) : consumed[k] = m
      BY DEF ToSet
    <3>2. k \in 1..i - 1 \/ k \in i + 1..Len(consumed)
      BY <2>1, <3>1
    <3>3. CASE k \in 1..i - 1
      <4>1. Purged(l)[k] = m /\ k \in 1..Len(Purged(l))
        BY <2>1, <2>3, <3>1, <3>3
      <4>. QED
        BY <4>1, <2>3 DEF ToSet
    <3>4. CASE k \in i + 1..Len(consumed)
      <4>1. Purged(l)[k - 1] = m /\ k - 1 \in 1..Len(Purged(l))
        BY <2>1, <2>3, <3>1, <3>4
      <4>. QED
        BY <4>1, <2>3 DEF ToSet
    <3>. QED
      BY <3>2, <3>3, <3>4
  <2>. QED
    BY <2>3, <2>4
<1>. QED
  BY <1>1, <1>2

LEMMA ConsumedMap ==
  ASSUME consumed \in Seq(Login), Len(consumed) <= MaxConsumed, NEW l \in Login
  PROVE  /\ Consume(l) \in Seq(Login) /\ Len(Consume(l)) <= MaxConsumed
         /\ l \in ToSet(Consume(l))
<1>. DEFINE all == Append(consumed, l)
<1>1. all \in Seq(Login) /\ Len(all) = Len(consumed) + 1 /\ all[Len(all)] = l
  OBVIOUS
<1>. HIDE DEF all
<1>2. CASE Len(all) <= MaxConsumed
  <2>1. Consume(l) = all
    BY <1>1, <1>2 DEF Consume, all
  <2>. QED
    BY <1>1, <1>2, <2>1 DEF ToSet
<1>3. CASE Len(all) > MaxConsumed
  <2>1. Consume(l) = Tail(all)
    BY <1>1, <1>3 DEF Consume, all
  <2>2. /\ Tail(all) \in Seq(Login) /\ Len(Tail(all)) = Len(all) - 1
        /\ Len(all) - 1 \in 1..Len(Tail(all)) /\ Tail(all)[Len(all) - 1] = l
    BY <1>1, <1>3
  <2>. QED
    BY <1>1, <1>3, <2>1, <2>2 DEF ToSet
<1>. QED
  BY <1>1, <1>2, <1>3

LEMMA AccessStep ==
  ASSUME AccessInv, AccessNext \/ UNCHANGED accessVars
  PROVE  AccessInv'
<1>. USE DEF AccessInv
<1>1. ASSUME NEW l \in Login, BeginLogin(l) PROVE AccessInv'
  <2>1. Unspent(l) /\ \A m \in Login : Unspent(m)' => Unspent(m)
    BY <1>1 DEF BeginLogin, Unspent
  <2>2. StatesAreSpent'
    BY <1>1, <2>1 DEF BeginLogin, StatesAreSpent, Uses
  <2>. QED
    BY <1>1, <2>2 DEF BeginLogin, tokenVars
<1>2. ASSUME NEW l \in Login, StateExpires(l) PROVE AccessInv'
  <2>1. consumed' \in Seq(Login) /\ Len(consumed') <= MaxConsumed
    BY <1>2, PurgedMap DEF StateExpires
  <2>2. ToSet(consumed) \ {l} \subseteq ToSet(consumed')
    BY <1>2, PurgedMap DEF StateExpires
  <2>3. \A m \in Login : Unspent(m)' => Unspent(m)
    BY <1>2, <2>2 DEF StateExpires, Unspent
  <2>4. StatesAreSpent'
    BY <1>2, <2>3 DEF StateExpires, StatesAreSpent, Uses
  <2>. QED
    BY <1>2, <2>1, <2>4 DEF StateExpires, tokenVars
<1>3. ASSUME NEW l \in Login, CompleteLogin(l) PROVE AccessInv'
  <2>1. consumed' \in Seq(Login) /\ Len(consumed') <= MaxConsumed /\ l \in ToSet(consumed')
    BY <1>3, ConsumedMap DEF CompleteLogin
  <2>2. evicted' = evicted \cup (ToSet(consumed) \ ToSet(consumed'))
    BY <1>3 DEF CompleteLogin
  <2>3. ToSet(consumed) \subseteq Login
    BY DEF ToSet
  <2>4. exchanging' \in [Login -> 0..2]
    BY <1>3 DEF CompleteLogin
  <2>5. StatesAreSpent'
    <3>. SUFFICES ASSUME NEW m \in Login
                  PROVE  /\ Uses(m)' \in 0..2
                         /\ m \notin evicted' => Uses(m)' <= 1 /\ (Unspent(m)' => Uses(m)' = 0)
      BY DEF StatesAreSpent
    <3>1. CASE m = l
      <4>1. Unspent(l) /\ ~Unspent(l)'
        BY <1>3, <2>1 DEF CompleteLogin, Unspent
      <4>2. Uses(l)' = Uses(l) + 1 /\ Uses(l) < 2
        BY <1>3 DEF CompleteLogin, Uses
      <4>3. l \notin evicted => Uses(l) = 0
        BY <4>1 DEF StatesAreSpent
      <4>4. Uses(l) \in 0..2
        BY DEF StatesAreSpent
      <4>. QED
        BY <2>2, <3>1, <4>1, <4>2, <4>3, <4>4
    <3>2. CASE m # l
      <4>1. Uses(m)' = Uses(m)
        BY <1>3, <3>2 DEF CompleteLogin, Uses
      <4>2. m \notin evicted' => m \notin evicted /\ (Unspent(m)' => Unspent(m))
        BY <1>3, <2>2 DEF CompleteLogin, Unspent
      <4>. QED
        BY <4>1, <4>2 DEF StatesAreSpent
    <3>. QED
      BY <3>1, <3>2
  <2>. QED
    BY <1>3, <2>1, <2>2, <2>3, <2>4, <2>5 DEF CompleteLogin, tokenVars
<1>4. ASSUME NEW l \in Login, LoginDenied(l) PROVE AccessInv'
  <2>1. \A m \in Login : Uses(m)' = IF m = l THEN Uses(l) - 1 ELSE Uses(m)
    BY <1>4 DEF LoginDenied, Uses
  <2>2. exchanging[l] \in 1..2 /\ Uses(l) >= 1
    BY <1>4 DEF LoginDenied, Uses
  <2>3. \A m \in Login : Unspent(m)' = Unspent(m)
    BY <1>4 DEF LoginDenied, Unspent
  <2>4. StatesAreSpent'
    BY <1>4, <2>1, <2>2, <2>3 DEF LoginDenied, StatesAreSpent
  <2>. QED
    BY <1>4, <2>2, <2>4 DEF LoginDenied, tokenVars
<1>5. ASSUME NEW l \in Login, NEW s \in Session, LoginSucceeds(l, s) PROVE AccessInv'
  <2>1. exchanging[l] \in 1..2 /\ granted[l] + exchanging[l] \in 0..2
    BY <1>5 DEF LoginSucceeds, StatesAreSpent, Uses
  <2>2. \A m \in Login : Uses(m)' = Uses(m)
    <3>1. /\ exchanging' = [exchanging EXCEPT ![l] = exchanging[l] - 1]
          /\ granted' = [granted EXCEPT ![l] = granted[l] + 1]
      BY <1>5 DEF LoginSucceeds
    <3>2. exchanging'[l] = exchanging[l] - 1 /\ granted'[l] = granted[l] + 1
      BY <3>1
    <3>3. \A m \in Login : m # l => exchanging'[m] = exchanging[m] /\ granted'[m] = granted[m]
      BY <3>1
    <3>4. exchanging[l] \in Int /\ granted[l] \in Int
      BY <2>1
    <3>5. granted'[l] + exchanging'[l] = granted[l] + exchanging[l]
      BY <3>2, <3>4
    <3>. QED
      BY <3>3, <3>5 DEF Uses
  <2>3. \A m \in Login : Unspent(m)' = Unspent(m)
    BY <1>5 DEF LoginSucceeds, Unspent
  <2>4. StatesAreSpent'
    BY <1>5, <2>2, <2>3 DEF LoginSucceeds, StatesAreSpent
  <2>5. granted[l] \in 0..2 /\ exchanging[l] \in 0..2
    OBVIOUS
  <2>6. granted[l] + 1 \in 0..2 /\ exchanging[l] - 1 \in 0..2
    BY <2>1, <2>5
  <2>7. granted' \in [Login -> 0..2]
    BY <1>5, <2>6 DEF LoginSucceeds
  <2>8. exchanging' \in [Login -> 0..2]
    BY <1>5, <2>6 DEF LoginSucceeds
  <2>. QED
    BY <1>5, <2>4, <2>7, <2>8 DEF LoginSucceeds
<1>6. ASSUME UNCHANGED loginVars PROVE StatesAreSpent'
  BY <1>6 DEF loginVars, StatesAreSpent, Uses, Unspent
<1>7. ASSUME NEW s \in Session, RevokeSession(s) PROVE AccessInv'
  BY <1>6, <1>7 DEF RevokeSession, loginVars
<1>8. ASSUME NEW s \in Session, SessionAges(s) PROVE AccessInv'
  BY <1>6, <1>8 DEF SessionAges, loginVars
<1>9. ASSUME NEW s \in Session, NEW n \in 0..MaxRotation, Refuse(s, n) PROVE AccessInv'
  BY <1>6, <1>9 DEF Refuse, AfterReuse, loginVars
<1>10. ASSUME NEW s \in Session, NEW n \in 0..MaxRotation, Rotate(s, n) PROVE AccessInv'
  BY <1>6, <1>10 DEF Rotate, loginVars
<1>10a. CASE AccessRestart
  <2>1. /\ consumed' = <<>> /\ evicted' = {}
        /\ exchanging' = [l \in Login |-> 0] /\ granted' = [l \in Login |-> 0]
        /\ minted' = minted /\ aged' = aged /\ reused' = reused
    BY <1>10a DEF AccessRestart
  <2>2. login' \in [Login -> {"none", "issued", "expired"}]
    BY <1>10a DEF AccessRestart
  <2>3. /\ rotation' \in [Session -> {"none", "live", "gone"}]
        /\ \A s \in reused : rotation'[s] = "gone"
    BY <1>10a DEF AccessRestart
  <2>4. StatesAreSpent'
    BY <2>1 DEF StatesAreSpent, Uses
  <2>5. consumed' \in Seq(Login) /\ Len(consumed') <= MaxConsumed
    BY <2>1
  <2>. QED
    BY <2>1, <2>2, <2>3, <2>4, <2>5
<1>11. CASE UNCHANGED accessVars
  BY <1>6, <1>11 DEF accessVars, tokenVars, loginVars
<1>. QED
  BY <1>1, <1>2, <1>3, <1>4, <1>5, <1>7, <1>8, <1>9, <1>10, <1>10a, <1>11 DEF AccessNext

LEMMA AccessIsSafe == AccessInv => AccessTypeOK /\ StateIsSpentOnce /\ NoWayBack
<1>. SUFFICES ASSUME AccessInv PROVE AccessTypeOK /\ StateIsSpentOnce /\ NoWayBack
  OBVIOUS
<1>. USE DEF AccessInv
<1>1. ToSet(consumed) \subseteq Login
  BY DEF ToSet
<1>2. AccessTypeOK
  BY <1>1 DEF AccessTypeOK
<1>3. StateIsSpentOnce
  BY DEF StateIsSpentOnce, StatesAreSpent, Uses
<1>4. NoWayBack
  BY DEF NoWayBack, Verifies
<1>. QED
  BY <1>2, <1>3, <1>4

-----------------------------------------------------------------------------
(***************************************************************************)
(* Share links.  A link that its owner withdrew is on file as revoked, and *)
(* that record is written over by nothing.                                 *)
(***************************************************************************)
LinkInv == LinkTypeOK /\ \A k \in withdrawn : link[k] = "revoked"

LEMMA LinksStart == AccessInit => LinkInv
BY DEF AccessInit, LinkInv, LinkTypeOK

LEMMA LinksStep ==
  ASSUME LinkInv, LinkNext \/ UNCHANGED linkFileVars
  PROVE  LinkInv'
<1>. USE DEF LinkInv, LinkTypeOK
<1>1. ASSUME NEW k \in ShareLink, Share(k) \/ RevokeLink(k) \/ LinkExpires(k) PROVE LinkInv'
  BY <1>1 DEF Share, RevokeLink, LinkExpires, PutLink, OnFile
<1>2. CASE ProjectGoes
  BY <1>2 DEF ProjectGoes
<1>3. CASE UNCHANGED linkFileVars
  BY <1>3 DEF linkFileVars
<1>. QED
  BY <1>1, <1>2, <1>3 DEF LinkNext

LEMMA LinksAreSafe == LinkInv => WithdrawnLinkDies
BY DEF LinkInv, WithdrawnLinkDies, Opens

-----------------------------------------------------------------------------
(***************************************************************************)
(* Keys of the issuer.  What a fetch has heard was published when it began *)
(* or later, and a fetch is not older than its timeout: a key in the cache *)
(* was published at most the age of the cache and one timeout ago.         *)
(***************************************************************************)
KeysAreHeard ==
  /\ \A k \in published : unheard[k] = 0
  /\ \A f \in Fetch : fetching[f].on => \A k \in fetching[f].keys : unheard[k] <= fetching[f].age
  /\ cacheAge <= MaxCacheAge => \A k \in cache : unheard[k] <= cacheAge + HttpTimeout

JwksInv == JwksTypeOK /\ KeysAreHeard

LEMMA LimitsAreNat == MaxCacheAge \in Nat /\ Limit \in Nat /\ Limit = MaxCacheAge + HttpTimeout
BY DEF MaxCacheAge, Limit

LEMMA KeysStart == JwksInit => JwksInv
<1>. SUFFICES ASSUME JwksInit PROVE JwksInv
  OBVIOUS
<1>1. JwksTypeOK
  BY LimitsAreNat DEF JwksInit, JwksTypeOK, NoFetch
<1>2. KeysAreHeard
  BY LimitsAreNat DEF JwksInit, KeysAreHeard, NoFetch
<1>. QED
  BY <1>1, <1>2 DEF JwksInv

LEMMA KeysStep ==
  ASSUME JwksInv, JwksNext \/ UNCHANGED jwksVars
  PROVE  JwksInv'
<1>. USE LimitsAreNat DEF JwksInv, JwksTypeOK
<1>1. ASSUME NEW f \in Fetch, NEW k \in Key, StartFetch(f, k) PROVE JwksInv'
  BY <1>1 DEF StartFetch, KeysAreHeard
<1>2. ASSUME NEW f \in Fetch, FetchSucceeds(f) PROVE JwksInv'
  <2>1. JwksTypeOK'
    BY <1>2 DEF FetchSucceeds, NoFetch
  <2>2. \A k \in fetching[f].keys \cup published : unheard[k] <= HttpTimeout
    BY <1>2 DEF FetchSucceeds, KeysAreHeard
  <2>3. KeysAreHeard'
    BY <1>2, <2>2 DEF FetchSucceeds, NoFetch, KeysAreHeard
  <2>. QED
    BY <2>1, <2>3
<1>3. ASSUME NEW f \in Fetch, FetchFails(f) PROVE JwksInv'
  BY <1>3 DEF FetchFails, NoFetch, KeysAreHeard
<1>4. ASSUME NEW keys \in SUBSET Key, Publishes(keys) PROVE JwksInv'
  <2>1. JwksTypeOK'
    BY <1>4 DEF Publishes
  <2>2. \A k \in Key : unheard'[k] <= unheard[k] /\ unheard'[k] \in Nat
    BY <1>4 DEF Publishes
  <2>3. KeysAreHeard'
    BY <1>4, <2>2 DEF Publishes, KeysAreHeard
  <2>. QED
    BY <2>1, <2>3
<1>5. CASE Tick
  <2>1. \A k \in Key : unheard'[k] \in 0..Limit + 1 /\ unheard'[k] <= unheard[k] + 1
    BY <1>5 DEF Tick, Older
  <2>2. \A f \in Fetch : fetching'[f] = IF fetching[f].on
                                        THEN [fetching[f] EXCEPT !.age = @ + 1] ELSE NoFetch
    BY <1>5 DEF Tick
  <2>3. fetching' \in [Fetch -> [on : BOOLEAN, keys : SUBSET Key, age : 0..HttpTimeout]]
    BY <1>5 DEF Tick, NoFetch
  <2>4. cacheAge' \in 0..MaxCacheAge + 1 /\ (cacheAge' <= MaxCacheAge => cacheAge' = cacheAge + 1)
    BY <1>5 DEF Tick, Older
  <2>5. JwksTypeOK'
    BY <1>5, <2>1, <2>3, <2>4 DEF Tick, Older
  <2>6. \A k \in published' : unheard'[k] = 0
    BY <1>5 DEF Tick
  <2>7. ASSUME NEW f \in Fetch, fetching'[f].on, NEW k \in fetching'[f].keys
        PROVE  unheard'[k] <= fetching'[f].age
    <3>1. fetching[f].on /\ fetching'[f] = [fetching[f] EXCEPT !.age = @ + 1]
      BY <2>2, <2>7 DEF NoFetch
    <3>2. fetching'[f].age = fetching[f].age + 1 /\ k \in fetching[f].keys
      BY <2>7, <3>1
    <3>. QED
      BY <2>1, <3>1, <3>2 DEF KeysAreHeard
  <2>8. cacheAge' <= MaxCacheAge => \A k \in cache' : unheard'[k] <= cacheAge' + HttpTimeout
    BY <1>5, <2>1, <2>4 DEF Tick, KeysAreHeard
  <2>. QED
    BY <2>5, <2>6, <2>7, <2>8 DEF KeysAreHeard
<1>6. CASE UNCHANGED jwksVars
  BY <1>6 DEF jwksVars, KeysAreHeard
<1>. QED
  BY <1>1, <1>2, <1>3, <1>4, <1>5, <1>6 DEF JwksNext

LEMMA KeysAreSafe == JwksInv => WithdrawnKeyDies
BY LimitsAreNat DEF JwksInv, JwksTypeOK, KeysAreHeard, WithdrawnKeyDies, StaleKeys

-----------------------------------------------------------------------------
(***************************************************************************)
(* The login of a tab: what is promised of it is inductive.                *)
(***************************************************************************)
SignInInv == SignInTypeOK /\ SignInIsMirrored

LEMMA SignInStarts == SignInInit => SignInInv
BY DEF SignInInit, SignInInv, SignInTypeOK, SignInIsMirrored

LEMMA SignInStep ==
  ASSUME SignInInv, SignInNext \/ UNCHANGED signInVars
  PROVE  SignInInv'
<1>. USE DEF SignInInv, SignInTypeOK, SignInIsMirrored
<1>1. CASE CallbackUnusable
  BY <1>1 DEF CallbackUnusable
<1>2. CASE CallbackFailed
  BY <1>2 DEF CallbackFailed, ClearToken, RemoveFromStorage
<1>3. CASE ExpiryFires
  BY <1>3 DEF ExpiryFires, IsValid, ClearAndReturnToLogin, ClearToken, RemoveFromStorage
<1>4. CASE CheckExpiry
  BY <1>4 DEF CheckExpiry, ClearAndReturnToLogin, ClearToken, RemoveFromStorage
<1>5. CASE Logout
  BY <1>5 DEF Logout, ClearAndReturnToLogin, ClearToken, RemoveFromStorage
<1>6. CASE Load
  BY <1>6 DEF Load, IsValid, ClearToken, RemoveFromStorage
<1>7. ASSUME NEW a \in Asking, Request(a) \/ AnswerOther(a) PROVE SignInInv'
  BY <1>7 DEF Request, AnswerOther, pageVars
<1>8. ASSUME NEW a \in Asking, AnswerDenied(a) PROVE SignInInv'
  BY <1>8 DEF AnswerDenied, ClearAndReturnToLogin, ClearToken, RemoveFromStorage
<1>9. ASSUME NEW t \in Bearer, CallbackSigned(t) PROVE SignInInv'
  BY <1>9 DEF CallbackSigned, IsValid, PersistToStorage, ArmExpiry
<1>10. ASSUME NEW t \in Bearer, Passes(t) \/ Revoke(t) PROVE SignInInv'
  BY <1>10 DEF Passes, Revoke, pageVars
<1>11. CASE UNCHANGED signInVars
  BY <1>11 DEF signInVars
<1>. QED
  BY <1>1, <1>2, <1>3, <1>4, <1>5, <1>6, <1>7, <1>8, <1>9, <1>10, <1>11 DEF SignInNext

-----------------------------------------------------------------------------
(***************************************************************************)
(* Skills.  A directory holds a skill whose name makes that directory, so  *)
(* that no name is found twice.                                            *)
(***************************************************************************)
DirsFit == \A d \in SkillDirs : skillDir[d] # NoSkill => d = DirOf(skillDir[d].name)

SkillInv == SkillTypeOK /\ DirsFit /\ SkillsAreKept

LEMMA NoSkillIsNone == NoSkill \notin [name : SkillName, body : SkillBody]
BY DEF NoSkill, SkillName, Namespaces

LEMMA DirsAreDirs == \A n \in SkillName : DirOf(n) \in SkillDirs
BY SkillAssumption DEF DirOf, SkillDirs, SkillName

LEMMA FoundInItsDir ==
  ASSUME SkillInv, NEW s \in [name : SkillName, body : SkillBody]
  PROVE  s \in UserSkills <=> skillDir[DirOf(s.name)] = s
<1>1. ASSUME s \in UserSkills PROVE skillDir[DirOf(s.name)] = s
  BY <1>1 DEF UserSkills, SkillInv, DirsFit
<1>2. ASSUME skillDir[DirOf(s.name)] = s PROVE s \in UserSkills
  BY <1>2, NoSkillIsNone, DirsAreDirs DEF UserSkills
<1>. QED
  BY <1>1, <1>2

LEMMA SkillsStart == SkillInit => SkillInv
<1>. SUFFICES ASSUME SkillInit PROVE SkillInv
  OBVIOUS
<1>1. UserSkills = {}
  BY DEF SkillInit, UserSkills
<1>. QED
  BY <1>1 DEF SkillInit, SkillInv, SkillTypeOK, DirsFit, SkillsAreKept

(***************************************************************************)
(* Writing a skill keeps the others, except in its own directory, where    *)
(* the other name is noted as overwritten.                                 *)
(***************************************************************************)
LEMMA SkillWritten ==
  ASSUME SkillInv, NEW s \in [name : SkillName, body : SkillBody], NEW replaces,
         WriteUserSkill(s, replaces),
         s.name[1] = "base" => s.name[2] \notin Reserved,
         \A t \in stored : t.name = s.name => t.name \in replaces
  PROVE  SkillInv'
<1>. USE DEF SkillInv, SkillTypeOK
<1>1. PICK d \in SkillDirs : d = DirOf(s.name)
  BY DirsAreDirs
<1>2. /\ skillDir' = [skillDir EXCEPT ![d] = s]
      /\ stored' = {t \in stored : t.name # s.name \/ t.name \notin replaces} \cup {s}
      /\ overwritten' = IF skillDir[d].name \in SkillName \ {s.name}
                        THEN (overwritten \ {s.name}) \cup {skillDir[d].name}
                        ELSE overwritten \ {s.name}
  BY <1>1 DEF WriteUserSkill
<1>3. SkillTypeOK'
  BY <1>1, <1>2
<1>4. DirsFit'
  BY <1>1, <1>2 DEF DirsFit
<1>5. \A t : t \in UserSkills' <=> \E e \in SkillDirs : skillDir'[e] = t /\ t # NoSkill
  BY DEF UserSkills
<1>8. ASSUME NEW n \in overwritten' PROVE \E m \in SkillName \ {n} : DirOf(m) = DirOf(n)
  <2>1. CASE n \in overwritten
    BY <2>1 DEF SkillsAreKept
  <2>2. CASE n \notin overwritten
    <3>1. n = skillDir[d].name /\ n \in SkillName \ {s.name}
      BY <1>2, <1>8, <2>2
    <3>2. skillDir[d] # NoSkill
      BY <3>1 DEF NoSkill, SkillName, Namespaces
    <3>3. DirOf(n) = DirOf(s.name)
      BY <1>1, <3>1, <3>2 DEF DirsFit
    <3>. QED
      BY <3>1, <3>3
  <2>. QED
    BY <2>1, <2>2
<1>6. ASSUME NEW t \in stored' PROVE t \in UserSkills' \/ t.name \in overwritten'
  <2>1. CASE t = s
    BY <1>1, <1>2, <1>5, <2>1, NoSkillIsNone
  <2>2. CASE t # s
    <3>1. t \in stored /\ t.name # s.name
      BY <1>2, <2>2
    <3>2. CASE t.name \in overwritten
      BY <1>2, <3>1, <3>2
    <3>3. CASE t \in UserSkills
      <4>1. skillDir[DirOf(t.name)] = t /\ t # NoSkill /\ t.name \in SkillName
        BY <3>1, <3>3, FoundInItsDir, NoSkillIsNone
      <4>2. CASE DirOf(t.name) = d
        BY <1>2, <3>1, <4>1, <4>2
      <4>3. CASE DirOf(t.name) # d
        BY <1>2, <1>5, <4>1, <4>3, DirsAreDirs
      <4>. QED
        BY <4>2, <4>3
    <3>. QED
      BY <3>1, <3>2, <3>3 DEF SkillsAreKept
  <2>. QED
    BY <2>1, <2>2
<1>7. ASSUME NEW t \in UserSkills', t.name[1] = "base" PROVE t.name[2] \notin Reserved
  <2>1. t = s \/ t \in UserSkills
    BY <1>2, <1>5 DEF UserSkills
  <2>. QED
    BY <1>7, <2>1 DEF SkillsAreKept
<1>. QED
  BY <1>3, <1>4, <1>6, <1>7, <1>8 DEF SkillsAreKept

LEMMA SkillsStep ==
  ASSUME SkillInv, SkillNext \/ UNCHANGED skillVars
  PROVE  SkillInv'
<1>. USE DEF SkillInv, SkillTypeOK
<1>1. ASSUME NEW b \in Base, NEW body \in SkillBody, AddSkill(b, body) PROVE SkillInv'
  <2>1. PICK n \in Resolved(b) : WriteUserSkill([name |-> n, body |-> body], overwritten)
    BY <1>1 DEF AddSkill
  <2>2. n \in SkillName /\ n \notin Taken /\ (n[1] = "base" => n[2] \notin Reserved)
    BY DEF Resolved, SkillName, Namespaces
  <2>3. PICK s \in [name : SkillName, body : SkillBody] : s = [name |-> n, body |-> body]
    BY <2>2
  <2>4. ASSUME NEW t \in stored, t.name = s.name PROVE t.name \in overwritten
    BY <2>2, <2>3, <2>4 DEF SkillsAreKept, Taken
  <2>. QED
    BY <2>1, <2>2, <2>3, <2>4, SkillWritten
<1>2. ASSUME NEW n \in SkillName, NEW body \in SkillBody, EditUserSkill(n, body) PROVE SkillInv'
  <2>1. PICK s \in [name : SkillName, body : SkillBody] : s = [name |-> n, body |-> body]
    OBVIOUS
  <2>2. WriteUserSkill(s, {n}) /\ (s.name[1] = "base" => s.name[2] \notin Reserved)
    BY <1>2, <2>1 DEF EditUserSkill
  <2>3. \A t \in stored : t.name = s.name => t.name \in {n}
    BY <2>1
  <2>. QED
    BY <2>2, <2>3, SkillWritten
<1>3. ASSUME NEW n \in SkillName, DeleteUserSkill(n) PROVE SkillInv'
  <2>1. /\ skillDir' = [d \in SkillDirs |-> IF skillDir[d].name = n THEN NoSkill ELSE skillDir[d]]
        /\ stored' = {t \in stored : t.name # n} /\ overwritten' = overwritten \ {n}
    BY <1>3 DEF DeleteUserSkill
  <2>2. SkillTypeOK' /\ DirsFit'
    BY <2>1 DEF DirsFit
  <2>3. ASSUME NEW t \in stored' PROVE t \in UserSkills' \/ t.name \in overwritten'
    BY <2>1 DEF SkillsAreKept, UserSkills
  <2>4. ASSUME NEW t \in UserSkills' PROVE t \in UserSkills
    BY <2>1 DEF UserSkills
  <2>5. overwritten' \subseteq overwritten
    BY <2>1
  <2>6. \A m \in overwritten' : \E l \in SkillName \ {m} : DirOf(l) = DirOf(m)
    BY <2>5 DEF SkillsAreKept
  <2>. QED
    BY <2>2, <2>3, <2>4, <2>6 DEF SkillsAreKept
<1>4. CASE DeleteSkillData
  <2>1. PICK left \in SUBSET SkillDirs :
          skillDir' = [d \in SkillDirs |-> IF d \in left THEN skillDir[d] ELSE NoSkill]
    BY <1>4 DEF DeleteSkillData
  <2>2. stored' = {} /\ overwritten' = {}
    BY <1>4 DEF DeleteSkillData
  <2>3. SkillTypeOK' /\ DirsFit'
    BY <2>1, <2>2 DEF DirsFit
  <2>4. ASSUME NEW t \in UserSkills' PROVE t \in UserSkills
    BY <2>1 DEF UserSkills
  <2>5. \A t \in UserSkills' : t.name[1] = "base" => t.name[2] \notin Reserved
    BY <2>4 DEF SkillsAreKept
  <2>6. SkillsAreKept'
    BY <2>2, <2>5 DEF SkillsAreKept
  <2>. QED
    BY <2>3, <2>6
<1>5. CASE UNCHANGED skillVars
  BY <1>5 DEF skillVars, DirsFit, SkillsAreKept, UserSkills
<1>. QED
  BY <1>1, <1>2, <1>3, <1>4, <1>5 DEF SkillNext

-----------------------------------------------------------------------------
(***************************************************************************)
(* The deletion of an account.  What is registered while it runs is still  *)
(* to be deleted or new.                                                   *)
(***************************************************************************)
DeletionGoesOn ==
  /\ deletion = "sandbox" => /\ toDelete # <<>>
                             /\ onRecord \subseteq ToSet(toDelete) \cup newcomers
  /\ deletion \in {"stores", "confirmed"} => onRecord \subseteq newcomers
  /\ deletion = "confirmed" => /\ belongings \subseteq failing \cup (AccountStore \ wired)
                               /\ strict => wired = AccountStore

DeletionInv ==
  /\ onRecord \subseteq Owned /\ running \subseteq Owned /\ newcomers \subseteq Owned
  /\ holdings \in [Owned -> SUBSET ProjectStore] /\ belongings \subseteq AccountStore
  /\ toDelete \in Seq(Owned) /\ deletion \in {"rest", "sandbox", "stores", "confirmed", "thrown"}
  /\ wired \subseteq AccountStore /\ failing \subseteq AccountStore /\ strict \in BOOLEAN
  /\ IsFiniteSet(onRecord)
  /\ \A p \in Owned : holdings[p] # {} \/ p \in running => p \in onRecord
  /\ DeletionGoesOn

(***************************************************************************)
(* As many different elements as a set has are all of it.                  *)
(***************************************************************************)
LEMMA AllAreListed ==
  ASSUME NEW S, IsFiniteSet(S), NEW f \in [1..Cardinality(S) -> S],
         \A i, j \in 1..Cardinality(S) : i # j => f[i] # f[j]
  PROVE  \A x \in S : \E i \in 1..Cardinality(S) : f[i] = x
<1>. DEFINE n == Cardinality(S)
<1>1. n \in Nat
  BY FS_CardinalityType
<1>. HIDE DEF n
<1>2. n - 1 + 1 = n /\ 1 \in Int /\ n \in Int
  BY <1>1
<1>3. IsFiniteSet(1..n) /\ Cardinality(1..n) = IF 1 > n THEN 0 ELSE n - 1 + 1
  BY ONLY <1>2, FS_Interval
<1>4. Cardinality(1..n) = Cardinality(S)
  BY <1>1, <1>3 DEF n
<1>5. f \in Injection(1..n, S)
  BY Fun_IsInj DEF n
<1>6. f \in Surjection(1..n, S)
  BY <1>4, <1>5, FS_Injection
<1>. QED
  BY <1>6 DEF Surjection, n

LEMMA DeletionStarts == DeletionInit => DeletionInv
<1>. SUFFICES ASSUME DeletionInit PROVE DeletionInv
  OBVIOUS
<1>1. PICK d \in Deployments : wired = d.wired /\ strict = d.strict
  BY DEF DeletionInit
<1>2. wired \subseteq AccountStore /\ strict \in BOOLEAN
  BY <1>1, DeletionAssumption DEF AccountStore
<1>. QED
  BY <1>2, FS_EmptySet DEF DeletionInit, DeletionInv, DeletionGoesOn

LEMMA DeletionStep ==
  ASSUME DeletionInv, DeletionNext \/ UNCHANGED accountDeletionVars
  PROVE  DeletionInv'
<1>. USE DEF DeletionInv
<1>1. CASE DeleteAccount
  <2>1. /\ toDelete' \in SetToSeqs(onRecord) /\ newcomers' = {} /\ failing' = {}
        /\ deletion' = IF onRecord = {} THEN "stores" ELSE "sandbox"
        /\ UNCHANGED <<onRecord, holdings, running, belongings, wired, strict>>
    BY <1>1 DEF DeleteAccount, deploymentVars
  <2>2. PICK n : n = Cardinality(onRecord)
    OBVIOUS
  <2>3. /\ toDelete' \in [1..n -> onRecord] /\ n \in Nat
        /\ \A i, j \in 1..n : i # j => toDelete'[i] # toDelete'[j]
    BY <2>1, <2>2, FS_CardinalityType DEF SetToSeqs
  <2>4. toDelete' \in Seq(Owned) /\ Len(toDelete') = n
    BY <2>3
  <2>5. onRecord \subseteq ToSet(toDelete')
    <3>1. \A p \in onRecord : \E i \in 1..n : toDelete'[i] = p
      BY <2>2, <2>3, AllAreListed
    <3>2. DOMAIN toDelete' = 1..n
      BY <2>3
    <3>. QED
      BY <3>1, <3>2 DEF ToSet
  <2>6. onRecord # {} => toDelete' # <<>>
    BY <2>5 DEF ToSet
  <2>. QED
    BY <2>1, <2>4, <2>5, <2>6 DEF DeletionGoesOn
<1>2. ASSUME NEW p \in Owned, RegisterOwned(p) PROVE DeletionInv'
  <2>1. IsFiniteSet(onRecord')
    BY <1>2, FS_AddElement DEF RegisterOwned
  <2>2. DeletionGoesOn'
    BY <1>2 DEF RegisterOwned, UnderWay, DeletionGoesOn, deploymentVars
  <2>. QED
    BY <1>2, <2>1, <2>2 DEF RegisterOwned, UnderWay, deploymentVars
<1>3. ASSUME NEW p \in Owned, NEW k \in ProjectStore, Put(p, k) PROVE DeletionInv'
  BY <1>3 DEF Put, DeletionGoesOn, deploymentVars
<1>4. ASSUME NEW k \in AccountStore, PutOwn(k) PROVE DeletionInv'
  BY <1>4 DEF PutOwn, UnderWay, DeletionGoesOn, deploymentVars
<1>5. ASSUME NEW n \in 0..Len(Removals), DeleteOwned(n) PROVE DeletionInv'
  <2>1. Len(Removals) = 4 /\ n \in 0..4
    BY DEF Removals
  <2>2. PICK done : done = {Removals[i] : i \in 1..n}
    OBVIOUS
  <2>3. "registry" \in done <=> n = 4
    BY <2>1, <2>2 DEF Removals
  <2>4. n = 4 => ProjectStore \subseteq done
    BY <2>1, <2>2 DEF Removals, ProjectStore
  <2>5. PICK p \in Owned : p = Head(toDelete)
    BY <1>5 DEF DeleteOwned, DeletionGoesOn
  <2>6. /\ running' = running \ {p} /\ holdings' = [holdings EXCEPT ![p] = @ \ done]
        /\ onRecord' = IF n = 4 THEN onRecord \ {p} ELSE onRecord
        /\ UNCHANGED <<belongings, newcomers, failing, wired, strict>>
    BY <1>5, <2>2, <2>3, <2>5 DEF DeleteOwned, deploymentVars
  <2>7. IF n = 4 THEN /\ toDelete' = Tail(toDelete)
                      /\ deletion' = IF Tail(toDelete) = <<>> THEN "stores" ELSE "sandbox"
        ELSE toDelete' = <<>> /\ deletion' = "thrown"
    BY <1>5, <2>1 DEF DeleteOwned
  <2>8. IsFiniteSet(onRecord')
    BY <2>6, FS_RemoveElement
  <2>9. toDelete # <<>> /\ onRecord \subseteq ToSet(toDelete) \cup newcomers
    BY <1>5 DEF DeleteOwned, DeletionGoesOn
  <2>10. ToSet(toDelete) \ {p} \subseteq ToSet(Tail(toDelete))
    <3>. SUFFICES ASSUME NEW x \in ToSet(toDelete), x # p PROVE x \in ToSet(Tail(toDelete))
      OBVIOUS
    <3>0. PICK i \in 1..Len(toDelete) : toDelete[i] = x
      BY DEF ToSet
    <3>1. i # 1
      BY <2>5, <2>9, <3>0
    <3>2. i - 1 \in 1..Len(Tail(toDelete)) /\ Tail(toDelete)[i - 1] = toDelete[i]
      BY <2>9, <3>1
    <3>3. Tail(toDelete) \in Seq(Owned)
      BY <2>9
    <3>4. PICK tail \in Seq(Owned) : tail = Tail(toDelete)
      BY ONLY <3>3
    <3>5. \A m \in 1..Len(tail) : tail[m] \in ToSet(tail)
      BY ONLY tail \in Seq(Owned) DEF ToSet
    <3>. QED
      BY <3>0, <3>2, <3>4, <3>5
  <2>11. Tail(toDelete) = <<>> => ToSet(Tail(toDelete)) = {}
    <3>1. PICK tail : tail = Tail(toDelete)
      OBVIOUS
    <3>2. tail = <<>> => ToSet(tail) = {}
      BY ONLY DEF ToSet
    <3>. QED
      BY <3>1, <3>2
  <2>12. DeletionGoesOn'
    BY <2>6, <2>7, <2>9, <2>10, <2>11 DEF DeletionGoesOn
  <2>13. toDelete' \in Seq(Owned)
    <3>1. Tail(toDelete) \in Seq(Owned) /\ <<>> \in Seq(Owned)
      BY <2>9
    <3>. QED
      BY <2>7, <3>1
  <2>14. \A q \in Owned : holdings'[q] # {} \/ q \in running' => q \in onRecord'
    BY <2>4, <2>6
  <2>. QED
    BY <2>6, <2>7, <2>8, <2>12, <2>13, <2>14
<1>6. ASSUME NEW n \in 0..Len(StoreOrder), NEW keep \in SUBSET AccountStore, DeleteStores(n, keep)
      PROVE  DeletionInv'
  <2>1. PICK asked : asked = {StoreOrder[i] : i \in 1..n} \cap wired
    OBVIOUS
  <2>2. n = 4 => {StoreOrder[i] : i \in 1..n} = AccountStore \cup {"secrets"}
    BY DEF StoreOrder, AccountStore
  <2>3. n = 4 => asked = wired
    BY <2>1, <2>2
  <2>4. Len(StoreOrder) = 4
    BY DEF StoreOrder
  <2>5. /\ deletion = "stores" /\ keep \subseteq asked
        /\ belongings' = belongings \ (asked \ keep)
        /\ IF n = 4
           THEN /\ holdings' = [p \in Owned |-> holdings[p] \ {"secrets"}]
                /\ deletion' = IF strict /\ wired # AccountStore THEN "thrown" ELSE "confirmed"
           ELSE deletion' = "thrown" /\ UNCHANGED holdings
        /\ failing' = IF deletion' = "confirmed" THEN keep ELSE {}
        /\ UNCHANGED <<onRecord, running, toDelete, newcomers, wired, strict>>
    BY <1>6, <2>1, <2>4 DEF DeleteStores, deploymentVars
  <2>6. deletion' = "confirmed" => /\ belongings' \subseteq failing' \cup (AccountStore \ wired)
                                   /\ strict => wired = AccountStore
    BY <2>3, <2>5
  <2>7. DeletionGoesOn'
    BY <2>5, <2>6 DEF DeletionGoesOn
  <2>8. \A p \in Owned : holdings'[p] \subseteq holdings[p]
    BY <2>5
  <2>. QED
    BY <2>5, <2>7, <2>8
<1>7. CASE UNCHANGED accountDeletionVars
  BY <1>7 DEF accountDeletionVars, DeletionGoesOn
<1>. QED
  BY <1>1, <1>2, <1>3, <1>4, <1>5, <1>6, <1>7 DEF DeletionNext

LEMMA DeletionIsSafe == DeletionInv => DeletionTypeOK /\ DeletionCanBeRetried
BY DEF DeletionInv, DeletionTypeOK, DeletionCanBeRetried, DeletionGoesOn

-----------------------------------------------------------------------------
(***************************************************************************)
(* Memory.  What is promised of a store is inductive.  That the caps hold  *)
(* of a document whose entries stand elsewhere, or are fewer, is what the  *)
(* steps that move and remove entries need.                                *)
(***************************************************************************)
MemoryInv == MemoryTypeOK /\ MemoryKeepsFacts

\* What a document tells, entry by entry.
Telling(doc) == {w \in (1..Len(doc)) \X Fact : w[2] \in doc[w[1]]}

\* f says where the entries of d stand in e.
Places(f, d, e) ==
  /\ f \in [1..Len(d) -> 1..Len(e)]
  /\ \A i, j \in 1..Len(d) : i # j => f[i] # f[j]
  /\ \A i \in 1..Len(d) : d[i] = e[f[i]]

LEMMA LengthOfInterval ==
  ASSUME NEW n \in Nat
  PROVE  IsFiniteSet(1..n) /\ Cardinality(1..n) = n
<1>1. 1 \in Int /\ n \in Int
  OBVIOUS
<1>2. IsFiniteSet(1..n) /\ Cardinality(1..n) = IF 1 > n THEN 0 ELSE n - 1 + 1
  BY ONLY <1>1, FS_Interval
<1>. QED
  BY <1>2

LEMMA TellingIsFinite ==
  ASSUME NEW doc \in Seq(SUBSET Fact)
  PROVE  IsFiniteSet(Telling(doc)) /\ Cardinality(Telling(doc)) \in Nat
<1>1. Len(doc) \in Nat
  OBVIOUS
<1>2. IsFiniteSet(1..Len(doc)) /\ IsFiniteSet(Fact)
  BY <1>1, LengthOfInterval, MemoryAssumption
<1>3. IsFiniteSet((1..Len(doc)) \X Fact)
  BY <1>2, FS_Product
<1>4. Telling(doc) \in SUBSET ((1..Len(doc)) \X Fact)
  BY DEF Telling
<1>. QED
  BY <1>3, <1>4, FS_Subset, FS_CardinalityType

LEMMA PlacedDocIsWithin ==
  ASSUME NEW d \in Seq(SUBSET Fact), NEW e \in Seq(SUBSET Fact), NEW f, Places(f, d, e),
         WithinCaps(e)
  PROVE  WithinCaps(d)
<1>1. Len(d) \in Nat /\ Len(e) \in Nat
  OBVIOUS
<1>2. Len(d) <= Len(e)
  <2>1. f \in Injection(1..Len(d), 1..Len(e))
    BY Fun_IsInj DEF Places
  <2>2. Cardinality(1..Len(d)) <= Cardinality(1..Len(e))
    BY <1>1, <2>1, LengthOfInterval, FS_Injection
  <2>. QED
    BY <1>1, <2>2, LengthOfInterval
<1>3. Cardinality(Telling(d)) <= Cardinality(Telling(e))
  <2>. DEFINE g == [w \in Telling(d) |-> <<f[w[1]], w[2]>>]
  <2>1. ASSUME NEW w \in Telling(d) PROVE g[w] \in Telling(e)
    <3>1. w[1] \in 1..Len(d) /\ w[2] \in Fact /\ w[2] \in d[w[1]]
      BY DEF Telling
    <3>2. f[w[1]] \in 1..Len(e) /\ w[2] \in e[f[w[1]]]
      BY <3>1 DEF Places
    <3>. QED
      BY <3>1, <3>2 DEF Telling
  <2>2. ASSUME NEW v \in Telling(d), NEW w \in Telling(d), g[v] = g[w] PROVE v = w
    <3>1. /\ v = <<v[1], v[2]>> /\ w = <<w[1], w[2]>>
          /\ v[1] \in 1..Len(d) /\ w[1] \in 1..Len(d)
      BY DEF Telling
    <3>2. f[v[1]] = f[w[1]] /\ v[2] = w[2]
      BY <2>2
    <3>. QED
      BY <3>1, <3>2 DEF Places
  <2>3. g \in [Telling(d) -> Telling(e)]
    BY <2>1
  <2>. HIDE DEF g
  <2>4. g \in Injection(Telling(d), Telling(e))
    BY <2>2, <2>3, Fun_IsInj
  <2>. QED
    BY <2>4, TellingIsFinite, FS_Injection
<1>4. /\ Weight(d) = Len(d) + Cardinality(Telling(d))
      /\ Weight(e) = Len(e) + Cardinality(Telling(e))
  BY DEF Weight, Telling
<1>5. Cardinality(Telling(d)) \in Nat /\ Cardinality(Telling(e)) \in Nat
  BY TellingIsFinite
<1>. QED
  BY <1>1, <1>2, <1>3, <1>4, <1>5, MemoryAssumption DEF WithinCaps

(***************************************************************************)
(* Wherever the summary is dated, the entries are the same ones.           *)
(***************************************************************************)
LEMMA DatedIsPlaced ==
  ASSUME NEW doc \in Seq(SUBSET Fact), doc # <<>>, NEW d \in Dated(doc)
  PROVE  /\ d \in Seq(SUBSET Fact) /\ Len(d) = Len(doc)
         /\ \E f : Places(f, d, doc) /\ \A j \in 1..Len(doc) : \E i \in 1..Len(d) : f[i] = j
<1>1. PICK n \in Nat \ {0} : n = Len(doc)
  OBVIOUS
<1>2. CASE d = Append(Tail(doc), doc[1])
  <2>. DEFINE f == [i \in 1..n |-> IF i < n THEN i + 1 ELSE 1]
  <2>1. d \in Seq(SUBSET Fact) /\ Len(d) = n
    BY <1>1, <1>2
  <2>2. \A i \in 1..n : d[i] = doc[f[i]]
    BY <1>1, <1>2
  <2>3. f \in [1..n -> 1..n] /\ \A i, j \in 1..n : i # j => f[i] # f[j]
    OBVIOUS
  <2>4. ASSUME NEW j \in 1..n PROVE \E i \in 1..n : f[i] = j
    <3>1. CASE j = 1
      BY <3>1
    <3>2. CASE j # 1
      <4>1. j - 1 \in 1..n /\ f[j - 1] = j
        BY <3>2
      <4>. QED
        BY <4>1
    <3>. QED
      BY <3>1, <3>2
  <2>. HIDE DEF f
  <2>5. Places(f, d, doc)
    BY <1>1, <2>1, <2>2, <2>3 DEF Places
  <2>6. \A j \in 1..Len(doc) : \E i \in 1..Len(d) : f[i] = j
    BY <1>1, <2>1, <2>4
  <2>. QED
    BY <1>1, <2>1, <2>5, <2>6
<1>3. CASE n > 1 /\ d = Append(Append(SubSeq(doc, 2, n - 1), doc[1]), doc[n])
  <2>. DEFINE f == [i \in 1..n |-> IF i < n - 1 THEN i + 1 ELSE IF i = n - 1 THEN 1 ELSE n]
  <2>1. PICK m : m = SubSeq(doc, 2, n - 1)
    OBVIOUS
  <2>2. /\ m \in Seq(SUBSET Fact) /\ Len(m) = n - 2
        /\ \A i \in 1..n - 2 : m[i] = doc[i + 1]
    <3>1. 2 \in Int /\ n - 1 \in Int /\ \A i \in 2..n - 1 : doc[i] \in SUBSET Fact
      BY <1>1
    <3>2. /\ SubSeq(doc, 2, n - 1) \in Seq(SUBSET Fact)
          /\ Len(SubSeq(doc, 2, n - 1)) = IF 2 <= n - 1 THEN n - 1 - 2 + 1 ELSE 0
          /\ \A i \in 1..n - 1 - 2 + 1 : SubSeq(doc, 2, n - 1)[i] = doc[2 + i - 1]
      BY <3>1, SubSeqProperties
    <3>. QED
      BY <1>3, <2>1, <3>2
  <2>3. doc[1] \in SUBSET Fact /\ doc[n] \in SUBSET Fact
    BY <1>1
  <2>4. d \in Seq(SUBSET Fact) /\ Len(d) = n
    <3>1. PICK a : a = Append(m, doc[1])
      OBVIOUS
    <3>2. a \in Seq(SUBSET Fact) /\ Len(a) = n - 1
      BY <2>2, <2>3, <3>1
    <3>3. d = Append(a, doc[n])
      BY <1>3, <2>1, <3>1
    <3>. QED
      BY <2>3, <3>2, <3>3
  <2>5. ASSUME NEW i \in 1..n PROVE d[i] = doc[f[i]]
    <3>1. CASE i = n
      <4>1. d[n] = doc[n] /\ f[n] = n
        BY <1>3, <2>1, <2>2, <2>3
      <4>. QED
        BY <3>1, <4>1
    <3>2. CASE i = n - 1
      <4>1. d[n - 1] = doc[1] /\ f[n - 1] = 1
        BY <1>3, <2>1, <2>2, <2>3
      <4>. QED
        BY <3>2, <4>1
    <3>3. CASE i < n - 1
      <4>1. i \in 1..n - 2 /\ f[i] = i + 1
        BY <3>3
      <4>2. d[i] = m[i]
        BY <1>3, <2>1, <2>2, <2>3, <4>1
      <4>. QED
        BY <2>2, <4>1, <4>2
    <3>. QED
      BY <3>1, <3>2, <3>3
  <2>6. f \in [1..n -> 1..n] /\ \A i, j \in 1..n : i # j => f[i] # f[j]
    <3>1. ASSUME NEW i \in 1..n
          PROVE  /\ i < n - 1 => f[i] = i + 1
                 /\ i = n - 1 => f[i] = 1
                 /\ i = n => f[i] = n
                 /\ i < n - 1 \/ i = n - 1 \/ i = n
      BY <1>3
    <3>2. f \in [1..n -> 1..n]
      BY <1>3
    <3>. HIDE DEF f
    <3>3. ASSUME NEW i \in 1..n, NEW j \in 1..n, i # j PROVE f[i] # f[j]
      <4>1. CASE i < n - 1
        <5>1. f[i] = i + 1
          BY <3>1, <4>1
        <5>2. (j < n - 1 /\ f[j] = j + 1) \/ f[j] = 1 \/ f[j] = n
          BY <3>1
        <5>. QED
          BY <3>3, <4>1, <5>1, <5>2
      <4>2. CASE i = n - 1
        BY <1>3, <3>1, <3>3, <4>2
      <4>3. CASE i = n
        <5>1. f[i] = n
          BY <3>1, <4>3
        <5>2. (j < n - 1 /\ f[j] = j + 1) \/ (j = n - 1 /\ f[j] = 1)
          BY <3>1, <3>3, <4>3
        <5>. QED
          BY <1>3, <4>3, <5>1, <5>2
      <4>. QED
        BY <3>1, <4>1, <4>2, <4>3
    <3>. QED
      BY <3>2, <3>3
  <2>7. ASSUME NEW j \in 1..n PROVE \E i \in 1..n : f[i] = j
    <3>1. CASE j = 1
      <4>1. n - 1 \in 1..n /\ f[n - 1] = 1
        BY <1>3
      <4>. QED
        BY <3>1, <4>1
    <3>2. CASE j = n
      <4>1. f[n] = n
        OBVIOUS
      <4>. QED
        BY <3>2, <4>1
    <3>3. CASE j # 1 /\ j # n
      <4>1. j - 1 \in 1..n /\ f[j - 1] = j
        BY <3>3
      <4>. QED
        BY <4>1
    <3>. QED
      BY <3>1, <3>2, <3>3
  <2>. HIDE DEF f
  <2>8. Places(f, d, doc)
    BY <1>1, <2>4, <2>5, <2>6 DEF Places
  <2>9. \A j \in 1..Len(doc) : \E i \in 1..Len(d) : f[i] = j
    BY <1>1, <2>4, <2>7
  <2>. QED
    BY <1>1, <2>4, <2>8, <2>9
<1>. QED
  BY <1>1, <1>2, <1>3 DEF Dated

(***************************************************************************)
(* A summary tells all that the entries it stands for told.                *)
(***************************************************************************)
LEMMA SummarizedTellsAll ==
  ASSUME NEW all \in Seq(SUBSET Fact), all # <<>>, NEW n \in 0..Len(all)
  PROVE  /\ Summarized(all, n) \in Seq(SUBSET Fact) /\ Summarized(all, n) # <<>>
         /\ \A j \in 1..Len(all) :
              \E i \in 1..Len(Summarized(all, n)) : all[j] \subseteq Summarized(all, n)[i]
<1>. Len(all) \in Nat
  OBVIOUS
<1>1. PICK k \in 0..Len(all) : k = Len(all) - n
  <2>1. Len(all) - n \in 0..Len(all)
    OBVIOUS
  <2>. QED
    BY <2>1
<1>2. CASE k = 0
  BY <1>1, <1>2 DEF Summarized
<1>3. CASE k # 0
  <2>1. PICK g : g = Gist(all, k)
    OBVIOUS
  <2>2. g \in SUBSET Fact /\ \A j \in 1..k : all[j] \subseteq g
    BY <2>1 DEF Gist
  <2>3. PICK t : t = SubSeq(all, k + 1, Len(all))
    OBVIOUS
  <2>4. /\ t \in Seq(SUBSET Fact) /\ Len(t) = Len(all) - k
        /\ \A i \in 1..Len(all) - k : t[i] = all[k + i]
    <3>1. k + 1 \in Int /\ Len(all) \in Int /\ \A i \in k + 1..Len(all) : all[i] \in SUBSET Fact
      OBVIOUS
    <3>2. /\ SubSeq(all, k + 1, Len(all)) \in Seq(SUBSET Fact)
          /\ Len(SubSeq(all, k + 1, Len(all))) = IF k + 1 <= Len(all) THEN Len(all) - (k + 1) + 1
                                                 ELSE 0
          /\ \A i \in 1..Len(all) - (k + 1) + 1 :
               SubSeq(all, k + 1, Len(all))[i] = all[(k + 1) + i - 1]
      BY <3>1, SubSeqProperties
    <3>. QED
      BY <2>3, <3>2
  <2>5. PICK s : s = Summarized(all, n)
    OBVIOUS
  <2>6. s = <<g>> \o t
    BY <1>1, <1>3, <2>1, <2>3, <2>5 DEF Summarized
  <2>7. /\ s \in Seq(SUBSET Fact) /\ Len(s) = 1 + Len(t)
        /\ s[1] = g /\ \A i \in 1..Len(t) : s[i + 1] = t[i]
    <3>1. /\ <<g>> \in Seq(SUBSET Fact) /\ Len(<<g>>) = 1 /\ <<g>>[1] = g
          /\ t \in Seq(SUBSET Fact) /\ Len(t) \in Nat
      BY <2>2, <2>4
    <3>2. /\ s \in Seq(SUBSET Fact) /\ Len(s) = 1 + Len(t)
          /\ \A i \in 1..1 + Len(t) : s[i] = IF i <= 1 THEN <<g>>[i] ELSE t[i - 1]
      BY <2>6, <3>1, ConcatProperties
    <3>. QED
      BY <3>1, <3>2
  <2>8. ASSUME NEW j \in 1..Len(all)
        PROVE  \E i \in 1..Len(s) : all[j] \subseteq s[i]
    <3>1. CASE j <= k
      <4>1. j \in 1..k
        BY <3>1
      <4>2. all[j] \subseteq s[1]
        BY <2>2, <2>7, <4>1
      <4>3. 1 \in 1..Len(s)
        BY <2>4, <2>7
      <4>. QED
        BY <4>2, <4>3
    <3>2. CASE j > k
      <4>0. j - k \in 1..Len(all) - k /\ k + (j - k) = j
        BY <3>2
      <4>1. j - k \in 1..Len(t) /\ t[j - k] = all[j] /\ (j - k) + 1 \in 1..Len(s)
        <5>1. j - k \in 1..Len(t) /\ t[j - k] = all[j]
          BY <2>4, <4>0
        <5>2. Len(s) = 1 + Len(t) /\ Len(t) \in Nat
          BY <2>4, <2>7
        <5>. QED
          BY ONLY <5>1, <5>2
      <4>2. s[(j - k) + 1] = all[j]
        BY <2>7, <4>1
      <4>. QED
        BY <4>1, <4>2
    <3>. QED
      BY <3>1, <3>2
  <2>9. s # <<>>
    BY <2>4, <2>7
  <2>. QED
    BY <2>5, <2>7, <2>8, <2>9
<1>. QED
  BY <1>2, <1>3

LEMMA MemoryStarts == MemoryInit => MemoryInv
<1>. SUFFICES ASSUME MemoryInit PROVE MemoryInv
  OBVIOUS
<1>1. MemoryTypeOK
  <2>1. entries \in Seq(SUBSET Fact) /\ Len(entries) = 0
    BY DEF MemoryInit
  <2>2. 0 <= MaxEntries
    BY MemoryAssumption
  <2>. QED
    BY <2>1, <2>2 DEF MemoryInit, MemoryTypeOK
<1>2. MemoryKeepsFacts
  <2>1. Telling(entries) = {} /\ Len(entries) = 0
    BY DEF MemoryInit, Telling
  <2>2. Weight(entries) = 0
    BY <2>1, FS_EmptySet DEF Weight, Telling
  <2>. QED
    BY <2>1, <2>2, MemoryAssumption DEF MemoryInit, MemoryKeepsFacts, WithinCaps
<1>. QED
  BY <1>1, <1>2 DEF MemoryInv

(***************************************************************************)
(* An addition that is summed up for room leaves all facts in place and    *)
(* the caps kept.                                                          *)
(***************************************************************************)
LEMMA SummaryIsStored ==
  ASSUME MemoryInv, NEW all \in Seq(SUBSET Fact), all # <<>>, NEW n \in 0..Len(all),
         WithinCaps(Summarized(all, n)), NEW d \in Dated(Summarized(all, n))
  PROVE  /\ d \in Seq(SUBSET Fact) /\ Len(d) <= MaxEntries /\ WithinCaps(d)
         /\ UNION ToSet(all) \subseteq UNION ToSet(d)
<1>1. PICK s : s = Summarized(all, n)
  OBVIOUS
<1>2. /\ s \in Seq(SUBSET Fact) /\ s # <<>>
      /\ \A j \in 1..Len(all) : \E i \in 1..Len(s) : all[j] \subseteq s[i]
  BY <1>1, SummarizedTellsAll
<1>3. d \in Seq(SUBSET Fact) /\ Len(d) = Len(s)
  BY <1>1, <1>2, DatedIsPlaced
<1>4. PICK f : Places(f, d, s) /\ \A j \in 1..Len(s) : \E i \in 1..Len(d) : f[i] = j
  BY <1>1, <1>2, DatedIsPlaced
<1>5. WithinCaps(d)
  BY <1>1, <1>2, <1>3, <1>4, PlacedDocIsWithin
<1>6. Len(d) <= MaxEntries
  BY <1>3, <1>5, MemoryAssumption DEF WithinCaps
<1>7. ASSUME NEW j \in 1..Len(all) PROVE all[j] \subseteq UNION ToSet(d)
  <2>1. PICK i \in 1..Len(s) : all[j] \subseteq s[i]
    BY <1>2
  <2>2. PICK h \in 1..Len(d) : f[h] = i
    BY <1>4, <2>1
  <2>3. d[h] = s[i]
    BY <1>4, <2>2 DEF Places
  <2>4. d[h] \in ToSet(d)
    BY <1>3, <2>2 DEF ToSet
  <2>. QED
    BY <2>1, <2>3, <2>4
<1>8. \A x \in ToSet(all) : \E j \in 1..Len(all) : x = all[j]
  BY DEF ToSet
<1>. QED
  BY <1>3, <1>5, <1>6, <1>7, <1>8

\* The entries that a deletion keeps.
LEMMA KeptEntries ==
  ASSUME MemoryInv, NEW gone, gone \subseteq 1..Len(entries),
         NEW at \in InOrder((1..Len(entries)) \ gone),
         NEW d, d = [i \in DOMAIN at |-> entries[at[i]]]
  PROVE  /\ d \in Seq(SUBSET Fact) /\ Len(d) <= Len(entries)
         /\ WithinCaps(entries) => WithinCaps(d)
         /\ \A j \in (1..Len(entries)) \ gone : entries[j] \in ToSet(d)
<1>1. PICK kept : kept = (1..Len(entries)) \ gone
  OBVIOUS
<1>2. entries \in Seq(SUBSET Fact) /\ Len(entries) \in Nat
  BY DEF MemoryInv, MemoryTypeOK
<1>3. kept \in SUBSET (1..Len(entries)) /\ IsFiniteSet(1..Len(entries))
  BY <1>1, <1>2, LengthOfInterval
<1>4. IsFiniteSet(kept) /\ Cardinality(kept) <= Len(entries) /\ Cardinality(kept) \in Nat
  <2>1. IsFiniteSet(kept) /\ Cardinality(kept) <= Cardinality(1..Len(entries))
    BY <1>3, FS_Subset
  <2>2. Cardinality(1..Len(entries)) = Len(entries)
    BY <1>2, LengthOfInterval
  <2>3. Cardinality(kept) \in Nat
    BY <2>1, FS_CardinalityType
  <2>. QED
    BY <2>1, <2>2, <2>3
<1>5. PICK n \in Nat : n = Cardinality(kept)
  BY <1>4
<1>6. at \in [1..n -> kept] /\ DOMAIN at = 1..n /\ \A i, j \in 1..n : i < j => at[i] < at[j]
  BY <1>1, <1>5 DEF InOrder
<1>7. ASSUME NEW i \in 1..n, NEW j \in 1..n, i # j PROVE at[i] # at[j]
  <2>1. at[i] \in kept /\ at[j] \in kept
    BY <1>6
  <2>2. i < j \/ j < i
    BY <1>7
  <2>3. at[i] \in 1..Len(entries) /\ at[j] \in 1..Len(entries)
    BY <1>3, <2>1
  <2>4. at[i] \in Int /\ at[j] \in Int
    BY <1>2, <2>3
  <2>. QED
    BY <1>6, <2>2, <2>4
<1>8. d \in Seq(SUBSET Fact) /\ Len(d) = n
  <2>1. d = [i \in 1..n |-> entries[at[i]]]
    BY <1>6
  <2>2. ASSUME NEW i \in 1..n PROVE entries[at[i]] \in SUBSET Fact
    <3>1. at[i] \in kept
      BY <1>6
    <3>2. at[i] \in 1..Len(entries)
      BY <1>3, <3>1
    <3>. QED
      BY <1>2, <3>2
  <2>3. PICK e \in [1..n -> SUBSET Fact] : e = [i \in 1..n |-> entries[at[i]]]
    BY <2>2
  <2>4. e \in Seq(SUBSET Fact) /\ Len(e) = n
    BY IsASeq
  <2>. QED
    BY <2>1, <2>3, <2>4
<1>9. Places(at, d, entries)
  BY <1>3, <1>6, <1>7, <1>8 DEF Places
<1>10. WithinCaps(entries) => WithinCaps(d)
  BY <1>2, <1>8, <1>9, PlacedDocIsWithin
<1>11. ASSUME NEW j \in kept PROVE entries[j] \in ToSet(d)
  <2>1. PICK i \in 1..n : at[i] = j
    BY <1>4, <1>5, <1>6, <1>7, AllAreListed
  <2>2. i \in DOMAIN d /\ d[i] = entries[j]
    BY <1>6, <2>1
  <2>. QED
    BY <2>2 DEF ToSet
<1>. QED
  BY <1>1, <1>4, <1>5, <1>8, <1>10, <1>11

LEMMA MemoryStep ==
  ASSUME MemoryInv, MemoryNext \/ UNCHANGED memoryVars
  PROVE  MemoryInv'
<1>1. /\ entries \in Seq(SUBSET Fact) /\ Len(entries) <= MaxEntries /\ Len(entries) \in Nat
      /\ memoryMode \in {"auto", "manual", "off"} /\ told \subseteq Fact /\ dropped \subseteq Fact
      /\ overdrawn \in BOOLEAN
      /\ told \ dropped \subseteq UNION ToSet(entries)
      /\ WithinCaps(entries) \/ overdrawn
  BY DEF MemoryInv, MemoryTypeOK, MemoryKeepsFacts
<1>2. \A f \in told \ dropped : \E i \in 1..Len(entries) : f \in entries[i]
  BY <1>1 DEF ToSet
\* What is to show, in its parts.
<1>3. ASSUME   /\ entries' \in Seq(SUBSET Fact) /\ Len(entries') <= MaxEntries
               /\ memoryMode' \in {"auto", "manual", "off"}
               /\ told' \subseteq Fact /\ dropped' \subseteq Fact /\ overdrawn' \in BOOLEAN
               /\ told' \ dropped' \subseteq UNION ToSet(entries')
               /\ WithinCaps(entries') \/ overdrawn'
      PROVE    MemoryInv'
  BY <1>3 DEF MemoryInv, MemoryTypeOK, MemoryKeepsFacts, WithinCaps, Weight
<1>4. ASSUME NEW f \in Fact, NEW all, all = Append(entries, {f})
      PROVE  /\ all \in Seq(SUBSET Fact) /\ Len(all) = Len(entries) + 1 /\ all # <<>>
             /\ (told \cup {f}) \ dropped \subseteq UNION ToSet(all)
  <2>1. all \in Seq(SUBSET Fact) /\ Len(all) = Len(entries) + 1 /\ all # <<>>
    BY <1>1, <1>4
  <2>2. \A i \in 1..Len(entries) : all[i] = entries[i]
    BY <1>1, <1>4
  <2>3. all[Len(entries) + 1] = {f} /\ Len(entries) + 1 \in 1..Len(all)
    BY <1>1, <1>4
  <2>4. \A i \in 1..Len(all) : all[i] \in ToSet(all)
    BY <2>1 DEF ToSet
  <2>5. f \in UNION ToSet(all)
    BY <2>3, <2>4
  <2>6. ASSUME NEW g \in told \ dropped PROVE g \in UNION ToSet(all)
    <3>1. PICK i \in 1..Len(entries) : g \in entries[i]
      BY <1>2
    <3>2. i \in 1..Len(all) /\ all[i] = entries[i]
      BY <1>1, <2>1, <2>2
    <3>. QED
      BY <2>4, <3>1, <3>2
  <2>. QED
    BY <2>1, <2>5, <2>6
<1>5. ASSUME NEW f \in Fact, AddAuto(f) PROVE MemoryInv'
  <2>1. PICK all : all = Append(entries, {f})
    OBVIOUS
  <2>2. /\ told' = told \cup {f} /\ overdrawn' = FALSE /\ UNCHANGED <<memoryMode, dropped>>
        /\ \/ WithinCaps(all) /\ entries' = all
           \/ \E n \in Fitting(all) : entries' \in Dated(Summarized(all, n))
    BY <1>5, <2>1 DEF AddAuto
  <2>3. /\ all \in Seq(SUBSET Fact) /\ all # <<>> /\ Len(all) \in Nat
        /\ (told \cup {f}) \ dropped \subseteq UNION ToSet(all)
    <3>1. /\ all \in Seq(SUBSET Fact) /\ all # <<>>
          /\ (told \cup {f}) \ dropped \subseteq UNION ToSet(all)
      BY <1>4, <2>1
    <3>. QED
      BY <3>1
  <2>4. CASE WithinCaps(all) /\ entries' = all
    <3>1. Len(all) <= MaxEntries
      BY <2>3, <2>4, MemoryAssumption DEF WithinCaps
    <3>2. WithinCaps(entries')
      BY <2>4
    <3>. QED
      BY <1>1, <1>3, <2>2, <2>3, <2>4, <3>1, <3>2
  <2>5. CASE \E n \in Fitting(all) : entries' \in Dated(Summarized(all, n))
    <3>1. PICK n \in Fitting(all) : entries' \in Dated(Summarized(all, n))
      BY <2>5
    <3>2. n \in 0..Len(all) /\ WithinCaps(Summarized(all, n))
      BY <2>3, MemoryAssumption DEF Fitting, Least, KeptVerbatim
    <3>3. /\ entries' \in Seq(SUBSET Fact) /\ Len(entries') <= MaxEntries
          /\ WithinCaps(entries') /\ UNION ToSet(all) \subseteq UNION ToSet(entries')
      BY <2>3, <3>1, <3>2, SummaryIsStored
    <3>. QED
      BY <1>1, <1>3, <2>2, <2>3, <3>3
  <2>. QED
    BY <2>2, <2>4, <2>5
<1>6. ASSUME NEW f \in Fact, AddUser(f) PROVE MemoryInv'
  <2>1. /\ entries' = Append(entries, {f}) /\ Len(entries) < MaxEntries
        /\ told' = told \cup {f} /\ UNCHANGED <<memoryMode, dropped>>
        /\ overdrawn' = ~WithinCaps(entries')
    BY <1>6 DEF AddUser
  <2>2. /\ entries' \in Seq(SUBSET Fact) /\ Len(entries') = Len(entries) + 1
        /\ (told \cup {f}) \ dropped \subseteq UNION ToSet(entries')
    BY <1>4, <2>1
  <2>3. Len(entries') <= MaxEntries
    BY <1>1, <2>1, <2>2, MemoryAssumption
  <2>4. overdrawn' \in BOOLEAN /\ (WithinCaps(entries') \/ overdrawn')
    BY <2>1
  <2>. QED
    BY <1>1, <1>3, <2>1, <2>2, <2>3, <2>4
<1>7. ASSUME NEW i \in 1..MaxEntries, NEW fs \in SUBSET Fact, EditEntry(i, fs) PROVE MemoryInv'
  <2>1. /\ i \in 1..Len(entries) /\ entries' = [entries EXCEPT ![i] = fs]
        /\ dropped' = dropped \cup (entries[i] \ fs) /\ told' = told \cup fs
        /\ overdrawn' = ~WithinCaps(entries') /\ UNCHANGED memoryMode
    BY <1>7 DEF EditEntry
  <2>2. entries' \in Seq(SUBSET Fact) /\ Len(entries') = Len(entries)
    BY <1>1, <2>1
  <2>3. \A j \in 1..Len(entries) : entries'[j] = IF j = i THEN fs ELSE entries[j]
    BY <1>1, <2>1
  <2>4. \A j \in 1..Len(entries) : entries'[j] \in ToSet(entries')
    BY <2>2 DEF ToSet
  <2>5. ASSUME NEW g \in told' \ dropped' PROVE g \in UNION ToSet(entries')
    <3>1. CASE g \in fs
      BY <2>1, <2>3, <2>4, <3>1
    <3>2. CASE g \notin fs
      <4>1. PICK j \in 1..Len(entries) : g \in entries[j]
        BY <1>2, <2>1, <3>2
      <4>2. j # i
        BY <2>1, <3>2, <4>1
      <4>. QED
        BY <2>3, <2>4, <4>1, <4>2
    <3>. QED
      BY <3>1, <3>2
  <2>6. overdrawn' \in BOOLEAN /\ (WithinCaps(entries') \/ overdrawn')
    BY <2>1
  <2>7. entries[i] \in SUBSET Fact
    BY <1>1, <2>1
  <2>. QED
    BY <1>1, <1>3, <2>1, <2>2, <2>5, <2>6, <2>7
<1>8. ASSUME NEW gone \in SUBSET (1..MaxEntries), DeleteEntries(gone) PROVE MemoryInv'
  <2>1. /\ gone \subseteq 1..Len(entries)
        /\ dropped' = dropped \cup UNION {entries[i] : i \in gone}
        /\ overdrawn' = (overdrawn /\ ~WithinCaps(entries')) /\ UNCHANGED <<memoryMode, told>>
    BY <1>8 DEF DeleteEntries
  <2>2. PICK at \in InOrder((1..Len(entries)) \ gone) :
          entries' = [i \in DOMAIN at |-> entries[at[i]]]
    BY <1>8 DEF DeleteEntries
  <2>3. /\ entries' \in Seq(SUBSET Fact) /\ Len(entries') <= Len(entries)
        /\ WithinCaps(entries) => WithinCaps(entries')
        /\ \A j \in (1..Len(entries)) \ gone : entries[j] \in ToSet(entries')
    BY <2>1, <2>2, KeptEntries
  <2>4. ASSUME NEW g \in told' \ dropped' PROVE g \in UNION ToSet(entries')
    <3>1. PICK j \in 1..Len(entries) : g \in entries[j]
      BY <1>2, <2>1
    <3>2. j \notin gone
      BY <2>1, <3>1
    <3>. QED
      BY <2>3, <3>1, <3>2
  <2>5. UNION {entries[i] : i \in gone} \subseteq Fact
    BY <1>1, <2>1
  <2>6. overdrawn' \in BOOLEAN /\ (WithinCaps(entries') \/ overdrawn')
    BY <1>1, <2>1, <2>3
  <2>7. Len(entries') <= MaxEntries
    <3>1. Len(entries') \in Nat
      BY <2>3
    <3>. QED
      BY <1>1, <2>3, <3>1, MemoryAssumption
  <2>. QED
    BY <1>1, <1>3, <2>1, <2>3, <2>4, <2>5, <2>6, <2>7
<1>9. ASSUME NEW m \in {"auto", "manual", "off"}, SetMode(m) PROVE MemoryInv'
  <2>1. memoryMode' = m /\ UNCHANGED <<entries, told, dropped, overdrawn>>
    BY <1>9 DEF SetMode
  <2>. QED
    BY <1>1, <1>3, <2>1
<1>10. CASE DeleteMemory
  <2>1. /\ entries' = <<>> /\ memoryMode' = "auto" /\ dropped' = told /\ told' = told
        /\ overdrawn' = FALSE
    BY <1>10 DEF DeleteMemory
  <2>2. Telling(<<>>) = {}
    BY DEF Telling
  <2>3. Len(entries') = 0 /\ Weight(entries') = 0
    BY <2>1, <2>2, FS_EmptySet DEF Weight, Telling
  <2>4. WithinCaps(entries')
    BY <2>3, MemoryAssumption DEF WithinCaps
  <2>5. entries' \in Seq(SUBSET Fact) /\ Len(entries') <= MaxEntries
    BY <2>1, <2>3, MemoryAssumption
  <2>. QED
    BY <1>1, <1>3, <2>1, <2>4, <2>5
<1>11. CASE UNCHANGED memoryVars
  BY <1>1, <1>3, <1>11 DEF memoryVars
<1>. QED
  BY <1>5, <1>6, <1>7, <1>8, <1>9, <1>10, <1>11 DEF MemoryNext

-----------------------------------------------------------------------------
(***************************************************************************)
(* Settings.  The last experience frame on its way to a tab is what is     *)
(* stored; a tab with none on its way shows it, unless an answer overtook; *)
(* and an answer that says something else has such a frame behind it.      *)
(***************************************************************************)
Frame == {ExperienceFrame(e) : e \in Experience}
         \cup {ThemeFrame(t, previewed) : t \in Theme, previewed \in BOOLEAN}
TabRequest == [op : {"select", "getTheme", "getExperience"}, experience : Experience]
           \cup [op : {"preview", "commit"}, theme : Theme, experience : Experience]
Waiting == {NotAsking} \cup [at : {"sent"}, request : TabRequest]
           \cup [at : {"answered"}, ok : BOOLEAN, frame : Frame, ahead : Nat]

TellsExperience(f) == f.kind = "experience"
\* Behind the first n frames there is one that tells an experience.
ToldAfter(fs, n) == \E i \in 1..Len(fs) : i > n /\ TellsExperience(fs[i])
LastTold(fs, e) ==
  \A i \in 1..Len(fs) :
    TellsExperience(fs[i]) /\ (\A j \in 1..Len(fs) : j > i => ~TellsExperience(fs[j]))
      => fs[i].experience = e
OfKept(f, kept) == ~TellsExperience(f) /\ ~f.previewed => f.theme \in kept

SettingsInv ==
  /\ experience \in Experience /\ themeOf \in [Experience -> Theme] /\ everKept \subseteq Theme
  /\ themeOf = promised /\ \A e \in Experience : themeOf[e] \in everKept
  /\ streaming \cup overtaken \subseteq Tab /\ changes \in 0..MaxChanges

TabsInv ==
  /\ shown \in [Tab -> [experience : Experience, committed : Theme,
                        previewed : Theme \cup {"none"}]]
  /\ frames \in [Tab -> Seq(Frame)] /\ asking \in [Tab -> Waiting]

StreamInv(c) ==
  /\ shown[c].committed \in everKept /\ Len(frames[c]) <= MaxFrames
  /\ \A i \in 1..Len(frames[c]) : OfKept(frames[c][i], everKept)
  /\ c \notin streaming => frames[c] = <<>>
  /\ c \in streaming => LastTold(frames[c], experience)
  /\ c \in streaming \ overtaken /\ ~ToldAfter(frames[c], 0) => shown[c].experience = experience

AnswerInv(c) ==
  asking[c].at = "answered" =>
    /\ asking[c].ahead <= Len(frames[c])
    /\ asking[c].ok => OfKept(asking[c].frame, everKept)
    /\ c \in streaming /\ TellsExperience(asking[c].frame) =>
         \/ asking[c].frame.experience = experience
         \/ ToldAfter(frames[c], asking[c].ahead)
         \/ asking[c].ahead = 0 /\ c \in overtaken

PresentationInv ==
  SettingsInv /\ TabsInv /\ \A c \in Tab : StreamInv(c) /\ AnswerInv(c)

LEMMA FramesAreKnown ==
  /\ \A e \in Experience : ExperienceFrame(e) \in Frame /\ TellsExperience(ExperienceFrame(e))
                           /\ ExperienceFrame(e).experience = e
  /\ \A t \in Theme, p \in BOOLEAN :
       ThemeFrame(t, p) \in Frame /\ ~TellsExperience(ThemeFrame(t, p))
       /\ ThemeFrame(t, p).theme = t /\ ThemeFrame(t, p).previewed = p
<1>1. ASSUME NEW e \in Experience
      PROVE  ExperienceFrame(e) \in Frame /\ TellsExperience(ExperienceFrame(e))
             /\ ExperienceFrame(e).experience = e
  BY DEF Frame, ExperienceFrame, TellsExperience
<1>2. ASSUME NEW t \in Theme, NEW p \in BOOLEAN
      PROVE  ThemeFrame(t, p) \in Frame /\ ~TellsExperience(ThemeFrame(t, p))
             /\ ThemeFrame(t, p).theme = t /\ ThemeFrame(t, p).previewed = p
  <2>1. ThemeFrame(t, p) \in Frame
    BY DEF Frame
  <2>. QED
    BY <2>1 DEF ThemeFrame, TellsExperience
<1>. QED
  BY <1>1, <1>2

LEMMA FrameHolds ==
  \A f \in Frame : /\ TellsExperience(f) => f.experience \in Experience
                   /\ ~TellsExperience(f) => f.theme \in Theme /\ f.previewed \in BOOLEAN
<1>. SUFFICES ASSUME NEW f \in Frame
              PROVE  /\ TellsExperience(f) => f.experience \in Experience
                     /\ ~TellsExperience(f) => f.theme \in Theme /\ f.previewed \in BOOLEAN
  OBVIOUS
<1>1. CASE \E e \in Experience : f = ExperienceFrame(e)
  BY <1>1, FramesAreKnown
<1>2. CASE \E t \in Theme, p \in BOOLEAN : f = ThemeFrame(t, p)
  <2>1. PICK t \in Theme, p \in BOOLEAN : f = ThemeFrame(t, p)
    BY <1>2
  <2>2. ~TellsExperience(f) /\ f.theme = t /\ f.previewed = p
    BY <2>1, FramesAreKnown
  <2>. QED
    BY <2>2
<1>. QED
  BY <1>1, <1>2 DEF Frame

LEMMA AppendTells ==
  ASSUME NEW fs \in Seq(Frame), NEW f \in Frame, NEW n \in 0..Len(fs), NEW e,
         IF TellsExperience(f) THEN f.experience = e ELSE LastTold(fs, e)
  PROVE  /\ Append(fs, f) \in Seq(Frame) /\ Len(Append(fs, f)) = Len(fs) + 1
         /\ ToldAfter(Append(fs, f), n) <=> ToldAfter(fs, n) \/ TellsExperience(f)
         /\ LastTold(Append(fs, f), e)
         /\ \A i \in 1..Len(Append(fs, f)) : Append(fs, f)[i] = IF i = Len(fs) + 1 THEN f ELSE fs[i]
<1>. DEFINE more == Append(fs, f)
<1>1. /\ more \in Seq(Frame) /\ Len(more) = Len(fs) + 1 /\ Len(fs) \in Nat
      /\ \A i \in 1..Len(fs) : more[i] = fs[i]
      /\ more[Len(fs) + 1] = f
  OBVIOUS
<1>. HIDE DEF more
<1>2. \A i \in 1..Len(more) : i = Len(fs) + 1 \/ i \in 1..Len(fs)
  BY <1>1
<1>3. ToldAfter(more, n) <=> ToldAfter(fs, n) \/ TellsExperience(f)
  <2>1. ASSUME ToldAfter(more, n) PROVE ToldAfter(fs, n) \/ TellsExperience(f)
    BY <1>1, <1>2, <2>1 DEF ToldAfter
  <2>2. ASSUME ToldAfter(fs, n) PROVE ToldAfter(more, n)
    <3>1. PICK i \in 1..Len(fs) : i > n /\ TellsExperience(fs[i])
      BY <2>2 DEF ToldAfter
    <3>2. i \in 1..Len(more) /\ more[i] = fs[i]
      BY <1>1
    <3>. QED
      BY <3>1, <3>2 DEF ToldAfter
  <2>3. ASSUME TellsExperience(f) PROVE ToldAfter(more, n)
    <3>1. Len(fs) + 1 \in 1..Len(more) /\ Len(fs) + 1 > n
      BY <1>1
    <3>. QED
      BY <1>1, <2>3, <3>1 DEF ToldAfter
  <2>. QED
    BY <2>1, <2>2, <2>3
<1>4. LastTold(more, e)
  <2>. SUFFICES ASSUME NEW i \in 1..Len(more), TellsExperience(more[i]),
                       \A j \in 1..Len(more) : j > i => ~TellsExperience(more[j])
                PROVE  more[i].experience = e
    BY DEF LastTold
  <2>1. CASE i = Len(fs) + 1
    BY <1>1, <2>1
  <2>2. CASE i \in 1..Len(fs)
    <3>1. Len(fs) + 1 \in 1..Len(more) /\ Len(fs) + 1 > i
      BY <1>1, <2>2
    <3>2. ~TellsExperience(f)
      BY <1>1, <3>1
    <3>3. \A j \in 1..Len(fs) : j > i => ~TellsExperience(fs[j])
      BY <1>1
    <3>. QED
      BY <1>1, <2>2, <3>2, <3>3 DEF LastTold
  <2>. QED
    BY <1>2, <2>1, <2>2
<1>5. \A i \in 1..Len(more) : more[i] = IF i = Len(fs) + 1 THEN f ELSE fs[i]
  BY <1>1, <1>2
<1>. QED
  BY <1>1, <1>3, <1>4, <1>5 DEF more

LEMMA TailTells ==
  ASSUME NEW fs \in Seq(Frame), fs # <<>>, NEW n \in Nat, NEW e, LastTold(fs, e)
  PROVE  /\ Tail(fs) \in Seq(Frame) /\ Len(Tail(fs)) = Len(fs) - 1 /\ Head(fs) \in Frame
         /\ Head(fs) = fs[1] /\ Len(fs) \in Nat /\ Len(fs) > 0
         /\ \A i \in 1..Len(Tail(fs)) : Tail(fs)[i] = fs[i + 1]
         /\ LastTold(Tail(fs), e)
         /\ TellsExperience(Head(fs)) /\ ~ToldAfter(Tail(fs), 0) => Head(fs).experience = e
         /\ ToldAfter(fs, n + 1) => ToldAfter(Tail(fs), n)
         /\ ToldAfter(fs, 0) => TellsExperience(Head(fs)) \/ ToldAfter(Tail(fs), 0)
         /\ ToldAfter(Tail(fs), 0) => ToldAfter(fs, 0)
<1>. DEFINE less == Tail(fs)
<1>1. /\ less \in Seq(Frame) /\ Len(less) = Len(fs) - 1 /\ Head(fs) \in Frame
      /\ Head(fs) = fs[1] /\ Len(fs) \in Nat /\ Len(fs) > 0
      /\ \A i \in 1..Len(less) : less[i] = fs[i + 1]
  OBVIOUS
<1>. HIDE DEF less
<1>2. \A i \in 1..Len(less) : i + 1 \in 1..Len(fs) /\ less[i] = fs[i + 1]
  BY <1>1
<1>3. \A i \in 2..Len(fs) : i - 1 \in 1..Len(less) /\ less[i - 1] = fs[i]
  <2>. SUFFICES ASSUME NEW i \in 2..Len(fs) PROVE i - 1 \in 1..Len(less) /\ less[i - 1] = fs[i]
    OBVIOUS
  <2>1. i - 1 \in 1..Len(less) /\ (i - 1) + 1 = i
    BY <1>1
  <2>. QED
    BY <1>2, <2>1
<1>4. LastTold(less, e)
  <2>. SUFFICES ASSUME NEW i \in 1..Len(less), TellsExperience(less[i]),
                       \A j \in 1..Len(less) : j > i => ~TellsExperience(less[j])
                PROVE  less[i].experience = e
    BY DEF LastTold
  <2>1. \A j \in 1..Len(fs) : j > i + 1 => ~TellsExperience(fs[j])
    <3>. SUFFICES ASSUME NEW j \in 1..Len(fs), j > i + 1 PROVE ~TellsExperience(fs[j])
      OBVIOUS
    <3>1. j \in 2..Len(fs) /\ j - 1 > i
      BY <1>1
    <3>. QED
      BY <1>3, <3>1
  <2>. QED
    BY <1>2, <2>1 DEF LastTold
<1>5. ASSUME TellsExperience(Head(fs)), ~ToldAfter(less, 0) PROVE Head(fs).experience = e
  <2>1. \A j \in 1..Len(fs) : j > 1 => ~TellsExperience(fs[j])
    <3>. SUFFICES ASSUME NEW j \in 1..Len(fs), j > 1 PROVE ~TellsExperience(fs[j])
      OBVIOUS
    <3>1. j \in 2..Len(fs)
      BY <1>1
    <3>2. j - 1 \in 1..Len(less) /\ less[j - 1] = fs[j] /\ j - 1 > 0
      BY <1>3, <3>1
    <3>. QED
      BY <1>5, <3>2 DEF ToldAfter
  <2>2. 1 \in 1..Len(fs)
    BY <1>1
  <2>. QED
    BY <1>1, <1>5, <2>1, <2>2 DEF LastTold
<1>6. ASSUME NEW m \in Nat, ToldAfter(fs, m + 1) PROVE ToldAfter(less, m)
  <2>1. PICK i \in 1..Len(fs) : i > m + 1 /\ TellsExperience(fs[i])
    BY <1>6 DEF ToldAfter
  <2>2. i \in 2..Len(fs) /\ i - 1 > m
    BY <1>1, <2>1
  <2>. QED
    BY <1>3, <2>1, <2>2 DEF ToldAfter
<1>7. ASSUME ToldAfter(fs, 0) PROVE TellsExperience(Head(fs)) \/ ToldAfter(less, 0)
  <2>1. PICK i \in 1..Len(fs) : TellsExperience(fs[i])
    BY <1>7 DEF ToldAfter
  <2>2. CASE i = 1
    BY <1>1, <2>1, <2>2
  <2>3. CASE i # 1
    <3>1. i \in 2..Len(fs) /\ i - 1 > 0
      BY <1>1, <2>3
    <3>. QED
      BY <1>3, <2>1, <3>1 DEF ToldAfter
  <2>. QED
    BY <2>2, <2>3
<1>8. ASSUME ToldAfter(less, 0) PROVE ToldAfter(fs, 0)
  <2>1. PICK i \in 1..Len(less) : TellsExperience(less[i])
    BY <1>8 DEF ToldAfter
  <2>2. i + 1 \in 1..Len(fs) /\ i + 1 > 0 /\ less[i] = fs[i + 1]
    BY <1>2
  <2>. QED
    BY <2>1, <2>2 DEF ToldAfter
<1>. QED
  BY <1>1, <1>4, <1>5, <1>6, <1>7, <1>8 DEF less

LEMMA NothingTold ==
  /\ <<>> \in Seq(Frame) /\ Len(<<>>) = 0 /\ \A n \in Nat : ~ToldAfter(<<>>, n)
BY DEF ToldAfter

\* The waiting calls by their state.
LEMMA WaitingIsKnown ==
  ASSUME NEW w \in Waiting
  PROVE  /\ w.at \in {"rest", "sent", "answered"}
         /\ w.at = "sent" => /\ w.request \in TabRequest /\ w.request.experience \in Experience
                             /\ w.request.op \in {"preview", "commit"} => w.request.theme \in Theme
         /\ w.at = "answered" => w.ok \in BOOLEAN /\ w.frame \in Frame /\ w.ahead \in Nat
<1>1. CASE w = NotAsking
  BY <1>1 DEF NotAsking
<1>2. CASE w \in [at : {"sent"}, request : TabRequest]
  <2>1. w.at = "sent" /\ w.request \in TabRequest
    BY <1>2
  <2>2. /\ w.request.experience \in Experience
        /\ w.request.op \in {"preview", "commit"} => w.request.theme \in Theme
    BY <2>1 DEF TabRequest
  <2>. QED
    BY <2>1, <2>2
<1>3. CASE w \in [at : {"answered"}, ok : BOOLEAN, frame : Frame, ahead : Nat]
  <2>1. w.at = "answered" /\ w.ok \in BOOLEAN /\ w.frame \in Frame /\ w.ahead \in Nat
    BY <1>3
  <2>. QED
    BY <2>1
<1>. QED
  BY <1>1, <1>2, <1>3 DEF Waiting

\* A frame that says what holds now reaches every stream, and lets every call
\* wait on.
LEMMA BroadcastStep ==
  ASSUME PresentationInv, NEW f \in Frame, BroadcastFrame(f), NEW x \in Tab,
         experience' \in Experience, everKept \subseteq everKept', OfKept(f, everKept'),
         IF TellsExperience(f) THEN experience' = f.experience ELSE experience' = experience,
         UNCHANGED <<shown, streaming, overtaken>>
  PROVE  /\ frames' \in [Tab -> Seq(Frame)] /\ StreamInv(x)'
         /\ asking'[x] = asking[x] => AnswerInv(x)'
<1>. USE PresentationAssumption
<1>1. /\ frames \in [Tab -> Seq(Frame)] /\ asking \in [Tab -> Waiting]
      /\ StreamInv(x) /\ AnswerInv(x)
  BY DEF PresentationInv, TabsInv
<1>2. /\ \A c \in streaming : Len(frames[c]) < MaxFrames
      /\ frames' = [c \in Tab |-> IF c \in streaming THEN Append(frames[c], f) ELSE frames[c]]
  BY DEF BroadcastFrame
<1>3. frames' \in [Tab -> Seq(Frame)]
  BY <1>1, <1>2
<1>4. CASE x \in streaming
  <2>1. frames'[x] = Append(frames[x], f) /\ frames[x] \in Seq(Frame) /\ Len(frames[x]) < MaxFrames
        /\ Len(frames[x]) \in Nat
    BY <1>1, <1>2, <1>4
  <2>2. IF TellsExperience(f) THEN f.experience = experience' ELSE LastTold(frames[x], experience')
    BY <1>1, <1>4 DEF StreamInv
  <2>3. ASSUME NEW n \in 0..Len(frames[x])
        PROVE  /\ Len(frames'[x]) = Len(frames[x]) + 1
               /\ ToldAfter(frames'[x], n) <=> ToldAfter(frames[x], n) \/ TellsExperience(f)
               /\ LastTold(frames'[x], experience')
               /\ \A i \in 1..Len(frames'[x]) :
                    frames'[x][i] = IF i = Len(frames[x]) + 1 THEN f ELSE frames[x][i]
    <3>1. /\ Len(Append(frames[x], f)) = Len(frames[x]) + 1
          /\ ToldAfter(Append(frames[x], f), n) <=> ToldAfter(frames[x], n) \/ TellsExperience(f)
          /\ LastTold(Append(frames[x], f), experience')
          /\ \A i \in 1..Len(Append(frames[x], f)) :
               Append(frames[x], f)[i] = IF i = Len(frames[x]) + 1 THEN f ELSE frames[x][i]
      <4>1. frames[x] \in Seq(Frame) /\ f \in Frame /\ n \in 0..Len(frames[x])
        BY <2>1
      <4>. QED
        BY ONLY <2>2, <4>1, AppendTells
    <3>. QED
      BY <2>1, <3>1
  <2>4. 0 \in 0..Len(frames[x])
    BY <2>1
  <2>5. Len(frames'[x]) <= MaxFrames
    BY <2>1, <2>3, <2>4
  <2>6. \A i \in 1..Len(frames'[x]) : OfKept(frames'[x][i], everKept')
    <3>. SUFFICES ASSUME NEW i \in 1..Len(frames'[x]) PROVE OfKept(frames'[x][i], everKept')
      OBVIOUS
    <3>1. CASE i = Len(frames[x]) + 1
      BY <2>3, <2>4, <3>1
    <3>2. CASE i # Len(frames[x]) + 1
      <4>1. i \in 1..Len(frames[x]) /\ frames'[x][i] = frames[x][i]
        BY <2>1, <2>3, <2>4, <3>2
      <4>. QED
        BY <1>1, <4>1 DEF StreamInv, OfKept
    <3>. QED
      BY <3>1, <3>2
  <2>7. x \notin overtaken /\ ~ToldAfter(frames'[x], 0) => shown[x].experience = experience'
    BY <1>1, <1>4, <2>3, <2>4 DEF StreamInv
  <2>8. shown[x].committed \in everKept'
    BY <1>1 DEF StreamInv
  <2>9. StreamInv(x)'
    BY <1>4, <2>3, <2>4, <2>5, <2>6, <2>7, <2>8 DEF StreamInv
  <2>10. ASSUME asking'[x] = asking[x] PROVE AnswerInv(x)'
    <3>. SUFFICES ASSUME asking[x].at = "answered" PROVE AnswerInv(x)'
      BY <2>10 DEF AnswerInv
    <3>. DEFINE w == asking[x]
    <3>1. w.ahead \in Nat /\ w.ahead <= Len(frames[x]) /\ w.ahead \in 0..Len(frames[x])
      BY <1>1, <2>1, WaitingIsKnown DEF AnswerInv
    <3>2. w.ahead <= Len(frames'[x])
      BY <2>1, <2>3, <3>1
    <3>3. w.ok => OfKept(w.frame, everKept')
      BY <1>1 DEF AnswerInv, OfKept
    <3>4. TellsExperience(w.frame) =>
            w.frame.experience = experience' \/ ToldAfter(frames'[x], w.ahead)
            \/ (w.ahead = 0 /\ x \in overtaken)
      <4>1. ToldAfter(frames'[x], w.ahead) <=> ToldAfter(frames[x], w.ahead) \/ TellsExperience(f)
        BY <2>3, <3>1
      <4>2. TellsExperience(w.frame) =>
              w.frame.experience = experience \/ ToldAfter(frames[x], w.ahead)
              \/ (w.ahead = 0 /\ x \in overtaken)
        BY <1>1, <1>4 DEF AnswerInv
      <4>. QED
        BY <4>1, <4>2
    <3>. QED
      BY <2>10, <3>2, <3>3, <3>4 DEF AnswerInv
  <2>. QED
    BY <1>3, <2>9, <2>10
<1>5. CASE x \notin streaming
  <2>1. frames'[x] = frames[x]
    BY <1>2, <1>5
  <2>2. StreamInv(x)'
    BY <1>1, <1>5, <2>1 DEF StreamInv, OfKept
  <2>3. asking'[x] = asking[x] => AnswerInv(x)'
    BY <1>1, <1>5, <2>1 DEF AnswerInv, OfKept
  <2>. QED
    BY <1>3, <2>2, <2>3
<1>. QED
  BY <1>4, <1>5

\* The answer to a call is the frame that was sent with it, or says what holds.
LEMMA AnswerStep ==
  ASSUME asking \in [Tab -> Waiting], frames' \in [Tab -> Seq(Frame)], NEW c \in Tab,
         NEW ok \in BOOLEAN, NEW f \in Frame, Answers(c, ok, f), ok => OfKept(f, everKept'),
         TellsExperience(f) => f.experience = experience'
  PROVE  /\ asking' \in [Tab -> Waiting] /\ AnswerInv(c)'
         /\ \A x \in Tab \ {c} : asking'[x] = asking[x]
<1>1. Len(frames'[c]) \in Nat
  OBVIOUS
<1>2. PICK w \in Waiting : w = [at |-> "answered", ok |-> ok, frame |-> f, ahead |-> Len(frames'[c])]
  <2>1. [at |-> "answered", ok |-> ok, frame |-> f, ahead |-> Len(frames'[c])]
          \in [at : {"answered"}, ok : BOOLEAN, frame : Frame, ahead : Nat]
    BY <1>1
  <2>. QED
    BY <2>1 DEF Waiting
<1>3. asking' = [asking EXCEPT ![c] = w]
  BY <1>2 DEF Answers
<1>4. asking'[c] = w /\ w.ok = ok /\ w.frame = f /\ w.ahead = Len(frames'[c])
  BY <1>2, <1>3
<1>5. AnswerInv(c)'
  BY <1>1, <1>4 DEF AnswerInv
<1>. QED
  BY <1>3, <1>5

LEMMA PresentationStarts == PresentationInit => PresentationInv
<1>. SUFFICES ASSUME PresentationInit PROVE PresentationInv
  OBVIOUS
<1>1. /\ experience = DefaultExperience /\ themeOf = [e \in Experience |-> DefaultTheme]
      /\ shown = [c \in Tab |-> [experience |-> DefaultExperience, committed |-> DefaultTheme,
                                 previewed |-> "none"]]
      /\ streaming = {} /\ frames = [c \in Tab |-> <<>>] /\ asking = [c \in Tab |-> NotAsking]
      /\ changes = 0 /\ promised = themeOf /\ everKept = {DefaultTheme} /\ overtaken = {}
  BY DEF PresentationInit
<1>2. SettingsInv
  BY <1>1, PresentationAssumption DEF SettingsInv
<1>3. TabsInv
  BY <1>1, PresentationAssumption, NothingTold DEF TabsInv, Waiting
<1>4. \A c \in Tab : StreamInv(c)
  BY <1>1, PresentationAssumption, NothingTold DEF StreamInv
<1>5. \A c \in Tab : AnswerInv(c)
  BY <1>1 DEF AnswerInv, NotAsking
<1>. QED
  BY <1>2, <1>3, <1>4, <1>5 DEF PresentationInv

\* A handler that sends a frame to all and its answer to the caller.
LEMMA HandlerStep ==
  ASSUME PresentationInv, SettingsInv', NEW c \in Tab, NEW f \in Frame, BroadcastFrame(f),
         Answers(c, TRUE, f), everKept \subseteq everKept', OfKept(f, everKept'),
         IF TellsExperience(f) THEN experience' = f.experience ELSE experience' = experience,
         UNCHANGED <<shown, streaming, overtaken>>
  PROVE  PresentationInv'
<1>1. /\ asking \in [Tab -> Waiting]
      /\ shown \in [Tab -> [experience : Experience, committed : Theme,
                            previewed : Theme \cup {"none"}]]
  BY DEF PresentationInv, TabsInv
<1>2. experience' \in Experience
  BY DEF SettingsInv
<1>3. ASSUME NEW x \in Tab
      PROVE  /\ frames' \in [Tab -> Seq(Frame)] /\ StreamInv(x)'
             /\ asking'[x] = asking[x] => AnswerInv(x)'
  BY <1>2, BroadcastStep
<1>4. frames' \in [Tab -> Seq(Frame)]
  BY <1>3
<1>5. /\ asking' \in [Tab -> Waiting] /\ AnswerInv(c)'
      /\ \A x \in Tab \ {c} : asking'[x] = asking[x]
  BY <1>1, <1>4, AnswerStep, TRUE \in BOOLEAN
<1>6. \A x \in Tab : AnswerInv(x)'
  BY <1>3, <1>5
<1>7. TabsInv'
  BY <1>1, <1>4, <1>5 DEF TabsInv
<1>. QED
  BY <1>3, <1>6, <1>7 DEF PresentationInv

\* One that answers the caller alone.
LEMMA ReplyStep ==
  ASSUME PresentationInv, NEW c \in Tab, NEW f \in Frame, NEW ok \in BOOLEAN,
         Answers(c, ok, f), ok => OfKept(f, everKept), TellsExperience(f) => f.experience = experience,
         UNCHANGED <<experience, themeOf, promised, everKept>>,
         UNCHANGED <<frames, shown, streaming, changes, overtaken>>
  PROVE  PresentationInv'
<1>1. SettingsInv /\ TabsInv /\ \A x \in Tab : StreamInv(x) /\ AnswerInv(x)
  BY DEF PresentationInv
<1>2. asking \in [Tab -> Waiting] /\ frames' \in [Tab -> Seq(Frame)]
  BY <1>1 DEF TabsInv
<1>3. /\ asking' \in [Tab -> Waiting] /\ AnswerInv(c)'
      /\ \A x \in Tab \ {c} : asking'[x] = asking[x]
  BY <1>2, AnswerStep
<1>4. \A x \in Tab : StreamInv(x)'
  BY <1>1 DEF StreamInv
<1>5. \A x \in Tab \ {c} : AnswerInv(x)'
  BY <1>1, <1>3 DEF AnswerInv
<1>6. TabsInv'
  BY <1>1, <1>3 DEF TabsInv
<1>7. SettingsInv'
  BY <1>1 DEF SettingsInv
<1>. QED
  BY <1>3, <1>4, <1>5, <1>6, <1>7 DEF PresentationInv

LEMMA SelectStep ==
  ASSUME PresentationInv, NEW c \in Tab, HandleSelectWorkspaceExperience(c)
  PROVE  PresentationInv'
<1>. DEFINE e == asking[c].request.experience
<1>1. SettingsInv /\ asking[c] \in Waiting /\ asking[c].at = "sent"
  BY DEF PresentationInv, TabsInv, HandleSelectWorkspaceExperience
<1>2. e \in Experience
  BY <1>1, WaitingIsKnown
<1>3. UNCHANGED <<shown, streaming, changes, promised, everKept, overtaken>>
  BY DEF HandleSelectWorkspaceExperience
<1>. HIDE DEF e
<1>4. CASE /\ SelectExperience(e) /\ BroadcastFrame(ExperienceFrame(e))
           /\ Answers(c, TRUE, ExperienceFrame(e))
  <2>1. experience' = e /\ themeOf' = themeOf
    BY <1>4 DEF SelectExperience
  <2>2. SettingsInv'
    BY <1>1, <1>2, <1>3, <2>1 DEF SettingsInv
  <2>3. PICK f \in Frame : f = ExperienceFrame(e) /\ TellsExperience(f) /\ f.experience = e
    BY <1>2, FramesAreKnown
  <2>4. OfKept(f, everKept')
    BY <2>3 DEF OfKept
  <2>5. BroadcastFrame(f) /\ Answers(c, TRUE, f)
    BY <1>4, <2>3
  <2>. QED
    BY <1>3, <2>1, <2>2, <2>3, <2>4, <2>5, HandlerStep
<1>5. CASE /\ UNCHANGED <<experience, themeOf, frames>>
           /\ Answers(c, FALSE, ExperienceFrame(experience))
  <2>1. PICK f \in Frame : f = ExperienceFrame(experience) /\ f.experience = experience
    BY <1>1, FramesAreKnown DEF SettingsInv
  <2>2. Answers(c, FALSE, f)
    BY <1>5, <2>1
  <2>. QED
    BY <1>3, <1>5, <2>1, <2>2, ReplyStep, FALSE \in BOOLEAN
<1>. QED
  BY <1>4, <1>5 DEF HandleSelectWorkspaceExperience, e

LEMMA ThemeStep ==
  ASSUME PresentationInv, NEW c \in Tab, HandleTheme(c)
  PROVE  PresentationInv'
<1>. DEFINE q == asking[c].request
<1>1. SettingsInv /\ asking[c] \in Waiting /\ asking[c].at = "sent" /\ q.op \in {"preview", "commit"}
  BY DEF PresentationInv, TabsInv, HandleTheme
<1>2. q.experience \in Experience /\ q.theme \in Theme
  BY <1>1, WaitingIsKnown
<1>3. UNCHANGED <<shown, streaming, changes, overtaken>>
  BY DEF HandleTheme
<1>4. \/ /\ q.op = "commit" /\ CommitTheme(q.experience, q.theme)
         /\ BroadcastFrame(ThemeFrame(q.theme, q.op = "preview"))
         /\ Answers(c, TRUE, ThemeFrame(q.theme, q.op = "preview"))
      \/ /\ q.op = "preview" /\ UNCHANGED settingsVars
         /\ BroadcastFrame(ThemeFrame(q.theme, q.op = "preview"))
         /\ Answers(c, TRUE, ThemeFrame(q.theme, q.op = "preview"))
      \/ /\ UNCHANGED <<settingsVars, frames>>
         /\ Answers(c, FALSE, ThemeFrame(q.theme, q.op = "preview"))
  BY DEF HandleTheme
<1>5. PICK p \in BOOLEAN : p = (q.op = "preview")
  <2>1. (q.op = "preview") \in BOOLEAN
    OBVIOUS
  <2>. QED
    BY <2>1
<1>6. PICK f \in Frame : /\ f = ThemeFrame(q.theme, p) /\ ~TellsExperience(f)
                         /\ f.theme = q.theme /\ f.previewed = p
  BY <1>2, FramesAreKnown
<1>7. f = ThemeFrame(q.theme, q.op = "preview")
  BY <1>5, <1>6
<1>. HIDE DEF q
<1>8. CASE q.op = "commit" /\ CommitTheme(q.experience, q.theme) /\ BroadcastFrame(f)
           /\ Answers(c, TRUE, f)
  <2>1. /\ themeOf' = [themeOf EXCEPT ![q.experience] = q.theme]
        /\ promised' = [promised EXCEPT ![q.experience] = q.theme]
        /\ everKept' = everKept \cup {q.theme} /\ experience' = experience
    BY <1>8 DEF CommitTheme
  <2>2. SettingsInv'
    BY <1>1, <1>2, <1>3, <2>1 DEF SettingsInv
  <2>3. OfKept(f, everKept')
    BY <1>6, <2>1 DEF OfKept
  <2>4. everKept \subseteq everKept'
    BY <2>1
  <2>. QED
    BY <1>3, <1>6, <1>8, <2>1, <2>2, <2>3, <2>4, HandlerStep
<1>9. CASE q.op = "preview" /\ UNCHANGED settingsVars /\ BroadcastFrame(f) /\ Answers(c, TRUE, f)
  <2>1. UNCHANGED <<experience, themeOf, promised, everKept>>
    BY <1>9 DEF settingsVars
  <2>2. SettingsInv'
    BY <1>1, <1>3, <2>1 DEF SettingsInv
  <2>3. OfKept(f, everKept')
    BY <1>5, <1>6, <1>9 DEF OfKept
  <2>. QED
    BY <1>3, <1>6, <1>9, <2>1, <2>2, <2>3, HandlerStep
<1>10. CASE UNCHANGED <<settingsVars, frames>> /\ Answers(c, FALSE, f)
  <2>1. UNCHANGED <<experience, themeOf, promised, everKept>> /\ UNCHANGED frames
    BY <1>10 DEF settingsVars
  <2>. QED
    BY <1>3, <1>6, <1>10, <2>1, ReplyStep, FALSE \in BOOLEAN
<1>. QED
  BY <1>4, <1>7, <1>8, <1>9, <1>10

LEMMA GetStep ==
  ASSUME PresentationInv, NEW c \in Tab, HandleGet(c)
  PROVE  PresentationInv'
<1>. DEFINE q == asking[c].request
<1>1. SettingsInv /\ asking[c] \in Waiting /\ asking[c].at = "sent"
  BY DEF PresentationInv, TabsInv, HandleGet
<1>2. q.experience \in Experience
  BY <1>1, WaitingIsKnown
<1>3. /\ UNCHANGED <<experience, themeOf, promised, everKept>>
      /\ UNCHANGED <<frames, shown, streaming, changes, overtaken>>
  BY DEF HandleGet, settingsVars
<1>. DEFINE f == IF q.op = "getTheme" THEN ThemeFrame(themeOf[q.experience], FALSE)
                 ELSE ExperienceFrame(experience)
<1>4. Answers(c, TRUE, f)
  BY DEF HandleGet
<1>5. themeOf[q.experience] \in Theme /\ themeOf[q.experience] \in everKept
      /\ experience \in Experience
  BY <1>1, <1>2 DEF SettingsInv
<1>. HIDE DEF q
<1>6. f \in Frame /\ OfKept(f, everKept) /\ (TellsExperience(f) => f.experience = experience)
  BY <1>5, FramesAreKnown, FALSE \in BOOLEAN DEF OfKept
<1>. HIDE DEF f
<1>. QED
  BY <1>3, <1>4, <1>6, ReplyStep, TRUE \in BOOLEAN

\* A step that sends nothing: of the tabs it touches only the caller's.
LEMMA OnlyCaller ==
  ASSUME PresentationInv, NEW c \in Tab, TabsInv', StreamInv(c)', AnswerInv(c)',
         UNCHANGED <<experience, themeOf, promised, everKept>>, changes' \in 0..MaxChanges,
         \A x \in Tab \ {c} : /\ asking'[x] = asking[x] /\ shown'[x] = shown[x]
                              /\ frames'[x] = frames[x]
                              /\ (x \in streaming' <=> x \in streaming)
                              /\ (x \in overtaken' <=> x \in overtaken),
         streaming' \cup overtaken' \subseteq Tab
  PROVE  PresentationInv'
<1>1. SettingsInv /\ \A x \in Tab : StreamInv(x) /\ AnswerInv(x)
  BY DEF PresentationInv
<1>2. SettingsInv'
  BY <1>1 DEF SettingsInv
<1>3. ASSUME NEW x \in Tab \ {c} PROVE StreamInv(x)' /\ AnswerInv(x)'
  <2>1. StreamInv(x)'
    BY <1>1 DEF StreamInv
  <2>2. AnswerInv(x)'
    BY <1>1 DEF AnswerInv
  <2>. QED
    BY <2>1, <2>2
<1>. QED
  BY <1>2, <1>3 DEF PresentationInv

LEMMA AskStep ==
  ASSUME PresentationInv, NEW c \in Tab, NEW r \in TabRequest, Ask(c, r)
  PROVE  PresentationInv'
<1>1. /\ SettingsInv /\ TabsInv /\ StreamInv(c) /\ AnswerInv(c)
  BY DEF PresentationInv
<1>2. PICK w \in Waiting : w = [at |-> "sent", request |-> r]
  BY DEF Waiting
<1>3. /\ changes' = changes + 1 /\ changes < MaxChanges /\ asking' = [asking EXCEPT ![c] = w]
      /\ UNCHANGED <<experience, themeOf, promised, everKept>>
      /\ UNCHANGED <<shown, streaming, frames, overtaken>>
  BY <1>2 DEF Ask, settingsVars
<1>4. changes' \in 0..MaxChanges
  BY <1>1, <1>3, PresentationAssumption DEF SettingsInv
<1>5. TabsInv' /\ asking'[c] = w
  BY <1>1, <1>3 DEF TabsInv
<1>6. AnswerInv(c)'
  BY <1>2, <1>5 DEF AnswerInv
<1>7. StreamInv(c)'
  BY <1>1, <1>3 DEF StreamInv
<1>8. \A x \in Tab \ {c} : asking'[x] = asking[x]
  BY <1>1, <1>3 DEF TabsInv
<1>9. streaming' \cup overtaken' \subseteq Tab
  BY <1>1, <1>3 DEF SettingsInv
<1>. QED
  BY <1>3, <1>4, <1>5, <1>6, <1>7, <1>8, <1>9, OnlyCaller

LEMMA AppliedTo ==
  ASSUME NEW s \in [experience : Experience, committed : Theme, previewed : Theme \cup {"none"}],
         NEW f \in Frame
  PROVE  /\ Applied(s, f) \in [experience : Experience, committed : Theme,
                               previewed : Theme \cup {"none"}]
         /\ Applied(s, f).experience = IF TellsExperience(f) THEN f.experience ELSE s.experience
         /\ Applied(s, f).committed = IF TellsExperience(f) \/ f.previewed THEN s.committed
                                      ELSE f.theme
<1>1. CASE TellsExperience(f)
  <2>1. f.experience \in Experience /\ Applied(s, f) = [s EXCEPT !.experience = f.experience]
    BY <1>1, FrameHolds DEF Applied, TellsExperience
  <2>. QED
    BY <1>1, <2>1
<1>2. CASE ~TellsExperience(f) /\ f.previewed
  <2>1. f.theme \in Theme /\ Applied(s, f) = [s EXCEPT !.previewed = f.theme]
    BY <1>2, FrameHolds DEF Applied, TellsExperience
  <2>. QED
    BY <1>2, <2>1
<1>3. CASE ~TellsExperience(f) /\ ~f.previewed
  <2>1. f.theme \in Theme /\ Applied(s, f) = [s EXCEPT !.committed = f.theme, !.previewed = "none"]
    BY <1>3, FrameHolds DEF Applied, TellsExperience
  <2>. QED
    BY <1>3, <2>1
<1>. QED
  BY <1>1, <1>2, <1>3

LEMMA ArrivalStep ==
  ASSUME PresentationInv, NEW c \in Tab, AnswerArrives(c)
  PROVE  PresentationInv'
<1>. DEFINE f == asking[c].frame
            applies == asking[c].ok \/ asking[c].frame.kind = "experience"
<1>1. SettingsInv /\ TabsInv /\ StreamInv(c) /\ AnswerInv(c) /\ asking[c] \in Waiting
  BY DEF PresentationInv, TabsInv
<1>2. /\ asking[c].at = "answered" /\ asking' = [asking EXCEPT ![c] = NotAsking]
      /\ shown' = [shown EXCEPT ![c] = IF applies THEN Applied(shown[c], f) ELSE shown[c]]
      /\ UNCHANGED <<experience, themeOf, promised, everKept>>
      /\ UNCHANGED <<streaming, frames, changes, overtaken>>
  BY DEF AnswerArrives, settingsVars
<1>3. f \in Frame /\ asking[c].ok \in BOOLEAN
  BY <1>1, <1>2, WaitingIsKnown
<1>4. shown[c] \in [experience : Experience, committed : Theme, previewed : Theme \cup {"none"}]
  BY <1>1 DEF TabsInv
<1>5. /\ asking[c].ok => OfKept(f, everKept)
      /\ c \in streaming /\ TellsExperience(f) => \/ f.experience = experience
                                                  \/ ToldAfter(frames[c], asking[c].ahead)
                                                  \/ c \in overtaken
  BY <1>1, <1>2 DEF AnswerInv
<1>6. ToldAfter(frames[c], asking[c].ahead) => ToldAfter(frames[c], 0)
  BY <1>1, <1>2, WaitingIsKnown DEF ToldAfter
<1>7. applies <=> asking[c].ok \/ TellsExperience(f)
  BY DEF TellsExperience
<1>. HIDE DEF f, applies
<1>8. /\ shown'[c] = IF applies THEN Applied(shown[c], f) ELSE shown[c]
      /\ shown'[c] \in [experience : Experience, committed : Theme, previewed : Theme \cup {"none"}]
  BY <1>1, <1>2, <1>3, <1>4, AppliedTo DEF TabsInv
<1>9. shown'[c].committed \in everKept
  <2>1. CASE applies
    BY <1>1, <1>3, <1>4, <1>5, <1>7, <1>8, <2>1, AppliedTo DEF StreamInv, OfKept
  <2>2. CASE ~applies
    BY <1>1, <1>8, <2>2 DEF StreamInv
  <2>. QED
    BY <2>1, <2>2
<1>10. c \in streaming \ overtaken /\ ~ToldAfter(frames[c], 0) => shown'[c].experience = experience
  <2>1. CASE applies
    BY <1>1, <1>3, <1>4, <1>5, <1>6, <1>8, <2>1, AppliedTo DEF StreamInv
  <2>2. CASE ~applies
    BY <1>1, <1>8, <2>2 DEF StreamInv
  <2>. QED
    BY <2>1, <2>2
<1>11. StreamInv(c)'
  BY <1>1, <1>2, <1>9, <1>10 DEF StreamInv
<1>12. TabsInv'
  BY <1>1, <1>2, <1>8 DEF TabsInv, Waiting
<1>13. AnswerInv(c)'
  BY <1>1, <1>2 DEF TabsInv, AnswerInv, NotAsking
<1>14. \A x \in Tab \ {c} : asking'[x] = asking[x] /\ shown'[x] = shown[x]
  BY <1>1, <1>2 DEF TabsInv
<1>15. streaming' \cup overtaken' \subseteq Tab /\ changes' \in 0..MaxChanges
  BY <1>1, <1>2 DEF SettingsInv
<1>. QED
  BY <1>2, <1>11, <1>12, <1>13, <1>14, <1>15, OnlyCaller

LEMMA ReadStep ==
  ASSUME PresentationInv, NEW c \in Tab, ReadFrame(c)
  PROVE  PresentationInv'
<1>. DEFINE fs == frames[c]
            f == Head(frames[c])
            waits == asking[c].at = "answered"
<1>1. SettingsInv /\ TabsInv /\ StreamInv(c) /\ AnswerInv(c) /\ asking[c] \in Waiting
      /\ fs \in Seq(Frame)
  BY DEF PresentationInv, TabsInv
<1>2. /\ fs # <<>> /\ frames' = [frames EXCEPT ![c] = Tail(fs)]
      /\ shown' = [shown EXCEPT ![c] = Applied(shown[c], f)]
      /\ asking' = IF waits /\ asking[c].ahead > 0
                   THEN [asking EXCEPT ![c].ahead = @ - 1] ELSE asking
      /\ overtaken' = IF f.kind # "experience" THEN overtaken
                      ELSE IF waits /\ asking[c].ahead = 0 THEN overtaken \cup {c}
                      ELSE overtaken \ {c}
      /\ UNCHANGED <<experience, themeOf, promised, everKept>> /\ UNCHANGED <<streaming, changes>>
  BY DEF ReadFrame, settingsVars
<1>3. c \in streaming /\ LastTold(fs, experience)
  BY <1>1, <1>2 DEF StreamInv
<1>4. ASSUME NEW n \in Nat
      PROVE  /\ Tail(fs) \in Seq(Frame) /\ Len(Tail(fs)) = Len(fs) - 1 /\ f \in Frame
             /\ f = fs[1] /\ Len(fs) \in Nat /\ Len(fs) > 0
             /\ \A i \in 1..Len(Tail(fs)) : Tail(fs)[i] = fs[i + 1]
             /\ LastTold(Tail(fs), experience)
             /\ TellsExperience(f) /\ ~ToldAfter(Tail(fs), 0) => f.experience = experience
             /\ ToldAfter(fs, n + 1) => ToldAfter(Tail(fs), n)
             /\ ToldAfter(fs, 0) => TellsExperience(f) \/ ToldAfter(Tail(fs), 0)
             /\ ToldAfter(Tail(fs), 0) => ToldAfter(fs, 0)
  BY <1>1, <1>2, <1>3, TailTells
<1>5. 0 \in Nat
  OBVIOUS
<1>6. shown[c] \in [experience : Experience, committed : Theme, previewed : Theme \cup {"none"}]
  BY <1>1 DEF TabsInv
<1>7. TellsExperience(f) <=> f.kind = "experience"
  BY DEF TellsExperience
<1>8. frames'[c] = Tail(fs)
  BY <1>1, <1>2 DEF TabsInv
<1>9. /\ \A i \in 1..Len(fs) : OfKept(fs[i], everKept)
      /\ Len(fs) <= MaxFrames /\ shown[c].committed \in everKept
      /\ c \notin overtaken /\ ~ToldAfter(fs, 0) => shown[c].experience = experience
  BY <1>1, <1>3 DEF StreamInv
<1>10. waits => asking[c].ahead \in Nat
  BY <1>1, WaitingIsKnown
<1>11. waits => /\ asking[c].ahead <= Len(fs)
                /\ asking[c].ok => OfKept(asking[c].frame, everKept)
                /\ TellsExperience(asking[c].frame) =>
                     \/ asking[c].frame.experience = experience
                     \/ ToldAfter(fs, asking[c].ahead)
                     \/ asking[c].ahead = 0 /\ c \in overtaken
  BY <1>1, <1>3 DEF AnswerInv
<1>. HIDE DEF fs, f, waits
<1>12. /\ shown'[c] = Applied(shown[c], f)
       /\ shown'[c] \in [experience : Experience, committed : Theme, previewed : Theme \cup {"none"}]
  BY <1>1, <1>2, <1>4, <1>5, <1>6, AppliedTo DEF TabsInv
<1>13. OfKept(f, everKept)
  <2>1. 1 \in 1..Len(fs)
    BY <1>4, <1>5
  <2>. QED
    BY <1>4, <1>5, <1>9, <2>1
<1>14. shown'[c].committed \in everKept
  <2>1. f \in Frame
    BY <1>4, <1>5
  <2>2. shown'[c].committed = IF TellsExperience(f) \/ f.previewed THEN shown[c].committed
                              ELSE f.theme
    BY <1>6, <1>12, <2>1, AppliedTo
  <2>. QED
    BY <1>9, <1>13, <2>2 DEF OfKept
<1>15. c \notin overtaken' /\ ~ToldAfter(Tail(fs), 0) => shown'[c].experience = experience
  <2>0. f \in Frame
    BY <1>4, <1>5
  <2>1. shown'[c].experience = IF TellsExperience(f) THEN f.experience ELSE shown[c].experience
    BY <1>6, <1>12, <2>0, AppliedTo
  <2>2. CASE TellsExperience(f)
    BY <1>4, <1>5, <2>1, <2>2
  <2>3. CASE ~TellsExperience(f)
    <3>1. overtaken' = overtaken
      BY <1>2, <1>7, <2>3
    <3>. QED
      BY <1>4, <1>5, <1>9, <2>1, <2>3, <3>1
  <2>. QED
    BY <2>2, <2>3
<1>16. \A i \in 1..Len(Tail(fs)) : OfKept(Tail(fs)[i], everKept)
  <2>. SUFFICES ASSUME NEW i \in 1..Len(Tail(fs)) PROVE OfKept(Tail(fs)[i], everKept)
    OBVIOUS
  <2>1. i + 1 \in 1..Len(fs) /\ Tail(fs)[i] = fs[i + 1]
    BY <1>4, <1>5
  <2>. QED
    BY <1>9, <2>1
<1>17. Len(Tail(fs)) <= MaxFrames
  BY <1>4, <1>5, <1>9, PresentationAssumption
<1>18. StreamInv(c)'
  BY <1>2, <1>3, <1>4, <1>5, <1>8, <1>14, <1>15, <1>16, <1>17 DEF StreamInv
<1>19. asking' \in [Tab -> Waiting] /\ AnswerInv(c)'
       /\ \A x \in Tab \ {c} : asking'[x] = asking[x]
  <2>1. CASE waits /\ asking[c].ahead > 0
    <3>1. PICK n \in Nat : asking[c].ahead = n + 1
      <4>1. asking[c].ahead - 1 \in Nat /\ asking[c].ahead = (asking[c].ahead - 1) + 1
        BY <1>10, <2>1
      <4>. QED
        BY <4>1
    <3>2. asking[c] \in [at : {"answered"}, ok : BOOLEAN, frame : Frame, ahead : Nat]
      BY <1>1, <2>1 DEF Waiting, NotAsking, waits
    <3>3. PICK w \in Waiting : w = [asking[c] EXCEPT !.ahead = n]
      <4>1. [asking[c] EXCEPT !.ahead = n] \in [at : {"answered"}, ok : BOOLEAN, frame : Frame, ahead : Nat]
        BY <3>2
      <4>. QED
        BY <4>1 DEF Waiting
    <3>4. w.at = "answered" /\ w.ok = asking[c].ok /\ w.frame = asking[c].frame /\ w.ahead = n
      BY <3>2, <3>3
    <3>5. n = asking[c].ahead - 1
      BY <3>1
    <3>6. asking' = [asking EXCEPT ![c] = w]
      BY <1>1, <1>2, <2>1, <3>3, <3>5 DEF TabsInv
    <3>7. asking' \in [Tab -> Waiting] /\ asking'[c] = w /\ \A x \in Tab \ {c} : asking'[x] = asking[x]
      BY <1>1, <3>6 DEF TabsInv
    <3>8. n <= Len(Tail(fs))
      BY <1>4, <1>5, <1>11, <2>1, <3>1
    <3>9. TellsExperience(w.frame) => w.frame.experience = experience \/ ToldAfter(Tail(fs), n)
      <4>1. asking[c].ahead # 0 /\ (ToldAfter(fs, n + 1) => ToldAfter(Tail(fs), n))
        BY <1>4, <2>1
      <4>. QED
        BY <1>11, <2>1, <3>1, <3>4, <4>1
    <3>10. AnswerInv(c)'
      BY <1>2, <1>8, <1>11, <2>1, <3>4, <3>7, <3>8, <3>9 DEF AnswerInv
    <3>. QED
      BY <3>7, <3>10
  <2>2. CASE waits /\ ~(asking[c].ahead > 0)
    <3>1. asking[c].ahead = 0 /\ asking' = asking
      BY <1>2, <1>10, <2>2
    <3>2. 0 <= Len(Tail(fs))
      BY <1>4, <1>5
    <3>3. TellsExperience(asking[c].frame) =>
            \/ asking[c].frame.experience = experience
            \/ ToldAfter(Tail(fs), 0)
            \/ c \in overtaken'
      <4>1. CASE TellsExperience(f)
        BY <1>2, <1>7, <2>2, <3>1, <4>1
      <4>2. CASE ~TellsExperience(f)
        BY <1>2, <1>4, <1>5, <1>7, <1>11, <2>2, <3>1, <4>2
      <4>. QED
        BY <4>1, <4>2
    <3>4. AnswerInv(c)'
      BY <1>2, <1>8, <1>11, <2>2, <3>1, <3>2, <3>3 DEF AnswerInv
    <3>. QED
      BY <1>1, <3>1, <3>4 DEF TabsInv
  <2>3. CASE ~waits
    <3>1. asking' = asking
      BY <1>2, <2>3
    <3>2. AnswerInv(c)'
      BY <2>3, <3>1 DEF AnswerInv, waits
    <3>. QED
      BY <1>1, <3>1, <3>2 DEF TabsInv
  <2>. QED
    BY <2>1, <2>2, <2>3
<1>20. TabsInv'
  BY <1>1, <1>2, <1>4, <1>5, <1>12, <1>19 DEF TabsInv
<1>21. \A x \in Tab \ {c} : shown'[x] = shown[x] /\ frames'[x] = frames[x]
                            /\ (x \in overtaken' <=> x \in overtaken)
  BY <1>1, <1>2 DEF TabsInv
<1>22. streaming' \cup overtaken' \subseteq Tab /\ changes' \in 0..MaxChanges
  BY <1>1, <1>2 DEF SettingsInv
<1>. QED
  BY <1>2, <1>18, <1>19, <1>20, <1>21, <1>22, OnlyCaller


\* A tab that is not answered any more, or drops its preview.
LEMMA QuietStep ==
  ASSUME PresentationInv, NEW c \in Tab, AnswerLost(c) \/ CancelPreview(c)
  PROVE  PresentationInv'
<1>1. SettingsInv /\ TabsInv /\ StreamInv(c) /\ AnswerInv(c)
  BY DEF PresentationInv
<1>2. /\ UNCHANGED <<experience, themeOf, promised, everKept>>
      /\ UNCHANGED <<streaming, frames, changes, overtaken>>
  BY DEF AnswerLost, CancelPreview, settingsVars
<1>3. streaming' \cup overtaken' \subseteq Tab /\ changes' \in 0..MaxChanges
  BY <1>1, <1>2 DEF SettingsInv
<1>4. CASE AnswerLost(c)
  <2>1. asking' = [asking EXCEPT ![c] = NotAsking] /\ shown' = shown
    BY <1>4 DEF AnswerLost
  <2>2. TabsInv' /\ asking'[c] = NotAsking /\ \A x \in Tab \ {c} : asking'[x] = asking[x]
    BY <1>1, <1>2, <2>1 DEF TabsInv, Waiting
  <2>3. StreamInv(c)'
    BY <1>1, <1>2, <2>1 DEF StreamInv
  <2>4. AnswerInv(c)'
    BY <2>2 DEF AnswerInv, NotAsking
  <2>. QED
    BY <1>2, <1>3, <2>1, <2>2, <2>3, <2>4, OnlyCaller
<1>5. CASE CancelPreview(c)
  <2>1. shown' = [shown EXCEPT ![c].previewed = "none"] /\ asking' = asking
    BY <1>5 DEF CancelPreview
  <2>2. TabsInv' /\ \A x \in Tab \ {c} : shown'[x] = shown[x]
    BY <1>1, <1>2, <2>1 DEF TabsInv
  <2>3. shown'[c].experience = shown[c].experience /\ shown'[c].committed = shown[c].committed
    BY <1>1, <2>1 DEF TabsInv
  <2>4. StreamInv(c)'
    BY <1>1, <1>2, <2>3 DEF StreamInv
  <2>5. AnswerInv(c)'
    BY <1>1, <1>2, <2>1 DEF AnswerInv
  <2>. QED
    BY <1>2, <1>3, <2>1, <2>2, <2>4, <2>5, OnlyCaller
<1>. QED
  BY <1>4, <1>5

LEMMA BreakStep ==
  ASSUME PresentationInv, NEW c \in Tab, StreamBreaks(c)
  PROVE  PresentationInv'
<1>1. SettingsInv /\ TabsInv /\ StreamInv(c) /\ AnswerInv(c)
  BY DEF PresentationInv
<1>2. /\ streaming' = streaming \ {c} /\ frames' = [frames EXCEPT ![c] = <<>>]
      /\ asking' = IF asking[c].at = "answered" THEN [asking EXCEPT ![c].ahead = 0] ELSE asking
      /\ UNCHANGED <<experience, themeOf, promised, everKept>>
      /\ UNCHANGED <<shown, changes, overtaken>>
  BY DEF StreamBreaks, settingsVars
<1>3. frames'[c] = <<>> /\ frames' \in [Tab -> Seq(Frame)]
  BY <1>1, <1>2 DEF TabsInv
<1>4. StreamInv(c)'
  BY <1>1, <1>2, <1>3, PresentationAssumption DEF StreamInv
<1>5. /\ asking' \in [Tab -> Waiting] /\ AnswerInv(c)'
      /\ \A x \in Tab \ {c} : asking'[x] = asking[x]
  <2>1. CASE asking[c].at = "answered"
    <3>1. asking[c] \in [at : {"answered"}, ok : BOOLEAN, frame : Frame, ahead : Nat]
      BY <1>1, <2>1 DEF TabsInv, Waiting, NotAsking
    <3>2. PICK w \in Waiting : w = [asking[c] EXCEPT !.ahead = 0]
      <4>1. [asking[c] EXCEPT !.ahead = 0] \in [at : {"answered"}, ok : BOOLEAN, frame : Frame, ahead : Nat]
        BY <3>1
      <4>. QED
        BY <4>1 DEF Waiting
    <3>3. w.ok = asking[c].ok /\ w.frame = asking[c].frame /\ w.ahead = 0
      BY <3>1, <3>2
    <3>4. asking' = [asking EXCEPT ![c] = w]
      BY <1>1, <1>2, <2>1, <3>2 DEF TabsInv
    <3>5. asking' \in [Tab -> Waiting] /\ asking'[c] = w /\ \A x \in Tab \ {c} : asking'[x] = asking[x]
      BY <1>1, <3>4 DEF TabsInv
    <3>6. AnswerInv(c)'
      BY <1>1, <1>2, <1>3, <2>1, <3>3, <3>5 DEF AnswerInv
    <3>. QED
      BY <3>5, <3>6
  <2>2. CASE asking[c].at # "answered"
    BY <1>1, <1>2, <2>2 DEF TabsInv, AnswerInv
  <2>. QED
    BY <2>1, <2>2
<1>6. TabsInv'
  BY <1>1, <1>2, <1>3, <1>5 DEF TabsInv
<1>7. \A x \in Tab \ {c} : frames'[x] = frames[x] /\ shown'[x] = shown[x]
  BY <1>1, <1>2 DEF TabsInv
<1>8. streaming' \cup overtaken' \subseteq Tab /\ changes' \in 0..MaxChanges
  BY <1>1, <1>2 DEF SettingsInv
<1>. QED
  BY <1>2, <1>4, <1>5, <1>6, <1>7, <1>8, OnlyCaller

LEMMA OpenStep ==
  ASSUME PresentationInv, NEW c \in Tab, StreamOpens(c)
  PROVE  PresentationInv'
<1>1. SettingsInv /\ TabsInv /\ StreamInv(c) /\ AnswerInv(c) /\ asking[c] \in Waiting
  BY DEF PresentationInv, TabsInv
<1>2. PICK f \in Frame, g \in Frame :
        f = ExperienceFrame(experience) /\ g = ThemeFrame(themeOf[experience], FALSE)
  BY <1>1, FramesAreKnown, FALSE \in BOOLEAN DEF SettingsInv
<1>3. /\ c \notin streaming /\ streaming' = streaming \cup {c}
      /\ frames' = [frames EXCEPT ![c] = <<f, g>>]
      /\ UNCHANGED <<experience, themeOf, promised, everKept>>
      /\ UNCHANGED <<shown, asking, changes, overtaken>>
  BY <1>2 DEF StreamOpens, settingsVars
<1>4. /\ TellsExperience(f) /\ f.experience = experience
      /\ ~TellsExperience(g) /\ g.theme = themeOf[experience]
  BY <1>1, <1>2, FramesAreKnown, FALSE \in BOOLEAN DEF SettingsInv
<1>5. PICK fs \in Seq(Frame) : fs = <<f, g>>
  <2>1. <<f, g>> \in Seq(Frame)
    OBVIOUS
  <2>. QED
    BY <2>1
<1>6. Len(fs) = 2 /\ fs[1] = f /\ fs[2] = g /\ \A i \in 1..Len(fs) : i = 1 \/ i = 2
  BY <1>5
<1>7. frames'[c] = fs /\ frames' \in [Tab -> Seq(Frame)] /\ \A x \in Tab \ {c} : frames'[x] = frames[x]
  BY <1>1, <1>3, <1>5 DEF TabsInv
<1>8. ToldAfter(fs, 0) /\ LastTold(fs, experience)
  <2>1. 1 \in 1..Len(fs) /\ 1 > 0
    BY <1>6
  <2>. QED
    BY <1>4, <1>6, <2>1 DEF ToldAfter, LastTold
<1>9. \A i \in 1..Len(fs) : OfKept(fs[i], everKept)
  <2>1. OfKept(f, everKept) /\ OfKept(g, everKept)
    BY <1>1, <1>4 DEF OfKept, SettingsInv
  <2>. QED
    BY <1>6, <2>1
<1>10. Len(fs) <= MaxFrames
  BY <1>6, PresentationAssumption
<1>11. StreamInv(c)'
  BY <1>1, <1>3, <1>7, <1>8, <1>9, <1>10 DEF StreamInv
<1>12. AnswerInv(c)'
  <2>. SUFFICES ASSUME asking[c].at = "answered"
                PROVE  /\ asking[c].ahead <= Len(fs)
                       /\ asking[c].ok => OfKept(asking[c].frame, everKept)
                       /\ ToldAfter(fs, asking[c].ahead)
    BY <1>3, <1>7 DEF AnswerInv
  <2>1. asking[c].ahead \in Nat /\ asking[c].ahead <= Len(frames[c]) /\ frames[c] = <<>>
        /\ (asking[c].ok => OfKept(asking[c].frame, everKept))
    BY <1>1, <1>3, WaitingIsKnown DEF StreamInv, AnswerInv
  <2>2. asking[c].ahead = 0
    BY <2>1
  <2>. QED
    BY <1>6, <1>8, <2>1, <2>2
<1>13. TabsInv'
  BY <1>1, <1>3, <1>7 DEF TabsInv
<1>14. streaming' \cup overtaken' \subseteq Tab /\ changes' \in 0..MaxChanges
  BY <1>1, <1>3 DEF SettingsInv
<1>. QED
  BY <1>3, <1>7, <1>11, <1>12, <1>13, <1>14, OnlyCaller

LEMMA PresentationStep ==
  PresentationInv /\ (PresentationNext \/ UNCHANGED presentationVars) => PresentationInv'
<1>. SUFFICES ASSUME PresentationInv, PresentationNext \/ UNCHANGED presentationVars
              PROVE  PresentationInv'
  OBVIOUS
<1>1. CASE UNCHANGED presentationVars
  BY <1>1 DEF PresentationInv, SettingsInv, TabsInv, StreamInv, AnswerInv, presentationVars
<1>2. ASSUME NEW c \in Tab PROVE shown[c].experience \in Experience
  BY DEF PresentationInv, TabsInv
<1>3. ASSUME NEW c \in Tab, NEW e \in Experience, AskSelect(c, e) PROVE PresentationInv'
  <2>1. [op |-> "select", experience |-> e] \in TabRequest
    BY DEF TabRequest
  <2>. QED
    BY <1>3, <2>1, AskStep DEF AskSelect
<1>4. ASSUME NEW c \in Tab, NEW t \in Theme, NEW op \in {"preview", "commit"}, AskTheme(c, op, t)
      PROVE  PresentationInv'
  <2>1. [op |-> op, theme |-> t, experience |-> shown[c].experience] \in TabRequest
    BY <1>2 DEF TabRequest
  <2>. QED
    BY <1>4, <2>1, AskStep DEF AskTheme
<1>5. ASSUME NEW c \in Tab, NEW op \in {"getTheme", "getExperience"}, AskBootstrap(c, op)
      PROVE  PresentationInv'
  <2>1. [op |-> op, experience |-> shown[c].experience] \in TabRequest
    BY <1>2 DEF TabRequest
  <2>. QED
    BY <1>5, <2>1, AskStep DEF AskBootstrap
<1>6. CASE PresentationNext
  BY <1>3, <1>4, <1>5, <1>6, SelectStep, ThemeStep, GetStep, ArrivalStep, ReadStep, QuietStep,
     BreakStep, OpenStep DEF PresentationNext
<1>. QED
  BY <1>1, <1>6

LEMMA PresentationIsSafe == PresentationInv => PresentationTypeOK /\ SettingsAreShown
<1>. SUFFICES ASSUME PresentationInv PROVE PresentationTypeOK /\ SettingsAreShown
  OBVIOUS
<1>1. SettingsInv /\ TabsInv /\ \A c \in Tab : StreamInv(c)
  BY DEF PresentationInv
<1>2. PresentationTypeOK
  BY <1>1 DEF SettingsInv, TabsInv, StreamInv, PresentationTypeOK
<1>3. \A c \in Tab : frames[c] = <<>> => ~ToldAfter(frames[c], 0)
  BY DEF ToldAfter
<1>4. SettingsAreShown
  BY <1>1, <1>3 DEF SettingsInv, StreamInv, SettingsAreShown
<1>. QED
  BY <1>2, <1>4

-----------------------------------------------------------------------------
(***************************************************************************)
(* Rates and quotas.  A window counts the calls since it began, and fewer  *)
(* than a window's length before it there were no more calls than one      *)
(* window lets through: a stretch of that length reaches into two windows  *)
(* at most.                                                                *)
(***************************************************************************)
Since(calls, start) == {c \in calls : c[1] >= start}
JustBefore(calls, start) == {c \in calls : c[1] < start /\ c[1] + WindowMs > start}
Stretch(calls, from) == {c \in calls : from <= c[1] /\ c[1] < from + WindowMs}

CallsAre(calls, now) == IsFiniteSet(calls) /\ calls \subseteq (0..now) \X (1..Cardinality(calls))

WindowOk(calls, w, now) ==
  /\ CallsAre(calls, now)
  /\ w \in [start : 0..now, count : 0..RateMax]
  /\ \A c \in calls : c[1] < w.start + WindowMs
  /\ Cardinality(Since(calls, w.start)) = w.count
  /\ Cardinality(JustBefore(calls, w.start)) <= RateMax
  /\ \A t \in Nat : Cardinality(Stretch(calls, t)) <= 2 * RateMax

RateInv ==
  /\ RateTypeOK
  /\ \A k \in Account \X Limited : WindowOk(letThrough[k], windows[k], clock)
  /\ letThrough \in [Account \X Limited -> SUBSET ((0..MaxClock) \X Nat)]
  /\ \A a \in Account : owned[a] <= MaxTotalProjects
  /\ answer = "created" => SandboxesInUse <= MaxSandboxes

LEMMA FewerAre ==
  ASSUME NEW T, IsFiniteSet(T), NEW S \in SUBSET T
  PROVE  IsFiniteSet(S) /\ Cardinality(S) \in Nat /\ Cardinality(T) \in Nat
         /\ Cardinality(S) <= Cardinality(T)
BY FS_Subset, FS_CardinalityType

\* What a step needs of the calls: times are numbers, parts are counted.
LEMMA CallsAreCounted ==
  ASSUME NEW now \in Nat, NEW calls, CallsAre(calls, now), NEW start \in Nat
  PROVE  /\ \A c \in calls : c[1] \in Nat /\ c[1] <= now /\ c[2] \in Nat /\ c = <<c[1], c[2]>>
                             /\ c[2] <= Cardinality(calls)
         /\ Cardinality(calls) \in Nat
         /\ IsFiniteSet(Since(calls, start)) /\ Cardinality(Since(calls, start)) \in Nat
         /\ IsFiniteSet(JustBefore(calls, start)) /\ Cardinality(JustBefore(calls, start)) \in Nat
         /\ IsFiniteSet(Stretch(calls, start)) /\ Cardinality(Stretch(calls, start)) \in Nat
<1>1. IsFiniteSet(calls) /\ Cardinality(calls) \in Nat
      /\ calls \subseteq (0..now) \X (1..Cardinality(calls))
  BY FS_CardinalityType DEF CallsAre
<1>2. \A c \in calls : c[1] \in Nat /\ c[1] <= now /\ c[2] \in Nat /\ c = <<c[1], c[2]>>
                       /\ c[2] <= Cardinality(calls)
  <2>. SUFFICES ASSUME NEW c \in calls
                PROVE  c[1] \in Nat /\ c[1] <= now /\ c[2] \in Nat /\ c = <<c[1], c[2]>>
                       /\ c[2] <= Cardinality(calls)
    OBVIOUS
  <2>1. PICK n \in 0..now, m \in 1..Cardinality(calls) : c = <<n, m>>
    BY <1>1
  <2>. QED
    BY <1>1, <2>1
<1>3. /\ Since(calls, start) \subseteq calls /\ JustBefore(calls, start) \subseteq calls
      /\ Stretch(calls, start) \subseteq calls
  BY DEF Since, JustBefore, Stretch
<1>. QED
  BY <1>1, <1>2, <1>3, FewerAre

\* A window is begun anew, with no call in it yet.
LEMMA WindowOpens ==
  ASSUME NEW now \in Nat, NEW calls, NEW w, WindowOk(calls, w, now),
         w.count = 0 \/ now >= w.start + WindowMs
  PROVE  WindowOk(calls, [start |-> now, count |-> 0], now)
<1>. DEFINE v == [start |-> now, count |-> 0]
<1>1. /\ CallsAre(calls, now) /\ w \in [start : 0..now, count : 0..RateMax]
      /\ \A c \in calls : c[1] < w.start + WindowMs
      /\ Cardinality(Since(calls, w.start)) = w.count
      /\ Cardinality(JustBefore(calls, w.start)) <= RateMax
      /\ \A t \in Nat : Cardinality(Stretch(calls, t)) <= 2 * RateMax
  BY DEF WindowOk
<1>2. w.start \in Nat /\ w.start <= now /\ w.count \in Nat /\ w.count <= RateMax
      /\ RateMax \in Nat /\ WindowMs \in Nat \ {0}
  BY <1>1, RateAssumption
<1>3. v \in [start : 0..now, count : 0..RateMax] /\ v.start = now /\ v.count = 0
  BY <1>2
<1>4. \A c \in calls : c[1] \in Nat /\ c[1] <= now
  BY <1>1, <1>2, CallsAreCounted
<1>5. \A c \in calls : c[1] < v.start + WindowMs
  BY <1>2, <1>3, <1>4
<1>6. Since(calls, now) = {} /\ Cardinality(JustBefore(calls, now)) <= RateMax
  <2>1. CASE now >= w.start + WindowMs
    <3>1. Since(calls, now) = {}
      BY <1>1, <1>2, <1>4, <2>1 DEF Since
    <3>2. JustBefore(calls, now) \subseteq Since(calls, w.start)
      BY <1>1, <1>2, <1>4, <2>1 DEF Since, JustBefore
    <3>3. Cardinality(JustBefore(calls, now)) <= w.count /\ Cardinality(JustBefore(calls, now)) \in Nat
      <4>1. IsFiniteSet(Since(calls, w.start))
        BY <1>1, <1>2, CallsAreCounted
      <4>2. JustBefore(calls, now) \in SUBSET Since(calls, w.start)
        BY <3>2
      <4>3. /\ Cardinality(JustBefore(calls, now)) \in Nat
            /\ Cardinality(JustBefore(calls, now)) <= Cardinality(Since(calls, w.start))
        BY <4>1, <4>2, FewerAre
      <4>. QED
        BY <1>1, <4>3
    <3>. QED
      BY <1>2, <3>1, <3>3
  <2>2. CASE w.count = 0
    <3>1. Since(calls, w.start) = {}
      BY <1>1, <1>2, <2>2, CallsAreCounted, FS_EmptySet
    <3>2. \A c \in calls : c[1] < w.start
      BY <1>2, <1>4, <3>1 DEF Since
    <3>3. Since(calls, now) = {} /\ JustBefore(calls, now) \subseteq JustBefore(calls, w.start)
      BY <1>2, <1>4, <3>2 DEF Since, JustBefore
    <3>4. /\ Cardinality(JustBefore(calls, now)) <= Cardinality(JustBefore(calls, w.start))
          /\ Cardinality(JustBefore(calls, now)) \in Nat /\ Cardinality(JustBefore(calls, w.start)) \in Nat
      BY <1>1, <1>2, <3>3, CallsAreCounted, FewerAre
    <3>. QED
      BY <1>1, <1>2, <3>3, <3>4
  <2>. QED
    BY <2>1, <2>2
<1>7. Cardinality(Since(calls, now)) = 0
  BY <1>6, FS_EmptySet
<1>. HIDE DEF v
<1>8. WindowOk(calls, v, now)
  BY <1>1, <1>3, <1>5, <1>6, <1>7 DEF WindowOk
<1>. QED
  BY <1>8 DEF v

\* A call is let through in a window that is not over and not full.
LEMMA CallIsCounted ==
  ASSUME NEW now \in Nat, NEW calls, NEW w, WindowOk(calls, w, now), w.count < RateMax,
         now < w.start + WindowMs
  PROVE  WindowOk(calls \cup {<<now, Cardinality(calls) + 1>>}, [w EXCEPT !.count = w.count + 1], now)
<1>1. /\ CallsAre(calls, now) /\ w \in [start : 0..now, count : 0..RateMax]
      /\ \A c \in calls : c[1] < w.start + WindowMs
      /\ Cardinality(Since(calls, w.start)) = w.count
      /\ Cardinality(JustBefore(calls, w.start)) <= RateMax
      /\ \A t \in Nat : Cardinality(Stretch(calls, t)) <= 2 * RateMax
  BY DEF WindowOk
<1>2. w.start \in Nat /\ w.start <= now /\ w.count \in Nat /\ w.count <= RateMax
      /\ RateMax \in Nat /\ WindowMs \in Nat \ {0}
  BY <1>1, RateAssumption
<1>3. /\ \A c \in calls : c[1] \in Nat /\ c[1] <= now /\ c[2] \in Nat /\ c = <<c[1], c[2]>>
                          /\ c[2] <= Cardinality(calls)
      /\ Cardinality(calls) \in Nat /\ IsFiniteSet(calls)
      /\ IsFiniteSet(Since(calls, w.start)) /\ Cardinality(Since(calls, w.start)) \in Nat
      /\ IsFiniteSet(JustBefore(calls, w.start)) /\ Cardinality(JustBefore(calls, w.start)) \in Nat
  BY <1>1, <1>2, CallsAreCounted DEF CallsAre
<1>4. PICK new : new = <<now, Cardinality(calls) + 1>>
  OBVIOUS
<1>5. new[1] = now /\ new[2] = Cardinality(calls) + 1
  BY <1>4
<1>6. new \notin calls
  BY <1>3, <1>5
<1>. DEFINE more == calls \cup {new}
            v == [w EXCEPT !.count = w.count + 1]
<1>7. v \in [start : 0..now, count : 0..RateMax] /\ v.start = w.start /\ v.count = w.count + 1
  BY <1>1, <1>2
<1>8. CallsAre(more, now)
  <2>1. IsFiniteSet(more) /\ Cardinality(more) = Cardinality(calls) + 1
    BY <1>3, <1>6, FS_AddElement
  <2>. HIDE DEF more
  <2>2. \A c \in more : c \in calls \/ c = new
    BY DEF more
  <2>3. new \in (0..now) \X (1..Cardinality(more))
    BY <1>3, <1>4, <2>1
  <2>4. ASSUME NEW c \in calls PROVE c \in (0..now) \X (1..Cardinality(more))
    <3>1. c \in (0..now) \X (1..Cardinality(calls))
      BY <1>1 DEF CallsAre
    <3>2. PICK n \in 0..now, m \in 1..Cardinality(calls) : c = <<n, m>>
      BY <3>1
    <3>3. m \in 1..Cardinality(more)
      BY <1>3, <2>1
    <3>. QED
      BY <3>2, <3>3
  <2>. QED
    BY <2>1, <2>2, <2>3, <2>4 DEF CallsAre
<1>9. \A c \in more : c[1] < v.start + WindowMs
  BY <1>1, <1>5, <1>7
<1>10. Since(more, w.start) = Since(calls, w.start) \cup {new} /\ new \notin Since(calls, w.start)
       /\ JustBefore(more, w.start) = JustBefore(calls, w.start)
  BY <1>2, <1>5, <1>6 DEF Since, JustBefore
<1>11. Cardinality(Since(more, w.start)) = w.count + 1
  BY <1>1, <1>3, <1>10, FS_AddElement
<1>12. ASSUME NEW t \in Nat PROVE Cardinality(Stretch(more, t)) <= 2 * RateMax
  <2>. HIDE DEF more
  <2>1. CASE w.start < t + WindowMs
    <3>1. Stretch(more, t) \subseteq Since(more, w.start) \cup JustBefore(more, w.start)
      <4>. SUFFICES ASSUME NEW c \in Stretch(more, t), ~(c[1] >= w.start)
                    PROVE  c \in JustBefore(more, w.start)
        BY DEF Stretch, Since
      <4>1. c \in more /\ t <= c[1] /\ c[1] \in Nat
        BY <1>2, <1>8, CallsAreCounted DEF Stretch
      <4>2. c[1] < w.start /\ c[1] + WindowMs > w.start
        BY <1>2, <2>1, <4>1
      <4>. QED
        BY <4>1, <4>2 DEF JustBefore
    <3>2. IsFiniteSet(Since(more, w.start)) /\ IsFiniteSet(JustBefore(more, w.start))
      BY <1>2, <1>8, CallsAreCounted
    <3>. DEFINE A == Since(more, w.start)
                B == JustBefore(more, w.start)
    <3>3. IsFiniteSet(A) /\ IsFiniteSet(B)
      BY <3>2
    <3>4. Cardinality(A) \in Nat /\ Cardinality(A) <= RateMax
      BY <1>2, <1>11
    <3>5. Cardinality(B) \in Nat /\ Cardinality(B) <= RateMax
      BY <1>1, <1>3, <1>10 DEF more
    <3>6. Stretch(more, t) \subseteq A \cup B
      BY <3>1
    <3>. HIDE DEF A, B
    <3>7. IsFiniteSet(A \cup B) /\ Cardinality(A \cup B) = Cardinality(A) + Cardinality(B) - Cardinality(A \cap B)
      BY <3>3, FS_Union
    <3>8. Cardinality(A \cap B) \in Nat
      BY <3>3, FewerAre
    <3>9. Cardinality(Stretch(more, t)) \in Nat /\ Cardinality(A \cup B) \in Nat
          /\ Cardinality(Stretch(more, t)) <= Cardinality(A \cup B)
      BY <3>6, <3>7, FewerAre
    <3>. QED
      BY <1>2, <3>4, <3>5, <3>7, <3>8, <3>9
  <2>2. CASE ~(w.start < t + WindowMs)
    <3>1. ~(new[1] < t + WindowMs)
      BY <1>2, <1>5, <2>2
    <3>2. Stretch(more, t) = Stretch(calls, t)
      BY <3>1 DEF more, Stretch
    <3>. QED
      BY <1>1, <3>2
  <2>. QED
    BY <2>1, <2>2
<1>. HIDE DEF v, more
<1>13. Cardinality(Since(more, v.start)) = v.count /\ Cardinality(JustBefore(more, v.start)) <= RateMax
  BY <1>1, <1>7, <1>10, <1>11 DEF more
<1>14. WindowOk(more, v, now)
  BY <1>7, <1>8, <1>9, <1>12, <1>13 DEF WindowOk
<1>. QED
  BY <1>4, <1>14 DEF v, more

LEMMA OpenWindowIsOk ==
  ASSUME RateInv, NEW k \in Account \X Limited
  PROVE  /\ WindowOk(letThrough[k], OpenWindow(k), clock)
         /\ clock < OpenWindow(k).start + WindowMs
<1>1. WindowOk(letThrough[k], windows[k], clock) /\ clock \in Nat
      /\ windows[k] \in [start : 0..MaxClock, count : 0..RateMax]
      /\ WindowMs \in Nat \ {0}
  BY RateAssumption DEF RateInv, RateTypeOK
<1>2. CASE WindowOver(k)
  <2>1. OpenWindow(k) = [start |-> clock, count |-> 0]
    BY <1>2 DEF OpenWindow
  <2>2. windows[k].count = 0 \/ clock >= windows[k].start + WindowMs
    BY <1>2 DEF WindowOver
  <2>. QED
    BY <1>1, <2>1, <2>2, WindowOpens
<1>3. CASE ~WindowOver(k)
  <2>1. OpenWindow(k) = windows[k] /\ ~(clock >= windows[k].start + WindowMs)
    BY <1>3 DEF OpenWindow, WindowOver
  <2>. QED
    BY <1>1, <2>1
<1>. QED
  BY <1>2, <1>3

\* checkRate() leaves every window in order.
LEMMA RateIsChecked ==
  ASSUME RateInv, NEW k \in Account \X Limited, RateRefused(k) \/ RateCounted(k), clock' = clock
  PROVE  /\ \A j \in Account \X Limited : WindowOk(letThrough'[j], windows'[j], clock')
         /\ letThrough' \in [Account \X Limited -> SUBSET ((0..MaxClock) \X Nat)]
         /\ windows' \in [Account \X Limited -> [start : 0..MaxClock, count : 0..RateMax]]
<1>1. /\ \A j \in Account \X Limited : WindowOk(letThrough[j], windows[j], clock)
      /\ letThrough \in [Account \X Limited -> SUBSET ((0..MaxClock) \X Nat)]
      /\ windows \in [Account \X Limited -> [start : 0..MaxClock, count : 0..RateMax]]
      /\ clock \in 0..MaxClock /\ clock \in Nat /\ MaxClock \in Nat /\ RateMax \in Nat
  BY RateAssumption DEF RateInv, RateTypeOK
<1>2. PICK w : w = OpenWindow(k)
  OBVIOUS
<1>3. WindowOk(letThrough[k], w, clock) /\ clock < w.start + WindowMs
  BY <1>2, OpenWindowIsOk
<1>4. PICK calls : calls = letThrough[k]
  OBVIOUS
<1>5. CASE RateRefused(k)
  <2>1. windows' = [windows EXCEPT ![k] = w] /\ letThrough' = letThrough
    BY <1>2, <1>5 DEF RateRefused
  <2>2. w \in [start : 0..clock, count : 0..RateMax]
    BY <1>3 DEF WindowOk
  <2>3. w \in [start : 0..MaxClock, count : 0..RateMax]
    BY <1>1, <2>2
  <2>. QED
    BY <1>1, <1>3, <2>1, <2>3
<1>6. CASE RateCounted(k)
  <2>1. /\ ~(w.count >= RateMax)
        /\ windows' = [windows EXCEPT ![k] = [w EXCEPT !.count = w.count + 1]]
        /\ letThrough' = [letThrough EXCEPT ![k] = calls \cup {<<clock, Cardinality(calls) + 1>>}]
    BY <1>1, <1>2, <1>4, <1>6 DEF RateCounted, Exceeded
  <2>2. PICK v : v = [w EXCEPT !.count = w.count + 1]
    OBVIOUS
  <2>3. PICK more : more = calls \cup {<<clock, Cardinality(calls) + 1>>}
    OBVIOUS
  <2>4. w.count < RateMax
    <3>1. w \in [start : 0..clock, count : 0..RateMax]
      BY <1>3 DEF WindowOk
    <3>. QED
      BY <1>1, <2>1, <3>1
  <2>5. WindowOk(more, v, clock)
    BY <1>1, <1>3, <1>4, <2>2, <2>3, <2>4, CallIsCounted
  <2>6. v \in [start : 0..MaxClock, count : 0..RateMax]
    <3>1. v \in [start : 0..clock, count : 0..RateMax]
      BY <2>5 DEF WindowOk
    <3>. QED
      BY <1>1, <3>1
  <2>7. more \subseteq (0..MaxClock) \X Nat
    <3>1. Cardinality(calls) + 1 \in Nat
      <4>1. CallsAre(calls, clock)
        BY <1>3, <1>4 DEF WindowOk
      <4>. QED
        BY <4>1, FS_CardinalityType DEF CallsAre
    <3>2. <<clock, Cardinality(calls) + 1>> \in (0..MaxClock) \X Nat
      BY <1>1, <3>1
    <3>. QED
      BY <1>1, <1>4, <2>3, <3>2
  <2>8. windows' = [windows EXCEPT ![k] = v] /\ letThrough' = [letThrough EXCEPT ![k] = more]
    BY <2>1, <2>2, <2>3
  <2>. QED
    BY <1>1, <2>5, <2>6, <2>7, <2>8
<1>. QED
  BY <1>5, <1>6

\* The sandboxes in use, one by one.
Used(use) == UNION {{a} \X (1..use[a]) : a \in Account}

LEMMA SandboxesAreCounted ==
  ASSUME NEW use \in [Account -> Nat], NEW a \in Account
  PROVE  /\ IsFiniteSet(Used(use)) /\ Cardinality(Used(use)) \in Nat
         /\ Cardinality(Used([use EXCEPT ![a] = use[a] + 1])) = Cardinality(Used(use)) + 1
         /\ \A less \in [Account -> Nat] :
              (\A b \in Account : less[b] <= use[b]) => Cardinality(Used(less)) <= Cardinality(Used(use))
<1>1. ASSUME NEW b \in Account PROVE IsFiniteSet({b} \X (1..use[b]))
  <2>1. IsFiniteSet({b}) /\ IsFiniteSet(1..use[b])
    BY FS_Singleton, FS_Interval, 1 \in Int, use[b] \in Int
  <2>. QED
    BY <2>1, FS_Product
<1>2. IsFiniteSet(Used(use))
  <2>. DEFINE each == {{b} \X (1..use[b]) : b \in Account}
              part[b \in Account] == {b} \X (1..use[b])
  <2>1. IsFiniteSet(each)
    <3>1. IsFiniteSet(Account)
      BY RateAssumption
    <3>2. each = {part[b] : b \in Account}
      OBVIOUS
    <3>3. part \in Surjection(Account, each)
      BY DEF Surjection
    <3>. HIDE DEF part, each
    <3>. QED
      BY <3>1, <3>3, FS_Surjection
  <2>2. \A x \in each : IsFiniteSet(x)
    BY <1>1
  <2>. HIDE DEF each
  <2>3. IsFiniteSet(UNION each)
    BY <2>1, <2>2, FS_UNION
  <2>. QED
    BY <2>3 DEF Used, each
<1>3. \A x : x \in Used(use) <=> \E b \in Account, n \in Nat \ {0} : n <= use[b] /\ x = <<b, n>>
  BY DEF Used
<1>4. Cardinality(Used(use)) \in Nat
  BY <1>2, FS_CardinalityType
<1>5. Cardinality(Used([use EXCEPT ![a] = use[a] + 1])) = Cardinality(Used(use)) + 1
  <2>1. PICK more \in [Account -> Nat] : more = [use EXCEPT ![a] = use[a] + 1]
    <3>1. use[a] + 1 \in Nat
      OBVIOUS
    <3>2. [use EXCEPT ![a] = use[a] + 1] \in [Account -> Nat]
      BY <3>1
    <3>. QED
      BY <3>2
  <2>2. \A x : x \in Used(more) <=> \E b \in Account, n \in Nat \ {0} : n <= more[b] /\ x = <<b, n>>
    BY DEF Used
  <2>3. PICK new : new = <<a, use[a] + 1>>
    OBVIOUS
  <2>4. new \notin Used(use)
    BY <1>3, <2>3
  <2>5. \A x \in Used(more) : x \in Used(use) \/ x = new
    BY <1>3, <2>1, <2>2, <2>3
  <2>6. ASSUME NEW x \in Used(use) PROVE x \in Used(more)
    <3>1. PICK b \in Account, n \in Nat \ {0} : n <= use[b] /\ x = <<b, n>>
      BY <1>3
    <3>2. n <= more[b]
      BY <2>1, <3>1
    <3>. QED
      BY <2>2, <3>1, <3>2
  <2>7. new \in Used(more)
    <3>1. use[a] + 1 \in Nat \ {0} /\ more[a] = use[a] + 1 /\ use[a] + 1 <= more[a]
      BY <2>1
    <3>. QED
      BY <2>2, <2>3, <3>1
  <2>8. Used(more) = Used(use) \cup {new}
    BY <2>5, <2>6, <2>7
  <2>. QED
    BY <1>2, <2>1, <2>4, <2>8, FS_AddElement
<1>6. ASSUME NEW less \in [Account -> Nat], \A b \in Account : less[b] <= use[b]
      PROVE  Cardinality(Used(less)) <= Cardinality(Used(use))
  <2>1. \A x : x \in Used(less) <=> \E b \in Account, n \in Nat \ {0} : n <= less[b] /\ x = <<b, n>>
    BY DEF Used
  <2>2. Used(less) \subseteq Used(use)
    BY <1>3, <1>6, <2>1
  <2>. QED
    BY <1>2, <2>2, FewerAre
<1>. QED
  BY <1>2, <1>4, <1>5, <1>6

LEMMA UsedAreInUse == SandboxesInUse = Cardinality(Used(inUse))
BY DEF SandboxesInUse, Used

LEMMA RateStarts == RateInit => RateInv
<1>. SUFFICES ASSUME RateInit PROVE RateInv
  OBVIOUS
<1>1. /\ clock = 0 /\ windows = [k \in Account \X Limited |-> NoWindow]
      /\ owned = [a \in Account |-> 0] /\ inUse = [a \in Account |-> 0] /\ turns = {}
      /\ letThrough = [k \in Account \X Limited |-> {}] /\ answer = "none"
  BY DEF RateInit
<1>2. RateMax \in Nat /\ MaxClock \in Nat /\ MaxTotalProjects \in Nat /\ WindowMs \in Nat \ {0}
  BY RateAssumption
<1>3. RateTypeOK
  BY <1>1, <1>2 DEF RateTypeOK, NoWindow
<1>4. WindowOk({}, NoWindow, 0)
  <2>1. /\ Since({}, 0) = {} /\ JustBefore({}, 0) = {} /\ \A t \in Nat : Stretch({}, t) = {}
    BY DEF Since, JustBefore, Stretch
  <2>2. IsFiniteSet({}) /\ Cardinality({}) = 0
    BY FS_EmptySet
  <2>3. NoWindow.start = 0 /\ NoWindow.count = 0 /\ NoWindow \in [start : 0..0, count : 0..RateMax]
    BY <1>2 DEF NoWindow
  <2>4. \A t \in Nat : Cardinality(Stretch({}, t)) <= 2 * RateMax
    <3>1. 0 <= 2 * RateMax
      BY <1>2
    <3>. QED
      BY <2>1, <2>2, <3>1
  <2>5. Cardinality(Since({}, NoWindow.start)) = NoWindow.count
        /\ Cardinality(JustBefore({}, NoWindow.start)) <= RateMax
    BY <1>2, <2>1, <2>2, <2>3
  <2>6. CallsAre({}, 0)
    BY <2>2 DEF CallsAre
  <2>. QED
    BY <2>3, <2>4, <2>5, <2>6 DEF WindowOk
<1>. QED
  BY <1>1, <1>2, <1>3, <1>4 DEF RateInv

\* Time goes on, and the calls lie in the past as before.
LEMMA TimePasses ==
  ASSUME NEW now \in Nat, NEW calls, NEW w, WindowOk(calls, w, now)
  PROVE  WindowOk(calls, w, now + 1)
<1>1. \A c \in calls : c[1] \in Nat /\ c[1] <= now /\ c[2] \in Nat /\ c = <<c[1], c[2]>>
  <2>1. CallsAre(calls, now)
    BY DEF WindowOk
  <2>. QED
    BY <2>1, CallsAreCounted
<1>2. CallsAre(calls, now + 1)
  <2>1. 0..now \subseteq 0..(now + 1)
    OBVIOUS
  <2>. QED
    BY <2>1 DEF WindowOk, CallsAre
<1>3. w \in [start : 0..(now + 1), count : 0..RateMax]
  BY DEF WindowOk
<1>. QED
  BY <1>2, <1>3 DEF WindowOk

\* A call that checkRate() has looked at, with what else it does.
LEMMA CheckedStep ==
  ASSUME RateInv, NEW a \in Account, NEW op \in Limited,
         RateRefused(<<a, op>>) \/ RateCounted(<<a, op>>), clock' = clock,
         owned' \in [Account -> Nat], inUse' \in [Account -> Nat], turns' \subseteq Account,
         answer' \in {"none", "rate", "quota", "ok", "created", "failed"},
         \A b \in Account : owned'[b] <= MaxTotalProjects,
         answer' = "created" => Cardinality(Used(inUse')) <= MaxSandboxes
  PROVE  RateInv'
<1>1. <<a, op>> \in Account \X Limited
  OBVIOUS
<1>2. /\ \A j \in Account \X Limited : WindowOk(letThrough'[j], windows'[j], clock')
      /\ letThrough' \in [Account \X Limited -> SUBSET ((0..MaxClock) \X Nat)]
      /\ windows' \in [Account \X Limited -> [start : 0..MaxClock, count : 0..RateMax]]
  BY <1>1, RateIsChecked
<1>3. clock' \in 0..MaxClock
  BY DEF RateInv, RateTypeOK
<1>4. RateTypeOK'
  BY <1>2, <1>3 DEF RateTypeOK
<1>5. (answer = "created" => SandboxesInUse <= MaxSandboxes)'
  BY DEF SandboxesInUse, Used
<1>. QED
  BY <1>2, <1>4, <1>5 DEF RateInv

\* A step in which nobody calls.
LEMMA UncalledStep ==
  ASSUME RateInv, UNCHANGED <<clock, windows, letThrough>>,
         owned' \in [Account -> Nat], inUse' \in [Account -> Nat], turns' \subseteq Account,
         answer' \in {"none", "rate", "quota", "ok", "created", "failed"},
         \A b \in Account : owned'[b] <= MaxTotalProjects,
         answer' = "created" => Cardinality(Used(inUse')) <= MaxSandboxes
  PROVE  RateInv'
<1>1. RateTypeOK'
  BY DEF RateInv, RateTypeOK
<1>2. (answer = "created" => SandboxesInUse <= MaxSandboxes)'
  BY DEF SandboxesInUse, Used
<1>. QED
  BY <1>1, <1>2 DEF RateInv

LEMMA RateStep == RateInv /\ (RateNext \/ UNCHANGED rateVars) => RateInv'
<1>. SUFFICES ASSUME RateInv, RateNext \/ UNCHANGED rateVars PROVE RateInv'
  OBVIOUS
<1>1. /\ owned \in [Account -> Nat] /\ inUse \in [Account -> Nat] /\ turns \subseteq Account
      /\ \A b \in Account : owned[b] <= MaxTotalProjects
      /\ clock \in 0..MaxClock /\ MaxClock \in Nat
      /\ answer \in {"none", "rate", "quota", "ok", "created", "failed"}
      /\ answer = "created" => Cardinality(Used(inUse)) <= MaxSandboxes
      /\ MaxTotalProjects \in Nat /\ MaxSandboxes \in Nat
      /\ "project.create" \in Limited /\ "generation.turn" \in Limited
  BY UsedAreInUse, RateAssumption DEF RateInv, RateTypeOK
<1>2. CASE RateTick
  <2>1. /\ clock' = clock + 1 /\ clock < MaxClock
        /\ UNCHANGED <<windows, owned, inUse, turns, letThrough, answer>>
    BY <1>2 DEF RateTick
  <2>2. \A k \in Account \X Limited : WindowOk(letThrough'[k], windows'[k], clock')
    BY <1>1, <2>1, TimePasses DEF RateInv
  <2>3. RateTypeOK'
    BY <1>1, <2>1 DEF RateInv, RateTypeOK
  <2>4. SandboxesInUse' = SandboxesInUse
    BY <2>1 DEF SandboxesInUse
  <2>. QED
    BY <2>1, <2>2, <2>3, <2>4 DEF RateInv
<1>3. ASSUME NEW a \in Account, CreateRefused(a) \/ TurnRefused(a) PROVE RateInv'
  <2>1. /\ UNCHANGED <<clock, owned, inUse, turns>> /\ answer' = "rate"
        /\ RateRefused(<<a, "project.create">>) \/ RateRefused(<<a, "generation.turn">>)
    BY <1>3 DEF CreateRefused, TurnRefused, RateRefused
  <2>. QED
    BY <1>1, <2>1, CheckedStep
<1>4. ASSUME NEW a \in Account, CreateOverQuota(a) PROVE RateInv'
  <2>1. /\ UNCHANGED <<clock, owned, inUse, turns>> /\ answer' = "quota"
        /\ RateCounted(<<a, "project.create">>)
    BY <1>4 DEF CreateOverQuota
  <2>. QED
    BY <1>1, <2>1, CheckedStep
<1>5. ASSUME NEW a \in Account, CreateWithin(a) PROVE RateInv'
  <2>1. /\ RateCounted(<<a, "project.create">>) /\ owned[a] < MaxTotalProjects
        /\ Cardinality(Used(inUse)) < MaxSandboxes /\ UNCHANGED <<clock, turns>>
    BY <1>5, UsedAreInUse DEF CreateWithin, ProjectQuota, SandboxQuota
  <2>2. CASE answer' = "failed" /\ UNCHANGED <<owned, inUse>>
    BY <1>1, <2>1, <2>2, CheckedStep
  <2>3. CASE /\ answer' = "created" /\ owned' = [owned EXCEPT ![a] = @ + 1]
             /\ inUse' = [inUse EXCEPT ![a] = @ + 1]
    <3>1. inUse' = [inUse EXCEPT ![a] = inUse[a] + 1] /\ inUse[a] + 1 \in Nat
          /\ owned' = [owned EXCEPT ![a] = owned[a] + 1] /\ owned[a] + 1 \in Nat
      BY <1>1, <2>3
    <3>2. inUse' \in [Account -> Nat] /\ owned' \in [Account -> Nat]
      BY <1>1, <3>1
    <3>3. \A b \in Account : owned'[b] <= MaxTotalProjects
      BY <1>1, <2>1, <3>1
    <3>4. Cardinality(Used(inUse')) = Cardinality(Used(inUse)) + 1 /\ Cardinality(Used(inUse)) \in Nat
      BY <1>1, <3>1, SandboxesAreCounted
    <3>5. Cardinality(Used(inUse')) <= MaxSandboxes
      BY <1>1, <2>1, <3>4
    <3>. QED
      BY <1>1, <2>1, <2>3, <3>2, <3>3, <3>5, CheckedStep
  <2>. QED
    BY <1>5, <2>2, <2>3 DEF CreateWithin
<1>6. ASSUME NEW a \in Account, TurnAdmitted(a) PROVE RateInv'
  <2>1. /\ RateCounted(<<a, "generation.turn">>) /\ UNCHANGED <<clock, owned, inUse>>
        /\ answer' \in {"ok", "quota"} /\ turns' \in {turns, turns \cup {a}}
    BY <1>6 DEF TurnAdmitted
  <2>. QED
    BY <1>1, <2>1, CheckedStep
<1>7. ASSUME NEW a \in Account, TurnAcquires(a) PROVE RateInv'
  <2>1. /\ turns' = turns \ {a} /\ answer' = "none" /\ inUse' = [inUse EXCEPT ![a] = inUse[a] + 1]
        /\ UNCHANGED <<clock, windows, owned, letThrough>> /\ inUse[a] + 1 \in Nat
    BY <1>1, <1>7 DEF TurnAcquires
  <2>2. inUse' \in [Account -> Nat]
    BY <1>1, <2>1
  <2>. QED
    BY <1>1, <2>1, <2>2, UncalledStep
<1>8. ASSUME NEW a \in Account, NEW op \in Settings, SettingsCall(a, op) PROVE RateInv'
  BY <1>1, <1>8, UncalledStep DEF SettingsCall
<1>9. ASSUME NEW a \in Account, SandboxIdles(a) PROVE RateInv'
  <2>1. /\ inUse[a] > 0 /\ inUse' = [inUse EXCEPT ![a] = inUse[a] - 1]
        /\ UNCHANGED <<clock, windows, owned, turns, letThrough, answer>>
    BY <1>1, <1>9 DEF SandboxIdles
  <2>2. inUse' \in [Account -> Nat] /\ \A b \in Account : inUse'[b] <= inUse[b]
    <3>1. inUse[a] - 1 \in Nat /\ inUse[a] - 1 <= inUse[a]
      BY <1>1, <2>1
    <3>. QED
      BY <1>1, <2>1, <3>1
  <2>3. Cardinality(Used(inUse')) <= Cardinality(Used(inUse)) /\ Cardinality(Used(inUse)) \in Nat
    BY <1>1, <2>2, SandboxesAreCounted
  <2>4. Cardinality(Used(inUse')) \in Nat
    BY <2>2, SandboxesAreCounted
  <2>5. answer' = "created" => Cardinality(Used(inUse')) <= MaxSandboxes
    BY <1>1, <2>1, <2>3, <2>4
  <2>. QED
    BY <1>1, <2>1, <2>2, <2>5, UncalledStep
<1>10. ASSUME NEW a \in Account, OwnedGoes(a) PROVE RateInv'
  <2>1. /\ owned[a] > inUse[a] /\ owned' = [owned EXCEPT ![a] = owned[a] - 1]
        /\ UNCHANGED <<clock, windows, inUse, turns, letThrough, answer>>
    BY <1>1, <1>10 DEF OwnedGoes
  <2>2. owned[a] - 1 \in Nat /\ owned[a] - 1 <= MaxTotalProjects
    BY <1>1, <2>1
  <2>3. owned' \in [Account -> Nat] /\ \A b \in Account : owned'[b] <= MaxTotalProjects
    BY <1>1, <2>1, <2>2
  <2>. QED
    BY <1>1, <2>1, <2>3, UncalledStep
<1>11. CASE UNCHANGED rateVars
  BY <1>1, <1>11, UncalledStep DEF rateVars
<1>. QED
  BY <1>2, <1>3, <1>4, <1>5, <1>6, <1>7, <1>8, <1>9, <1>10, <1>11 DEF RateNext

LEMMA RateIsSafe == RateInv => RateTypeOK /\ LimitsHold
<1>. SUFFICES ASSUME RateInv PROVE RateTypeOK /\ LimitsHold
  OBVIOUS
<1>1. ASSUME NEW k \in Account \X Limited, NEW t \in 0..MaxClock, NEW end \in Nat,
             end <= t + WindowMs - 1
      PROVE  /\ Between(k, t, end) <= 2 * RateMax
             /\ windows[k].count > 0 /\ t = windows[k].start => Between(k, t, end) <= RateMax
  <2>1. WindowOk(letThrough[k], windows[k], clock) /\ clock \in Nat /\ t \in Nat
        /\ RateMax \in Nat /\ WindowMs \in Nat \ {0}
    BY RateAssumption DEF RateInv, RateTypeOK
  <2>2. PICK calls : calls = letThrough[k]
    OBVIOUS
  <2>3. CallsAre(calls, clock)
    BY <2>1, <2>2 DEF WindowOk
  <2>. DEFINE between == {c \in calls : c[1] \in t..end}
  <2>4. Between(k, t, end) = Cardinality(between)
    BY <2>2 DEF Between
  <2>5. between \subseteq Stretch(calls, t) /\ between \subseteq Since(calls, t)
    BY <1>1, <2>1 DEF Stretch, Since
  <2>. HIDE DEF between
  <2>6. /\ IsFiniteSet(Stretch(calls, t)) /\ Cardinality(Stretch(calls, t)) \in Nat
        /\ IsFiniteSet(Since(calls, t)) /\ Cardinality(Since(calls, t)) \in Nat
    BY <2>1, <2>3, CallsAreCounted
  <2>7. Cardinality(between) \in Nat /\ Cardinality(between) <= Cardinality(Stretch(calls, t))
        /\ Cardinality(between) <= Cardinality(Since(calls, t))
    BY <2>5, <2>6, FewerAre
  <2>8. Cardinality(Stretch(calls, t)) <= 2 * RateMax
    BY <2>1, <2>2 DEF WindowOk
  <2>9. t = windows[k].start => Cardinality(Since(calls, t)) <= RateMax
    BY <2>1, <2>2 DEF WindowOk
  <2>. QED
    BY <2>1, <2>4, <2>6, <2>7, <2>8, <2>9
<1>2. ASSUME NEW t \in 0..MaxClock
      PROVE  LET end == IF t + WindowMs - 1 > MaxClock THEN MaxClock ELSE t + WindowMs - 1
             IN end \in Nat /\ end <= t + WindowMs - 1
  BY RateAssumption
<1>3. \A a \in Account : owned[a] <= MaxTotalProjects
  BY DEF RateInv
<1>4. answer = "created" => SandboxesInUse <= MaxSandboxes
  BY DEF RateInv
<1>5. ASSUME NEW k \in Account \X Limited, NEW t \in 0..MaxClock
      PROVE  LET end == IF t + WindowMs - 1 > MaxClock THEN MaxClock ELSE t + WindowMs - 1
             IN /\ Between(k, t, end) <= 2 * RateMax
                /\ windows[k].count > 0 /\ t = windows[k].start => Between(k, t, end) <= RateMax
  BY <1>1, <1>2
<1>6. RateTypeOK
  BY DEF RateInv
<1>. QED
  BY <1>3, <1>4, <1>5, <1>6 DEF LimitsHold
=============================================================================
