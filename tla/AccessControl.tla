--------------------------- MODULE AccessControl ----------------------------
(***************************************************************************)
(* How a browser gets in and stays in: auth/login-flow.js gives out states *)
(* and takes them back once, auth/session.js issues, verifies, rotates and *)
(* revokes tokens, auth/share-link-service.js gives read access by links.  *)
(* The sessions of one account, a project of that account, and restarts of *)
(* the process, which forget both Maps.  Signatures, cookies and claims    *)
(* are right or the call fails; a call that fails without a trace is left  *)
(* out.                                                                    *)
(***************************************************************************)
EXTENDS Naturals, Sequences, FiniteSets, SequencesExt

CONSTANTS
  Login,       \* login states, each bound to a browser by its cookie
  Session,     \* session identities
  ShareLink,
  MaxConsumed, \* maxConsumedStates
  MaxRotation  \* bound: rotations of one session

ASSUME AccessAssumption == MaxConsumed \in Nat \ {0} /\ MaxRotation \in Nat

VARIABLES
  login,      \* a state is issued, and expires after stateTtlMs
  consumed,   \* the Map of used states, in insertion order
  exchanging, \* callbacks that wait for the identity provider, per state
  granted,    \* auxiliary: sessions given out since the start, per state
  evicted,    \* auxiliary: states that the cap threw out of consumed
  rotation,   \* the Map of sessions: the rotation that is valid, or a word
  minted,     \* how often a token of a session was made, minus one
  aged,       \* sessions past their absolute lifetime
  reused,     \* auxiliary: sessions of which a rotated-out token was shown
  link,       \* the files of the links
  withdrawn,  \* auxiliary: links whose owner revoked them
  projectIs   \* whether projectResolver still finds the project

tokenVars == <<rotation, minted, aged, reused>>
linkFileVars == <<link, withdrawn, projectIs>>
loginVars == <<login, consumed, exchanging, granted, evicted>>
accessVars == <<loginVars, tokenVars>>

AccessInit ==
  /\ login = [l \in Login |-> "none"] /\ consumed = <<>> /\ evicted = {}
  /\ exchanging = [l \in Login |-> 0] /\ granted = [l \in Login |-> 0]
  /\ rotation = [s \in Session |-> "none"] /\ minted = [s \in Session |-> 0]
  /\ aged = {} /\ reused = {} /\ withdrawn = {}
  /\ link = [k \in ShareLink |-> "none"] /\ projectIs = TRUE

AccessTypeOK ==
  /\ login \in [Login -> {"none", "issued", "expired"}]
  /\ ToSet(consumed) \subseteq Login /\ Len(consumed) <= MaxConsumed
  /\ exchanging \in [Login -> 0..2] /\ granted \in [Login -> 0..2]
  /\ minted \in [Session -> 0..MaxRotation]
  /\ \A s \in Session : rotation[s] \in {"none", "live", "gone"}
  /\ evicted \subseteq Login /\ aged \cup reused \subseteq Session

LinkTypeOK ==
  /\ link \in [ShareLink -> {"none", "live", "expired", "revoked"}]
  /\ withdrawn \subseteq ShareLink /\ projectIs \in BOOLEAN

-----------------------------------------------------------------------------
BeginLogin(l) ==
  /\ login[l] = "none" /\ login' = [login EXCEPT ![l] = "issued"]
  /\ UNCHANGED <<consumed, exchanging, granted, evicted, tokenVars>>

\* The Map without a state; it holds a state once.
Purged(l) ==
  IF l \in ToSet(consumed) THEN RemoveAt(consumed, CHOOSE i \in DOMAIN consumed : consumed[i] = l)
  ELSE consumed

\* Time passes: the state expires, and the next callback forgets its use.
StateExpires(l) ==
  /\ login[l] = "issued" /\ login' = [login EXCEPT ![l] = "expired"]
  /\ consumed' = Purged(l)
  /\ UNCHANGED <<exchanging, granted, evicted, tokenVars>>

\* completeLogin() up to its await, and what is in the Map after it.
\* (Mutant: the state is marked as used only after the exchange.)
ConsumeLate(l) == consumed
Consume(l) ==
  LET all == Append(consumed, l)
  IN IF Len(all) > MaxConsumed THEN Tail(all) ELSE all

CompleteLogin(l) ==
  /\ login[l] = "issued" /\ l \notin ToSet(consumed)
  /\ exchanging[l] + granted[l] < 2
  /\ consumed' = Consume(l)
  /\ evicted' = evicted \cup (ToSet(consumed) \ ToSet(consumed'))
  /\ exchanging' = [exchanging EXCEPT ![l] = @ + 1]
  /\ UNCHANGED <<login, granted, tokenVars>>

\* authenticate() denies, or scopeSession() issues a session.
LoginDenied(l) ==
  /\ exchanging[l] > 0 /\ exchanging' = [exchanging EXCEPT ![l] = @ - 1]
  /\ UNCHANGED <<login, consumed, granted, evicted, tokenVars>>

LoginSucceeds(l, s) ==
  /\ exchanging[l] > 0 /\ exchanging' = [exchanging EXCEPT ![l] = @ - 1]
  /\ granted' = [granted EXCEPT ![l] = @ + 1]
  /\ rotation[s] = "none" /\ rotation' = [rotation EXCEPT ![s] = "live"]
  /\ UNCHANGED <<login, consumed, evicted, minted, aged, reused>>

-----------------------------------------------------------------------------
\* decode() of the token made by the n-th rotation: it is the newest one.
Verifies(s, n) == rotation[s] = "live" /\ n = minted[s] /\ s \notin aged

\* (Mutant: a rotated-out token is refused and nothing more.)
AfterStale(s) == rotation
AfterReuse(s) == [rotation EXCEPT ![s] = "gone"]

\* A token that is refused takes its session with it if it was rotated out,
\* or if the session has lived for as long as it may.
Refuse(s, n) ==
  /\ rotation[s] = "live" /\ n \in 0..minted[s] /\ ~Verifies(s, n)
  /\ rotation' = IF n < minted[s] THEN AfterReuse(s) ELSE [rotation EXCEPT ![s] = "gone"]
  /\ reused' = IF n < minted[s] THEN reused \cup {s} ELSE reused
  /\ UNCHANGED <<minted, aged, loginVars>>

Rotate(s, n) ==
  /\ Verifies(s, n) /\ n < MaxRotation
  /\ minted' = [minted EXCEPT ![s] = n + 1]
  /\ UNCHANGED <<rotation, aged, reused, loginVars>>

\* revoke(), or reapExpired() of a session that is past its lifetime.
RevokeSession(s) ==
  /\ rotation[s] = "live" /\ rotation' = [rotation EXCEPT ![s] = "gone"]
  /\ UNCHANGED <<minted, aged, reused, loginVars>>

SessionAges(s) ==
  /\ rotation[s] = "live" /\ aged' = aged \cup {s}
  /\ UNCHANGED <<rotation, minted, reused, loginVars>>

\* The process starts again: callbacks that wait, used states and sessions are
\* gone.  A state outlives it under a configured OIDC_STATE_SIGNING_KEY, else
\* its signature is of a key that nobody has any more.
AccessRestart ==
  /\ \/ UNCHANGED login
     \/ login' = [l \in Login |-> IF login[l] = "issued" THEN "expired" ELSE login[l]]
  /\ consumed' = <<>> /\ evicted' = {}
  /\ exchanging' = [l \in Login |-> 0] /\ granted' = [l \in Login |-> 0]
  /\ rotation' = [s \in Session |-> IF rotation[s] = "live" THEN "gone" ELSE rotation[s]]
  /\ UNCHANGED <<minted, aged, reused>>

-----------------------------------------------------------------------------
\* put(): a temporary file is renamed over the old record, so that a reader
\* finds one of the two.
PutLink(k, record) == link' = [link EXCEPT ![k] = record]

\* get(): a record that was never put, or has gone, is no link at all.
OnFile(k) == link[k] # "none"

\* share() and revoke() ask projectResolver first, and so does access().
Share(k) ==
  /\ projectIs /\ ~OnFile(k) /\ PutLink(k, "live")
  /\ UNCHANGED <<withdrawn, projectIs>>

RevokeLink(k) ==
  /\ projectIs /\ OnFile(k) /\ link[k] # "revoked"
  /\ PutLink(k, "revoked") /\ withdrawn' = withdrawn \cup {k}
  /\ UNCHANGED projectIs

LinkExpires(k) ==
  /\ link[k] = "live" /\ link' = [link EXCEPT ![k] = "expired"]
  /\ UNCHANGED <<withdrawn, projectIs>>

ProjectGoes ==
  /\ projectIs /\ projectIs' = FALSE
  /\ UNCHANGED <<link, withdrawn>>

\* access(): a live read grant of a project that is there.
Opens(k) == OnFile(k) /\ link[k] = "live" /\ projectIs

AccessNext ==
  \/ \E l \in Login : BeginLogin(l) \/ StateExpires(l) \/ CompleteLogin(l) \/ LoginDenied(l)
  \/ \E l \in Login, s \in Session : LoginSucceeds(l, s)
  \/ \E s \in Session : RevokeSession(s) \/ SessionAges(s)
  \/ \E s \in Session, n \in 0..MaxRotation : Refuse(s, n) \/ Rotate(s, n)
  \/ AccessRestart

LinkNext ==
  \/ \E k \in ShareLink : Share(k) \/ RevokeLink(k) \/ LinkExpires(k)
  \/ ProjectGoes

-----------------------------------------------------------------------------
\* No two sessions that are there come of one login state, however many
\* callbacks with it overlap, unless the cap on remembered states has thrown it
\* out (login-flow.js:296).  With a configured key a state that was used before
\* a restart is taken once more after it: "the state is consumed before the
\* exchange so a replay cannot mint a second session" (login-flow.js:253) holds
\* of one process only; the first session has ended with the old one.
StateIsSpentOnce == \A l \in Login : granted[l] <= 1 \/ l \in evicted

\* No token of a session works once a rotated-out one was shown, whatever the
\* order of rotation and expiry.
NoWayBack == \A s \in reused, n \in 0..MaxRotation : ~Verifies(s, n)

\* A withdrawn link opens nothing, and no later share or expiry revives it.
WithdrawnLinkDies == \A k \in withdrawn : ~Opens(k)
=============================================================================
