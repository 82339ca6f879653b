-------------------------------- MODULE SignIn --------------------------------
(***************************************************************************)
(* One tab's login: token-store.js keeps the token bearer in memory and in *)
(* sessionStorage, auth.js the login state of the store and the expiry     *)
(* timer, api.js sends the token along and reports every 401.  Requests    *)
(* and the clock go on meanwhile, and the page may be loaded again.  The   *)
(* storage may throw on every call, and each time that is swallowed: what  *)
(* could not be written is gone with the page, what could not be removed   *)
(* is there for the next one.                                              *)
(***************************************************************************)
EXTENDS Naturals, FiniteSets

CONSTANTS
  Bearer, \* tokens, each of them with its own expiry
  Asking     \* requests under way

VARIABLES
  bearer,    \* the token in memory
  saved,     \* the one in sessionStorage
  lingers,   \* auxiliary: it is there because removeItem() threw
  hasToken,  \* auth.hasToken in the store
  timer,     \* the token whose expiry the timer was armed for
  past,      \* tokens whose time is over
  revoked,   \* tokens the server does not take any more
  asks,      \* request -> the token it was sent with
  notice     \* what the page says: none, loginFailed or reauth

signInVars == <<bearer, saved, lingers, hasToken, timer, past, revoked, asks, notice>>
pageVars == <<bearer, saved, lingers, hasToken, timer, notice>>

SignInInit ==
  /\ bearer = "none" /\ saved = "none" /\ lingers = FALSE /\ hasToken = FALSE /\ timer = "off"
  /\ past = {} /\ revoked = {} /\ asks = [a \in Asking |-> "idle"] /\ notice = "none"

SignInTypeOK ==
  /\ {bearer, saved} \subseteq Bearer \cup {"none"} /\ timer \in Bearer \cup {"off"}
  /\ lingers \in BOOLEAN /\ hasToken \in BOOLEAN /\ past \cup revoked \subseteq Bearer
  /\ asks \in [Asking -> Bearer \cup {"idle"}] /\ notice \in {"none", "loginFailed", "reauth"}

-----------------------------------------------------------------------------
IsValid(t) == t \in Bearer \ past

\* setItem() may throw: the token is then in memory only.
PersistToStorage(t) ==
  \/ saved' = t /\ lingers' = FALSE
  \/ UNCHANGED <<saved, lingers>>

\* removeItem() may throw: the record stays in the storage.
RemoveFromStorage ==
  \/ saved' = "none" /\ lingers' = FALSE
  \/ saved # "none" /\ UNCHANGED saved /\ lingers' = TRUE

ClearToken == bearer' = "none" /\ RemoveFromStorage

\* clearAndReturnToLogin().  (Mutant: the storage keeps its copy.)
ReturnToLoginOnly ==
  /\ bearer' = "none" /\ hasToken' = FALSE /\ timer' = "off" /\ notice' = "reauth"
  /\ UNCHANGED <<saved, lingers>>
ClearAndReturnToLogin ==
  ClearToken /\ hasToken' = FALSE /\ timer' = "off" /\ notice' = "reauth"

ArmExpiry(t) == timer' = t

\* handleCallback() of a payload; one that is past already is refused, and an
\* earlier token stays.
CallbackSigned(t) ==
  /\ IsValid(t) /\ bearer' = t /\ PersistToStorage(t)
  /\ hasToken' = TRUE /\ notice' = "none" /\ ArmExpiry(t)
  /\ UNCHANGED <<past, revoked, asks>>

CallbackUnusable ==
  notice' = "loginFailed" /\ UNCHANGED <<bearer, saved, lingers, hasToken, timer, past, revoked, asks>>

\* Denied, malformed, or no answer: ensureNoToken(); the timer stays armed.
CallbackFailed ==
  /\ notice' = "loginFailed"
  /\ IF bearer # "none" THEN ClearToken /\ hasToken' = FALSE
     ELSE UNCHANGED <<bearer, saved, lingers, hasToken>>
  /\ UNCHANGED <<timer, past, revoked, asks>>

\* The delay ran out; a valid token is kept, since another one came in.
ExpiryFires ==
  /\ timer \in past
  /\ IF IsValid(bearer) THEN timer' = "off" /\ UNCHANGED <<bearer, saved, lingers, hasToken, notice>>
     ELSE ClearAndReturnToLogin
  /\ UNCHANGED <<past, revoked, asks>>

CheckExpiry ==
  /\ bearer \in past /\ ClearAndReturnToLogin /\ UNCHANGED <<past, revoked, asks>>

Logout == ClearAndReturnToLogin /\ UNCHANGED <<past, revoked, asks>>

\* request(): without a token nothing is sent.
Request(a) ==
  /\ asks[a] = "idle" /\ bearer # "none" /\ asks' = [asks EXCEPT ![a] = bearer]
  /\ UNCHANGED <<pageVars, past, revoked>>

\* A 401 goes to the access-denied listeners, whatever token was sent.
AnswerDenied(a) ==
  /\ asks[a] \in revoked \cup past /\ asks' = [asks EXCEPT ![a] = "idle"]
  /\ ClearAndReturnToLogin /\ UNCHANGED <<past, revoked>>

AnswerOther(a) ==
  /\ asks[a] # "idle" /\ asks' = [asks EXCEPT ![a] = "idle"]
  /\ UNCHANGED <<pageVars, past, revoked>>

\* The page is loaded: hydrateFromStorage() takes a valid bearer; the store
\* starts without a token, and nothing arms the timer.  getItem() may throw.
Load ==
  /\ \/ IF IsValid(saved) THEN bearer' = saved /\ UNCHANGED <<saved, lingers>> ELSE ClearToken
     \/ bearer' = "none" /\ UNCHANGED <<saved, lingers>>
  /\ hasToken' = FALSE /\ timer' = "off" /\ notice' = "none" /\ asks' = [a \in Asking |-> "idle"]
  /\ UNCHANGED <<past, revoked>>

Passes(t) == t \notin past /\ past' = past \cup {t} /\ UNCHANGED <<pageVars, revoked, asks>>
Revoke(t) == t \notin revoked /\ revoked' = revoked \cup {t} /\ UNCHANGED <<pageVars, past, asks>>

SignInNext ==
  \/ CallbackUnusable \/ CallbackFailed \/ ExpiryFires \/ CheckExpiry \/ Logout \/ Load
  \/ \E a \in Asking : Request(a) \/ AnswerDenied(a) \/ AnswerOther(a)
  \/ \E t \in Bearer : CallbackSigned(t) \/ Passes(t) \/ Revoke(t)

-----------------------------------------------------------------------------
\* The page shows a login only while it holds a token and a timer that will
\* end it with that token; and once it says that the session has ended, no
\* token is in memory, and none in the storage unless removeItem() threw there
\* (clear() says "no field survives in either sink", token-store.js:202; what
\* survives then signs the tab in again when the page is loaded).
SignInIsMirrored ==
  /\ hasToken => bearer \in Bearer /\ timer = bearer
  /\ notice = "reauth" => bearer = "none" /\ ~hasToken /\ (saved = "none" \/ lingers)
=============================================================================
