---------------------------- MODULE CommandGuard -----------------------------
(***************************************************************************)
(* sandbox/command-guard.js: a command is classified, perhaps consented    *)
(* to, and run.  Both waits race a timer, and the loser of a race answers  *)
(* later, to nobody.  A sub-agent is never asked for consent.              *)
(***************************************************************************)
EXTENDS Naturals, FiniteSets

CONSTANT Command

VARIABLES
  guard,     \* where run() is
  class,     \* what the classifier says of the command
  subAgent,  \* commands of sub-agents
  asked,     \* consent requests nobody has answered, timed out or not
  consented, \* auxiliary: answered yes while run() was waiting
  executed   \* commands handed to the sandbox

guardVars == <<guard, class, subAgent, asked, consented, executed>>

GuardInit ==
  /\ guard = [c \in Command |-> "new"] /\ asked = {} /\ consented = {} /\ executed = {}
  /\ class \in [Command -> {"allow", "confirm", "refuse", "unclassified"}]
  /\ subAgent \in SUBSET Command

GuardTypeOK ==
  /\ guard \in [Command -> {"new", "classify", "consent", "exec", "refused", "denied", "ran"}]
  /\ asked \cup consented \cup executed \cup subAgent \subseteq Command

To(c, where) == guard' = [guard EXCEPT ![c] = where]

BeginClassify(c) ==
  /\ guard[c] = "new" /\ To(c, "classify")
  /\ UNCHANGED <<class, subAgent, asked, consented, executed>>

\* No answer in time, an error, or an answer that makes no sense: closed.
FailClosed(c) ==
  /\ guard[c] = "classify" /\ To(c, "refused")
  /\ UNCHANGED <<class, subAgent, asked, consented, executed>>

Execute(c) == To(c, "exec") /\ executed' = executed \cup {c}

Classified(c) ==
  /\ guard[c] = "classify" /\ class[c] # "unclassified"
  /\ \/ class[c] = "allow" /\ Execute(c) /\ UNCHANGED asked
     \/ /\ class[c] = "refuse" \/ (class[c] = "confirm" /\ c \in subAgent)
        /\ To(c, "refused") /\ UNCHANGED <<asked, executed>>
     \/ /\ class[c] = "confirm" /\ c \notin subAgent
        /\ To(c, "consent") /\ asked' = asked \cup {c} /\ UNCHANGED executed
  /\ UNCHANGED <<class, subAgent, consented>>

\* confirmTimeoutMs is over, or there is nobody to ask.
ConsentTimesOut(c) ==
  /\ guard[c] = "consent" /\ To(c, "denied")
  /\ UNCHANGED <<class, subAgent, asked, consented, executed>>

\* The answer; one that comes too late finds nobody waiting.
\* (Mutant: a late yes runs the command.)
LateYesRuns(c) == Execute(c)
YesTo(c) == IF guard[c] = "consent" THEN Execute(c) ELSE UNCHANGED <<guard, executed>>

Answer(c, yes) ==
  /\ c \in asked /\ asked' = asked \ {c}
  /\ IF yes THEN YesTo(c)
     ELSE /\ guard' = IF guard[c] = "consent" THEN [guard EXCEPT ![c] = "denied"] ELSE guard
          /\ UNCHANGED executed
  /\ consented' = IF yes /\ guard[c] = "consent" THEN consented \cup {c} ELSE consented
  /\ UNCHANGED <<class, subAgent>>

ExecReturns(c) ==
  /\ guard[c] = "exec" /\ To(c, "ran")
  /\ UNCHANGED <<class, subAgent, asked, consented, executed>>

GuardNext ==
  \E c \in Command :
    \/ BeginClassify(c) \/ FailClosed(c) \/ Classified(c) \/ ConsentTimesOut(c)
    \/ \E yes \in BOOLEAN : Answer(c, yes)
    \/ ExecReturns(c)

-----------------------------------------------------------------------------
\* Only what is allowed, or consented to in time, ever runs, and run() never
\* reports as denied or refused what has run.
OnlyConsentedRuns ==
  /\ \A c \in executed : class[c] = "allow" \/ (class[c] = "confirm" /\ c \in consented \ subAgent)
  /\ \A c \in Command : guard[c] \in {"refused", "denied"} => c \notin executed
=============================================================================
