------------------------- MODULE MCPlatformServices -------------------------
(***************************************************************************)
(* Instances of PlatformServices for TLC.                                  *)
(***************************************************************************)
EXTENDS PlatformServices, TLC

CONSTANTS keyHead, key \* values of secrets

\* "user c", "user-c" and user/c make the same directory; "c" is stocked.
MCBase == {"user c", "user-c", "c"}
MCSlug == {"c", "user-c", "user-user-c"}
MCSlugOf == "c" :> "c" @@ "user-c" :> "user-c" @@ "user c" :> "user-c"
MCUserSlugOf == "c" :> "user-c" @@ "user-c" :> "user-user-c" @@ "user c" :> "user-user-c"

\* All stores are injected, or the skills only.
MCDeployments ==
  {[wired |-> {"skills", "memory", "connectors"}, strict |-> TRUE]} \cup
  [wired : {{"skills"}}, strict : BOOLEAN]
MCReserved == {"c"}

\* One secret value is part of another.
MCLiteral == {keyHead, key}
MCSize == keyHead :> 1 @@ key :> 2
MCPartOf == {<<keyHead, key>>}
=============================================================================
