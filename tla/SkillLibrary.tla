----------------------------- MODULE SkillLibrary -----------------------------
(***************************************************************************)
(* The skills of one account, skills/library.js: one directory per skill,  *)
(* named after its invocation name with every other character made a dash, *)
(* the slash of the user's namespace as well.  An invocation name is       *)
(* <<namespace, base>>; SlugOf and UserSlugOf say which names get the same *)
(* directory.  A call that is refused or whose write fails changes nothing *)
(* and is left out.                                                        *)
(***************************************************************************)
EXTENDS Naturals, FiniteSets

CONSTANTS
  Base,     \* names a user asks for
  Slug,     \* directory names
  SlugOf,   \* Base -> Slug: dirNameFor() of a name
  UserSlugOf, \* of user/ and the name
  Reserved, \* base names of stocked and vendored skills
  SkillBody

ASSUME SkillAssumption == {SlugOf, UserSlugOf} \subseteq [Base -> Slug] /\ Reserved \subseteq Base

VARIABLES
  skillDir,   \* the directories: none, or the name and body in SKILL.md
  stored,     \* auxiliary: skills reported as stored and not deleted since
  overwritten \* auxiliary: names whose directory another name was written to

skillVars == <<skillDir, stored, overwritten>>

Namespaces == {"base", "user"}
SkillName == Namespaces \X Base
NoSkill == [name |-> <<"none", "none">>, body |-> "none"]
DirOf(n) == IF n[1] = "user" THEN UserSlugOf[n[2]] ELSE SlugOf[n[2]]
SkillDirs == Slug

SkillInit ==
  /\ skillDir = [d \in SkillDirs |-> NoSkill] /\ stored = {} /\ overwritten = {}

SkillTypeOK ==
  /\ skillDir \in [SkillDirs -> {NoSkill} \cup [name : SkillName, body : SkillBody]]
  /\ stored \subseteq [name : SkillName, body : SkillBody] /\ overwritten \subseteq SkillName

-----------------------------------------------------------------------------
\* readUserSkills(): the invocation names found in the directories.
UserSkills == {skillDir[d] : d \in {e \in SkillDirs : skillDir[e] # NoSkill}}
Taken == {s.name : s \in UserSkills}

\* resolveInvocationName(): a name that collides goes to the user's namespace,
\* or is refused.  (Mutant: the user's own names are not looked at.)
ResolvedBlindly(b) == {<<IF b \in Reserved THEN "user" ELSE "base", b>>}
Resolved(b) ==
  IF b \notin Reserved /\ <<"base", b>> \notin Taken THEN {<<"base", b>>}
  ELSE {<<"user", b>>} \ Taken

\* Writing a skill is meant to replace those names only.
WriteUserSkill(s, replaces) ==
  LET d == DirOf(s.name)
  IN /\ skillDir' = [skillDir EXCEPT ![d] = s]
     /\ stored' = {t \in stored : t.name # s.name \/ t.name \notin replaces} \cup {s}
     /\ overwritten' = IF skillDir[d].name \in SkillName \ {s.name}
                       THEN (overwritten \ {s.name}) \cup {skillDir[d].name}
                       ELSE overwritten \ {s.name}

\* createUserSkill() and importSkill().
AddSkill(b, body) ==
  \E n \in Resolved(b) : WriteUserSkill([name |-> n, body |-> body], overwritten)

EditUserSkill(n, body) ==
  /\ n \in Taken /\ (n[1] = "user" \/ n[2] \notin Reserved)
  /\ WriteUserSkill([name |-> n, body |-> body], {n})

DeleteUserSkill(n) ==
  /\ n \in Taken /\ (n[1] = "user" \/ n[2] \notin Reserved)
  /\ skillDir' = [d \in SkillDirs |-> IF skillDir[d].name = n THEN NoSkill ELSE skillDir[d]]
  /\ stored' = {t \in stored : t.name # n} /\ overwritten' = overwritten \ {n}

\* deleteAccountData(): when it fails, it may have removed some.
DeleteSkillData ==
  /\ \E left \in SUBSET SkillDirs :
       skillDir' = [d \in SkillDirs |-> IF d \in left THEN skillDir[d] ELSE NoSkill]
  /\ stored' = {} /\ overwritten' = {}

SkillNext ==
  \/ \E b \in Base, body \in SkillBody : AddSkill(b, body)
  \/ \E n \in SkillName, body \in SkillBody : EditUserSkill(n, body)
  \/ \E n \in SkillName : DeleteUserSkill(n)
  \/ DeleteSkillData

-----------------------------------------------------------------------------
\* A skill that was stored is found under its name with its last body until it
\* is deleted, unless its directory is also that of another name, such as
\* user/a of user-a, under which something was stored: such a skill is lost,
\* although library.js:267 assumes of a resolved name that "its dir is free" and
\* requirement 13.6 leaves the existing skill unchanged.  And no user's skill
\* takes the name of a stocked one.
SkillsAreKept ==
  /\ \A s \in stored : s \in UserSkills \/ s.name \in overwritten
  /\ \A n \in overwritten : \E m \in SkillName \ {n} : DirOf(m) = DirOf(n)
  /\ \A s \in UserSkills : s.name[1] = "base" => s.name[2] \notin Reserved
=============================================================================
