------------------------------ MODULE Portability ------------------------------
(***************************************************************************)
(* What portability/ does with the files of a project.  The two services   *)
(* share nothing but the directory, and each has its own state here.       *)
(*                                                                         *)
(* The export, portability/export.js, with the substitution of             *)
(* secrets/generation-guardrail.js: a text is the set of literal values in *)
(* it; one value may be part of another, and replacing the part first      *)
(* would leave the rest of the whole behind.  The call is synchronous: a   *)
(* step is one export, with all that can fail in it.                       *)
(*                                                                         *)
(* The lock-in audit, portability/lockin-audit.js: a static scan of the    *)
(* tree, and the rescan of a prior result in which only the changed files  *)
(* are read again.  One signal stands for those found in a single line     *)
(* (telemetry, collector, platform host, ...); an unused environment       *)
(* variable is found by looking at every file.                             *)
(***************************************************************************)
EXTENDS Naturals, FiniteSets

CONSTANTS
  ExportFile, Literal,
  Size,        \* Literal -> Nat: lengths
  PartOf,      \* pairs <<a, b>>: a occurs in b
  ExportLimit,
  MaxTemp      \* bound: temporary directories left

\* What is left of a value when a part of it was replaced; a reference to it.
Remainder(l) == <<"rest", l>>
Reference(l) == <<"env", l>>

\* Neither is a value.
ASSUME ExportAssumption ==
  /\ Size \in [Literal -> Nat \ {0}] /\ {ExportLimit, MaxTemp} \subseteq Nat
  /\ \A p \in PartOf : p \in Literal \X Literal /\ Size[p[1]] < Size[p[2]]
  /\ \A l \in Literal : Remainder(l) \notin Literal /\ Reference(l) \notin Literal

VARIABLES
  exportable, \* the project's files
  dest,       \* the directory of the last export, by file
  tempDirs,   \* temporary destinations on disk
  exported    \* the result of the last export

exportVars == <<exportable, dest, tempDirs, exported>>

NoText == [kind |-> "none", holds |-> {}]
Contents == [kind : {"text", "binary"}, holds : SUBSET Literal]
NoExport == [result |-> "none", files |-> [f \in ExportFile |-> NoText], names |-> {}]

ExportInit ==
  /\ exportable = [f \in ExportFile |-> NoText] /\ dest = [f \in ExportFile |-> "none"]
  /\ tempDirs = 0 /\ exported = NoExport

ExportTypeOK ==
  /\ exportable \in [ExportFile -> Contents \cup {NoText}] /\ tempDirs \in 0..MaxTemp
  /\ dest \in [ExportFile -> {"none", "theirs", "exported"}] /\ exported.names \subseteq Literal
  /\ exported.result \in {"none", "ok", "file_count", "read_failed", "timeout", "write_failed"}

-----------------------------------------------------------------------------
\* scanContent() replaces the longest value first.
\* (Mutant: the shortest first.)
ShortestFirst(a, b) == Size[a] < Size[b]
ReplacedBefore(a, b) == Size[a] > Size[b]

Substituted(holds, known) ==
  LET found  == holds \cap known
      torn == {l \in found : \E a \in known : <<a, l>> \in PartOf /\ ReplacedBefore(a, l)}
  IN (holds \ found) \cup {Remainder(l) : l \in torn} \cup {Reference(l) : l \in found \ torn}

\* A binary file is exported as it is.
ExportTree(known) ==
  [f \in ExportFile |->
     IF exportable[f].kind = "text" THEN [kind |-> "text", holds |-> Substituted(exportable[f].holds, known)]
     ELSE exportable[f]]

FilesIn == {f \in ExportFile : exportable[f] # NoText}

\* writeExport(): the files written, the last of them perhaps in part.
Written(theirs, files) ==
  [f \in ExportFile |-> IF f \in files THEN "exported" ELSE IF f \in theirs THEN "theirs" ELSE "none"]

\* removeExportOutput(): all the names of the export, whatever was written.
\* (Mutant: the files that are complete.)
RemoveComplete(dir, done) == [f \in ExportFile |-> IF f \in done THEN "none" ELSE dir[f]]
RemoveExportOutput(dir, done) == [f \in ExportFile |-> IF f \in FilesIn THEN "none" ELSE dir[f]]

Returns(result, known) ==
  /\ exported' = [result |-> result, names |-> known,
                  files |-> IF result = "ok" THEN ExportTree(known) ELSE NoExport.files]
  /\ UNCHANGED exportable

\* The outcomes of exportProject() into a directory with files of the caller.
Fails(theirs, known) ==
  \/ /\ Cardinality(FilesIn) > ExportLimit /\ Returns("file_count", known)
     /\ dest' = Written(theirs, {})
  \/ \E result \in {"read_failed", "timeout"} :
       Returns(result, known) /\ dest' = Written(theirs, {})
  \/ /\ Cardinality(FilesIn) <= ExportLimit /\ Returns("timeout", known)
     /\ dest' = RemoveExportOutput(Written(theirs, FilesIn), FilesIn)
  \/ /\ Cardinality(FilesIn) <= ExportLimit /\ Returns("write_failed", known)
     /\ \E files \in SUBSET FilesIn : \E done \in SUBSET files :
          dest' = RemoveExportOutput(Written(theirs, files), done)

Succeeds(theirs, known) ==
  /\ Cardinality(FilesIn) <= ExportLimit /\ Returns("ok", known)
  /\ dest' = Written(theirs, FilesIn)

ExportTo(theirs, known) ==
  (Fails(theirs, known) \/ Succeeds(theirs, known)) /\ UNCHANGED tempDirs

\* handleExport() passes no values, so that nothing is substituted, and its
\* temporary directory stays unless the export fails.
HandleExport ==
  \/ Fails({}, {}) /\ UNCHANGED tempDirs
  \/ /\ tempDirs < MaxTemp /\ tempDirs' = tempDirs + 1
     /\ Succeeds({}, {})

\* The last export is forgotten: nothing depends on it.
EditText(f, c) ==
  /\ exportable' = [exportable EXCEPT ![f] = c] /\ exported' = NoExport
  /\ dest' = [g \in ExportFile |-> "none"] /\ UNCHANGED tempDirs

ExportNext ==
  \/ \E theirs \in SUBSET ExportFile, known \in SUBSET Literal : ExportTo(theirs, known)
  \/ HandleExport
  \/ \E f \in ExportFile, c \in Contents \cup {NoText} : EditText(f, c)

-----------------------------------------------------------------------------
\* A text that is exported holds none of the values the caller knows of, nor a
\* rest of one, and every reference in it is in the template; an export that
\* fails leaves no file of its own behind.
ExportIsClean ==
  /\ \A f \in ExportFile : exported.files[f].kind = "text" =>
       /\ exported.files[f].holds \cap (exported.names \cup {Remainder(l) : l \in Literal}) = {}
       /\ \A l \in Literal : Reference(l) \in exported.files[f].holds => l \in exported.names
  /\ exported.result # "ok" => \A f \in ExportFile : dest[f] # "exported"

-----------------------------------------------------------------------------
\* The audit.
CONSTANTS
  SourceFile, TemplateFile, \* a .env.template, .env.example or .env.sample
  ExcludedFile,             \* under node_modules, dist, .git, or a lock file
  EnvName, FileLimit

ASSUME AuditAssumption ==
  FileLimit \in Nat /\ SourceFile \cap TemplateFile = {} /\ ExcludedFile \subseteq SourceFile

VARIABLES
  auditTree, \* the files of the project
  prior,     \* the result that the last audit returned
  dirty      \* files edited since then

auditVars == <<auditTree, prior, dirty>>

AuditFile == SourceFile \cup TemplateFile
\* What a file holds: names it reads or, in a template, declares.
FileContent == [text : BOOLEAN, signal : BOOLEAN, names : SUBSET EnvName]
NoContent == [text |-> FALSE, signal |-> FALSE, names |-> {"none"}]
NoResult == [findings |-> {}, unverified |-> {}, ok |-> FALSE]
Signal(f) == [signal |-> "line", file |-> f, name |-> "none"]
UnusedEnv(f, n) == [signal |-> "unused-env", file |-> f, name |-> n]
Finding == {Signal(f) : f \in AuditFile} \cup {UnusedEnv(f, n) : f \in TemplateFile, n \in EnvName}

AuditInit == auditTree = [f \in AuditFile |-> NoContent] /\ prior = NoResult /\ dirty = {}

AuditTypeOK ==
  /\ auditTree \in [AuditFile -> FileContent \cup {NoContent}] /\ dirty \subseteq AuditFile
  /\ prior.findings \subseteq Finding /\ prior.unverified \subseteq AuditFile

-----------------------------------------------------------------------------
FilesOf(tree) == {f \in AuditFile : tree[f] # NoContent}

\* partition(): excluded files are skipped, binary ones are reported unread.
TextFiles(tree) == {f \in FilesOf(tree) \ ExcludedFile : tree[f].text}
Unverified(tree, files) == (FilesOf(tree) \ (ExcludedFile \cup TextFiles(tree))) \cap files

ScanFile(tree, files) == {Signal(f) : f \in {g \in TextFiles(tree) \cap files : tree[g].signal}}

\* A declaration in a template is not a read.
EnvReadIndex(tree, files) ==
  UNION {tree[f].names : f \in (TextFiles(tree) \cap files) \ TemplateFile}

ScanUnusedEnv(tree, templates, index) ==
  UNION {{UnusedEnv(f, n) : n \in tree[f].names \ index}
         : f \in TextFiles(tree) \cap TemplateFile \cap templates}

Detect(tree) ==
  [ok |-> TRUE, unverified |-> Unverified(tree, AuditFile),
   findings |-> ScanFile(tree, AuditFile)
                \cup ScanUnusedEnv(tree, AuditFile, EnvReadIndex(tree, AuditFile))]

\* audit() with a prior result: what an unchanged file showed on its own is
\* carried, what depends on other files is found anew.
\* (Mutant: the findings of unchanged files are all carried.)
CarryAll(tree, old, changed) ==
  [ok |-> TRUE,
   unverified |-> (old.unverified \ changed) \cup Unverified(tree, changed),
   findings |-> {n \in old.findings : n.file \notin changed} \cup ScanFile(tree, changed)
                \cup ScanUnusedEnv(tree, changed, EnvReadIndex(tree, AuditFile))]
Rescan(tree, old, changed) ==
  [ok |-> TRUE,
   unverified |-> (old.unverified \ changed) \cup Unverified(tree, changed),
   findings |-> {n \in old.findings : n.file \notin changed /\ n.signal # "unused-env"}
                \cup ScanFile(tree, changed)
                \cup ScanUnusedEnv(tree, AuditFile, EnvReadIndex(tree, AuditFile))]

\* A refused or late audit returns no result and leaves the prior one alone.
Audit(result) ==
  /\ Cardinality(FilesOf(auditTree)) <= FileLimit
  /\ prior' = result /\ dirty' = {} /\ UNCHANGED auditTree

AuditWhole == Audit(Detect(auditTree))

AuditChanged(changed) ==
  /\ prior.ok /\ dirty \subseteq changed /\ Audit(Rescan(auditTree, prior, changed))

EditFile(f, c) ==
  /\ auditTree' = [auditTree EXCEPT ![f] = c] /\ dirty' = dirty \cup {f} /\ UNCHANGED prior

AuditNext ==
  \/ AuditWhole
  \/ \E changed \in SUBSET AuditFile : AuditChanged(changed)
  \/ \E f \in AuditFile, c \in FileContent \cup {NoContent} : EditFile(f, c)

-----------------------------------------------------------------------------
\* After any chain of rescans, each told at least of the files edited since,
\* the findings are those that a scan of the whole tree would report: none is
\* stale, and none that an edit of another file brought about is missed.
AuditIsWhole == prior.ok /\ dirty = {} => prior = Detect(auditTree)
=============================================================================
