CONSTANTS
  Login = {l1, l2}
  Session = {t1, t2}
  ShareLink = {k1, k2}
  MaxConsumed = 1
  MaxRotation = 1
  Key = {key1, key2}
  Fetch = {f1, f2}
  CacheTtl = 2
  MaxStale = 2
  NegativeCache = 1
  MinRefetch = 1
  HttpTimeout = 1
  Service = {v1, v2}
  Names = 2
  Capture = {p1, p2}
  MaxBroken = 2
  Run = {r1, r2}
  Network = {n1}
  MaxProxy = 3
  UsageProject = {u1, u2}
  MaxRuns = 1
  MaxTeardowns = 1
  Command = {m1, m2}
  Call = {i1, i2}
  Entry = {e1, e2}
  Output = {o1, o2}
  MaxEdit = 1
  Database = {d1, d2}
  MaxSchema = 2
  Propagation = {g1, g2}
  Shared = {w1, w2}
  Job = {j1, j2}
  Stamp = {1, 2, 3}
  ReleasesKept = 2
  MaxEdits = 1
  Fact = {x1, x2, x3, x4}
  CapEntries = 2
  CapBytes = 6
  KeepRecent = 1
  MaxEntries = 3
  Base <- MCBase
  Slug <- MCSlug
  SlugOf <- MCSlugOf
  UserSlugOf <- MCUserSlugOf
  Reserved <- MCReserved
  SkillBody = {b1, b2}
  Bearer = {y1, y2}
  Asking = {a1}
  Tab = {tab1, tab2}
  Experience = {dashboard, chat}
  DefaultExperience = chat
  Theme = {dark, light}
  DefaultTheme = dark
  MaxFrames = 2
  MaxChanges = 2
  Owned = {o3, o4}
  Deployments <- MCDeployments
  Account = {ann, bob}
  Limited = {"project.create", "generation.turn"}
  Settings = {"settings.skill"}
  RateMax = 1
  WindowMs = 2
  MaxTotalProjects = 2
  MaxSandboxes = 1
  MaxOwnSandboxes = 1
  MaxClock = 2
  Failure = {s1, s2, s3}
  MaxHealing = 2
  MaxFailedBuilds = 2
  EditedFile = {f3, f4}
  MaxBatch = 3
  MaxVersion = 4
  SourceFile = {s4, s5}
  TemplateFile = {s6}
  ExcludedFile = {s5}
  EnvName = {n2}
  FileLimit = 2
  ExportFile = {f5, f6}
  keyHead = keyHead
  key = key
  Literal <- MCLiteral
  Size <- MCSize
  PartOf <- MCPartOf
  ExportLimit = 1
  MaxTemp = 1
  Newborn = {b3, b4}
  Server = {dev1, dev2}
  Snap = {snap1, snap2}
  RestartCap = 2
  MaxNews = 1
SPECIFICATION Spec
CHECK_DEADLOCK FALSE
INVARIANTS FailedDeployChangesNothing
