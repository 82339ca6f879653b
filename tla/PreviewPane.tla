------------------------------ MODULE PreviewPane ------------------------------
(***************************************************************************)
(* The preview of one project as the user sees it: the preview controller  *)
(* and its handlers, the event stream that carries the result of a         *)
(* restart, the poll of public/preview-poll.js, and the store of the page. *)
(* A URL is the dev server it belongs to; a version is a snapshot.  The    *)
(* mobile preview and the selected target are remembered apart.            *)
(***************************************************************************)
EXTENDS Naturals, Sequences

CONSTANTS
  Server,      \* dev servers started, or their URLs
  Snap,
  RestartCap,  \* RESTART_CAP
  MaxNews      \* bound: restart frames on their way

ASSUME PreviewPaneAssumption == {RestartCap, MaxNews} \subseteq Nat

VARIABLES
  devServer,  \* the dev server, or none
  served,     \* what is published: snap and url, or none
  buildError, \* the last publication did not build
  restarts,   \* restartAttempts since a start
  news,       \* frames of the stream on their way
  poll,       \* the poll of the page: rest, sent, or the answer
  pane,       \* preview in the store of the page
  upToDate,    \* auxiliary: what the page last applied is what holds now
  lastBuilt   \* auxiliary: the snapshot last built

paneVars == <<devServer, served, buildError, restarts, news, poll, pane, upToDate, lastBuilt>>
controllerVars == <<devServer, served, buildError, restarts, lastBuilt>>

NoneServed == [snap |-> "none", url |-> "none"]
PaneInit ==
  /\ devServer = "none" /\ served = NoneServed /\ buildError = FALSE /\ restarts = 0
  /\ news = <<>> /\ poll = [at |-> "rest"] /\ upToDate = FALSE /\ lastBuilt = "none"
  /\ pane = [status |-> "loading", url |-> "none", snap |-> "none", offered |-> FALSE,
             unavailable |-> FALSE]

PaneTypeOK ==
  /\ devServer \in Server \cup {"none"} /\ restarts \in 0..RestartCap
  /\ served \in [snap : Snap \cup {"none"}, url : Server \cup {"none"}]
  /\ buildError \in BOOLEAN /\ Len(news) <= MaxNews /\ poll.at \in {"rest", "sent", "answered"}
  /\ pane.status \in {"loading", "ready", "error", "showing_prior", "persistent_failure"}

-----------------------------------------------------------------------------
\* servedPreview(): a failed build shows the version before it.
ServedPreview ==
  [status |-> IF served = NoneServed THEN IF buildError THEN "no-preview" ELSE "none"
              ELSE IF buildError THEN "showing-prior"
              ELSE IF served.url = "none" THEN "committed" ELSE "served",
   snap |-> served.snap, url |-> served.url]

\* publish(); the URL is that of the dev server at this time.
Publish(snap, ok) ==
  /\ IF ok THEN /\ served' = [snap |-> snap, url |-> devServer] /\ lastBuilt' = snap
                /\ buildError' = FALSE
     ELSE buildError' = TRUE /\ UNCHANGED <<served, lastBuilt>>
  /\ upToDate' = FALSE /\ UNCHANGED <<devServer, restarts, news, poll, pane>>

\* start(): the server is ready in its time, or runs already.  What is
\* published keeps the URL it has.
StartsServer(d) == devServer \in {"none", d} /\ devServer' = d /\ restarts' = 0

StartServer(d) ==
  /\ StartsServer(d) /\ upToDate' = FALSE
  /\ UNCHANGED <<served, buildError, lastBuilt, news, poll, pane>>

\* notifyExit(): the URL of a dead server is nobody's.  (Mutant: it stays.)
UrlKept == served
UrlDropped == [served EXCEPT !.url = "none"]

NotifyExit ==
  /\ devServer # "none" /\ devServer' = "none" /\ served' = UrlDropped /\ upToDate' = FALSE
  /\ UNCHANGED <<buildError, restarts, lastBuilt, news, poll, pane>>

\* restart() and its broadcast.  (Mutant: one attempt too many.)
CappedAbove == restarts > RestartCap
Capped == restarts >= RestartCap

Tell(status, url, offered) ==
  /\ Len(news) < MaxNews /\ upToDate' = FALSE
  /\ news' = Append(news, [status |-> status, url |-> url, offered |-> offered])
  /\ UNCHANGED <<served, buildError, lastBuilt, poll, pane>>

RestartRefused ==
  Capped /\ UNCHANGED <<devServer, restarts>> /\ Tell("persistent_failure", "none", FALSE)

RestartServer(d) ==
  ~Capped /\ StartsServer(d) /\ Tell("ready", d, FALSE)

RestartFails ==
  /\ ~Capped /\ restarts' = restarts + 1 /\ UNCHANGED devServer
  /\ Tell("error", "none", restarts' < RestartCap)

-----------------------------------------------------------------------------
\* previewFromServed().
FromServed(v) ==
  [status |-> CASE v.status = "served" -> "ready"
                [] v.status = "showing-prior" -> "showing_prior"
                [] v.status \in {"committed", "none"} -> "loading"
                [] OTHER -> "error",
   url |-> v.url, snap |-> v.snap, offered |-> FALSE]

\* PREVIEW_STATUS_SET: ready without a URL leaves what is shown.
NoUsableUrl(f) == f.status = "ready" /\ f.url = "none"

Shown(f) ==
  IF NoUsableUrl(f) THEN [pane EXCEPT !.unavailable = TRUE, !.offered = f.offered]
  ELSE [status |-> f.status, offered |-> f.offered, unavailable |-> FALSE,
        url |-> IF f.status = "loading" THEN "none" ELSE f.url,
        snap |-> IF f.status = "loading" \/ "snap" \notin DOMAIN f THEN pane.snap ELSE f.snap]

ReadNews ==
  /\ news # <<>> /\ news' = Tail(news) /\ pane' = Shown(Head(news)) /\ upToDate' = FALSE
  /\ UNCHANGED <<controllerVars, poll>>

StreamIsLost ==
  news # <<>> /\ news' = <<>> /\ UNCHANGED <<controllerVars, poll, pane, upToDate>>

\* The timer, the handler, the answer, or none: pollOnce().
PollOnce ==
  /\ poll.at = "rest" /\ poll' = [at |-> "sent"]
  /\ UNCHANGED <<controllerVars, news, pane, upToDate>>

HandlePreview ==
  /\ poll.at = "sent" /\ poll' = [at |-> "answered", preview |-> ServedPreview]
  /\ UNCHANGED <<controllerVars, news, pane, upToDate>>

PollAnswered ==
  /\ poll.at = "answered" /\ poll' = [at |-> "rest"] /\ pane' = Shown(FromServed(poll.preview))
  /\ upToDate' = (poll.preview = ServedPreview) /\ UNCHANGED <<controllerVars, news>>

PollIgnored ==
  /\ poll.at # "rest" /\ poll' = [at |-> "rest"]
  /\ UNCHANGED <<controllerVars, news, pane, upToDate>>

PaneNext ==
  \/ NotifyExit \/ RestartRefused \/ RestartFails \/ ReadNews \/ StreamIsLost
  \/ PollOnce \/ HandlePreview \/ PollAnswered \/ PollIgnored
  \/ \E d \in Server : StartServer(d) \/ RestartServer(d)
  \/ \E s \in Snap, ok \in BOOLEAN : Publish(s, ok)

-----------------------------------------------------------------------------
\* What is published is the last snapshot that was built, at no URL but that
\* of a server that runs; the pane never says ready without a URL; and once
\* a poll has told it what holds now, it shows that version at that URL,
\* whatever frames and answers it applied before, in whatever order.
PaneIsHonest ==
  /\ served.snap = lastBuilt /\ served.url \in {devServer, "none"}
  /\ restarts <= RestartCap
  /\ pane.status = "ready" => pane.url # "none"
  /\ upToDate => /\ pane.status = FromServed(ServedPreview).status
                 /\ pane.status # "loading" => pane.url = served.url /\ pane.snap = served.snap
=============================================================================
