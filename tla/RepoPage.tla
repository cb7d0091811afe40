------------------------------ MODULE RepoPage ------------------------------
(***************************************************************************)
(* The repositories page and the jobs it follows (ReposPage.vue and        *)
(* composables/useJobStream.ts), in one life of the page.                  *)
(*                                                                         *)
(* The browser runs one handler at a time: an action is a handler and the  *)
(* watchers it sets off.  The page asks for the list of repositories and   *)
(* is answered later with the state at some moment in between; it follows  *)
(* the last job it started over a WebSocket, and polls when it believes    *)
(* that there is none.  The server is what these two tell of it: a job's   *)
(* repository settles, then the job's complete frame goes out.             *)
(***************************************************************************)
EXTENDS Integers, Sequences, SequencesExt

CONSTANTS
    Repos,
    MaxJobs,    \* POST /api/index that are accepted (a bound)
    MaxLists,   \* list requests in flight (a bound)
    PageFaults  \* what may happen: "refuse", "drop", "error", "reorder"

ASSUME PageBounds == {MaxJobs, MaxLists} \subseteq Nat \ {0}

VARIABLES
    status,    \* the rows of the server
    posted,    \* indexing jobs, and how far the page's POST for each has come
    channel,   \* the WebSocket of each job
    view,      \* repos.value
    lists,     \* list requests in flight, oldest first
    active,    \* activeJobId.value, or 0
    socket,    \* the job of the WebSocket in useJobStream's variable, or 0
    fallback,  \* fallbackToPolling.value
    poller,    \* whether the timer of startPolling runs
    orphaned   \* for the properties: useJobStream has let go of a live socket

pageVars == <<status, posted, channel, view, lists, active, socket, fallback,
              poller, orphaned>>

Jobs == 1..MaxJobs
Rows == [Repos -> {"absent", "indexing", "settled"}]

NoJob == [repo |-> "none", state |-> "none", post |-> "none"]

AnyIndexing(rows) == \E r \in Repos : rows[r] = "indexing"

-----------------------------------------------------------------------------
(* The composable and the page's watcher, as parts of the actions below.   *)

(* refresh; then is the job to follow once it is answered, or 0.           *)
Ask(then) == Append(lists, [rows |-> <<>>, then |-> then])

(* closeSocket: a WebSocket closed before it is open fails.                *)
Closing(c) == CASE c = "connecting" -> "failing"
                [] c \in {"open", "ending"} -> "closing"
                [] OTHER -> c

CloseSocket ==
    IF socket = 0 THEN channel ELSE [channel EXCEPT ![socket] = Closing(@)]

(* Mutant: the previous WebSocket stays open.                              *)
FollowBoth(j) ==
    /\ active' = j /\ socket' = j
    /\ channel' = [channel EXCEPT ![j] = "connecting"]

(* activeJobId.value = j, for a job not followed yet, and openSocket.      *)
Follow(j) ==
    /\ active' = j /\ socket' = j
    /\ channel' = [CloseSocket EXCEPT ![j] = "connecting"]

(* Mutant: the timer goes on while a channel is open.                      *)
SetFallbackOnly(value) ==
    /\ fallback' = value
    /\ poller' = (poller \/ (value /\ ~fallback /\ AnyIndexing(view)))

(* The watch on fallbackToPolling, which sees changes only.                *)
SetFallback(value) ==
    /\ fallback' = value
    /\ poller' = IF value = fallback THEN poller
                 ELSE value /\ AnyIndexing(view)

follower == <<active, socket, fallback, poller, orphaned>>

(* Mutant: the end of a job does not bring polling back.                   *)
UnfollowOnly(j) ==
    /\ active' = 0 /\ socket' = 0
    /\ channel' = [CloseSocket EXCEPT ![j] = "ending"]
    /\ UNCHANGED <<fallback, poller, orphaned>>

(* activeJobId.value = null, on the complete frame of j.                   *)
Unfollow(j) ==
    /\ active' = 0 /\ socket' = 0
    /\ channel' = [CloseSocket EXCEPT ![j] = "ending"]
    /\ SetFallback(TRUE)
    /\ UNCHANGED orphaned

-----------------------------------------------------------------------------
(* The server.                                                             *)

(* POST /api/index, from the form or from a card's Reindex.                *)
Post(j) ==
    /\ posted[j].post = "none" /\ (j > 1 => posted[j - 1].post # "none")
    /\ \E r \in Repos : \E from \in {"form", "card"} :
         /\ status[r] # "indexing"
         /\ from = "card" => view[r] # "absent"
         /\ status' = [status EXCEPT ![r] = "indexing"]
         /\ posted' = [posted EXCEPT ![j] = [repo |-> r, state |-> "running",
                                             post |-> from]]
    /\ UNCHANGED <<channel, view, lists, follower>>

JobEnds(j) ==
    /\ posted[j].state = "running"
    /\ posted' = [posted EXCEPT ![j].state = "over"]
    /\ status' = [status EXCEPT ![posted[j].repo] = "settled"]
    /\ UNCHANGED <<channel, view, lists, follower>>

(* GET /api/repos reads the rows.                                          *)
ListRead(i) ==
    /\ lists[i].rows = <<>>
    /\ lists' = [lists EXCEPT ![i].rows = status]
    /\ UNCHANGED <<status, posted, channel, view, follower>>

-----------------------------------------------------------------------------
(* The page.                                                               *)

(* handleSubmitted: refresh without waiting, and follow the job.           *)
Submitted(j) ==
    /\ posted[j].post = "form" /\ Len(lists) < MaxLists
    /\ posted' = [posted EXCEPT ![j].post = "answered"]
    /\ lists' = Ask(0)
    /\ Follow(j)
    /\ UNCHANGED <<status, view, fallback, poller, orphaned>>

(* handleReindex: wait for the refresh, then follow the job.               *)
Reindexed(j) ==
    /\ posted[j].post = "card" /\ Len(lists) < MaxLists
    /\ posted' = [posted EXCEPT ![j].post = "answered"]
    /\ lists' = Ask(j)
    /\ UNCHANGED <<status, channel, view, follower>>

(* handleDelete, of a repository that no job works on.                     *)
Delete ==
    /\ Len(lists) < MaxLists
    /\ \E r \in Repos :
         /\ view[r] # "absent" /\ status[r] = "settled"
         /\ status' = [status EXCEPT ![r] = "absent"]
    /\ lists' = Ask(0)
    /\ UNCHANGED <<posted, channel, view, follower>>

(* The end of refresh, with an answer or an error that leaves the view.    *)
ListAnswered(i, ok) ==
    LET list == lists[i] IN
    /\ list.rows # <<>>
    /\ i = 1 \/ "reorder" \in PageFaults
    /\ \/ ok /\ view' = list.rows
       \/ ~ok /\ "error" \in PageFaults /\ UNCHANGED view
    /\ lists' = RemoveAt(lists, i)
    /\ IF list.then = 0 THEN UNCHANGED <<active, socket, channel>>
                        ELSE Follow(list.then)
    /\ UNCHANGED <<status, posted, fallback, poller, orphaned>>

(* setInterval's callback.                                                 *)
PollTick ==
    /\ poller /\ Len(lists) < MaxLists
    /\ IF AnyIndexing(view) THEN lists' = Ask(0) /\ UNCHANGED poller
                            ELSE poller' = FALSE /\ UNCHANGED lists
    /\ UNCHANGED <<status, posted, channel, view, active, socket, fallback,
                   orphaned>>

(* onopen.                                                                 *)
Opened(j) ==
    /\ channel[j] = "connecting"
    /\ channel' = [channel EXCEPT ![j] = "open"]
    /\ SetFallback(FALSE)
    /\ UNCHANGED <<status, posted, view, lists, active, socket, orphaned>>

(* onmessage with an init or a progress frame.                             *)
Progress(j) ==
    /\ channel[j] = "open" /\ Len(lists) < MaxLists
    /\ lists' = Ask(0)
    /\ UNCHANGED <<status, posted, channel, view, follower>>

(* onmessage with the complete frame, after which the server closes.       *)
Completed(j) ==
    /\ channel[j] = "open" /\ posted[j].state = "over" /\ Len(lists) < MaxLists
    /\ lists' = Ask(0)
    /\ IF active = 0
         THEN /\ channel' = [channel EXCEPT ![j] = "ending"]
              /\ UNCHANGED follower
         ELSE Unfollow(j)
    /\ UNCHANGED <<status, posted, view>>

(* onclose empties the variable, whichever WebSocket is in it by then.     *)
LetGo(j) ==
    /\ socket' = 0
    /\ orphaned' = (orphaned \/ socket \notin {0, j})

(* onclose after a close of either side, with the code 1000.               *)
Closed(j) ==
    /\ channel[j] \in {"closing", "ending"}
    /\ channel' = [channel EXCEPT ![j] = "closed"]
    /\ LetGo(j)
    /\ UNCHANGED <<status, posted, view, lists, active, fallback, poller>>

(* onerror or onclose with another code: refused, cut, or closed before it *)
(* was open.                                                               *)
Failed(j) ==
    /\ \/ channel[j] = "failing"
       \/ channel[j] = "connecting" /\ "refuse" \in PageFaults
       \/ channel[j] \in {"open", "closing", "ending"} /\ "drop" \in PageFaults
    /\ channel' = [channel EXCEPT ![j] = "closed"]
    /\ LetGo(j)
    /\ SetFallback(TRUE)
    /\ UNCHANGED <<status, posted, view, lists, active>>

-----------------------------------------------------------------------------
PageInit ==
    /\ status \in [Repos -> {"absent", "settled"}]
    /\ posted = [j \in Jobs |-> NoJob]
    /\ channel = [j \in Jobs |-> "none"]
    /\ view = [r \in Repos |-> "absent"]
    /\ lists = <<[rows |-> <<>>, then |-> 0]>>
    /\ active = 0 /\ socket = 0
    /\ fallback = TRUE /\ poller = FALSE /\ orphaned = FALSE

Server == \/ \E j \in Jobs : JobEnds(j)
          \/ \E i \in DOMAIN lists : ListRead(i)

Page == \/ \E j \in Jobs : Submitted(j) \/ Reindexed(j)
        \/ \E i \in DOMAIN lists, ok \in BOOLEAN : ListAnswered(i, ok)
        \/ PollTick

Channel(j) == Opened(j) \/ Completed(j) \/ Closed(j) \/ Failed(j)

PageNext ==
    \/ Server \/ Page \/ Delete
    \/ \E j \in Jobs : Post(j) \/ Progress(j) \/ Channel(j)

PageFairness ==
    /\ \A j \in Jobs : /\ WF_pageVars(JobEnds(j))
                       /\ WF_pageVars(Submitted(j)) /\ WF_pageVars(Reindexed(j))
                       /\ WF_pageVars(Opened(j) \/ Failed(j))
                       /\ WF_pageVars(Completed(j)) /\ WF_pageVars(Closed(j))
    /\ \A i \in 1..MaxLists : WF_pageVars(i \in DOMAIN lists /\ ListRead(i))
    /\ SF_pageVars(\E i \in DOMAIN lists : ListAnswered(i, TRUE))
    /\ WF_pageVars(PollTick)

PageSpec == PageInit /\ [][PageNext]_pageVars /\ PageFairness

-----------------------------------------------------------------------------
PostedType == [repo : Repos \cup {"none"}, state : {"none", "running", "over"},
               post : {"none", "form", "card", "answered"}]
ChannelState == {"none", "connecting", "open", "ending", "closing", "failing",
                 "closed"}
ListType == [rows : Rows \cup {<<>>}, then : 0..MaxJobs]

(* Every variable has its type, and the timer runs only while polling is   *)
(* the fallback.                                                           *)
PageTypeOK ==
    /\ status \in Rows /\ view \in Rows
    /\ posted \in [Jobs -> PostedType]
    /\ channel \in [Jobs -> ChannelState]
    /\ lists \in Seq(ListType)
    /\ active \in 0..MaxJobs /\ socket \in 0..MaxJobs
    /\ fallback \in BOOLEAN /\ orphaned \in BOOLEAN
    /\ poller \in BOOLEAN /\ (poller => fallback)

ShowsEnd == ~AnyIndexing(view)

(* A page that polls shows the end of what it polls for, although sockets  *)
(* open and fail, the timer stops and starts with them, and answers come   *)
(* out of order or not at all: unless an onclose of one WebSocket has      *)
(* emptied the variable that held the next (useJobStream.openSocket, the   *)
(* watch on fallbackToPolling, startPolling).                              *)
PollingCatchesUp ==
    [](~orphaned) => (poller /\ ~ShowsEnd ~> ShowsEnd)

(* The page listens to one job at a time, and while fallbackToPolling is   *)
(* FALSE, so that nothing starts the timer, there is a WebSocket that can  *)
(* still tell it of an end, with the same exception (openSocket,           *)
(* closeSocket, onclose).  The converse of the second part is not claimed: *)
(* fallbackToPolling TRUE is no running timer.  It is TRUE from the start, *)
(* so a first WebSocket that is refused changes nothing, the watch of      *)
(* ReposPage.vue:62-70 does not fire, and the page neither polls nor       *)
(* listens, where specs/013-mvp-closure/spec.md:88 wants it to poll.       *)
FollowsOneChannel ==
    ~orphaned =>
        /\ \A j, k \in Jobs : channel[j] = "open" /\ channel[k] = "open" => j = k
        /\ ~fallback => \E j \in Jobs : channel[j] \notin {"none", "closed"}
=============================================================================
