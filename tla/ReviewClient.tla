----------------------------- MODULE ReviewClient -----------------------------
(***************************************************************************)
(* The review page in the browser.  Timers, clicks and the answers of      *)
(* earlier requests meet on one view of the invoice; the server moves on   *)
(* by itself, and another tab may correct or retry the same invoice.       *)
(* JavaScript runs one of the page's functions at a time, from one await   *)
(* to the next: these are the actions.  An answer shows the server as it   *)
(* was at some moment between the request and its delivery.                *)
(***************************************************************************)
EXTENDS Integers, Sequences

CONSTANTS MaxMoments,   \* bound on the states the server goes through
          MaxData,      \* bound on the values an invoice's fields can have
          MaxMishaps,   \* bound on requests that fail, pages left, and retries
                        \* of a row that is not FAILED
          MaxVisits,    \* bound on visits to the page
          RetryLimit    \* RETRY_POLL_ATTEMPTS_LIMIT

ASSUME ClientAssumption ==
    /\ MaxMoments \in Nat \ {0} /\ MaxData \in Nat \ {0}
    /\ MaxMishaps \in Nat /\ MaxVisits \in Nat \ {0} /\ RetryLimit \in Nat \ {0}

VARIABLES moments,   \* the states of the server's row so far
          unheard,   \* history: the row has moved on where this page is not told
          view,      \* the reducer's state and the page's own
          thread,    \* the async functions under way
          owner,     \* who may still deliver a status, and a detail
          visit,     \* number of the visit, negative while away
          crossed,   \* history: a submission or a retry outlived its visit
          replaced,  \* history: a reload replaced the draft under a submission
          mishaps

vars == <<moments, unheard, view, thread, owner, visit, crossed, replaced, mishaps>>

-------------------------------------------------------------------------------
(* The server.  "busy" stands for the statuses before review; an invoice   *)
(* that has expired or was deleted is GONE.                                *)
ServerStatus == {"busy", "GENERATING", "NEEDS_REVIEW", "READY", "FAILED", "GONE"}

Terminal == {"NEEDS_REVIEW", "READY", "FAILED"}

(* version is reviewVersion + 1 and data names the extracted or corrected  *)
(* data, 0 before there is any.                                            *)
Moment == [status : ServerStatus, version : 1 .. MaxMoments, data : 0 .. MaxData]

Server == moments[Len(moments)]

Room(n) == Len(moments) + n <= MaxMoments

Became(s) == [Server EXCEPT !.status = s]

Corrected(s, d) == [status |-> s, version |-> Server.version + 1, data |-> d]

(* A bug: every detail carries a token.                                    *)
TokenOfAny(m) == m.version

(* lifecycleToken, 0 for null.                                             *)
TokenOf(m) == IF m.status = "NEEDS_REVIEW" THEN m.version ELSE 0

(* reviewRoutingStatus of the corrected data.                              *)
Routes == {"GENERATING", "NEEDS_REVIEW"}

(* reopenTo of the four stages: what a retry makes of a FAILED row.        *)
Reopened == {"busy", "GENERATING"}

-------------------------------------------------------------------------------
(* A status or a detail on the page: the moment it shows and what it says. *)
Shown == [at : 0 .. MaxMoments, is : ServerStatus \cup {"none"}]

Nothing == [at |-> 0, is |-> "none"]

View == [status : Shown, detail : Shown,
         token : 0 .. MaxMoments,     \* lifecycleToken, 0 for null
         draft : 0 .. MaxData,        \* 0 for null
         original : 0 .. MaxData,
         notFound : BOOLEAN, loadError : BOOLEAN, retryGaveUp : BOOLEAN,
         override : BOOLEAN,          \* retryPollOverride
         tries : 0 .. RetryLimit,     \* retryPollAttempts
         submitting : BOOLEAN, submitError : BOOLEAN]

NewView == [status |-> Nothing, detail |-> Nothing, token |-> 0,
            draft |-> 0, original |-> 0, notFound |-> FALSE,
            loadError |-> FALSE, retryGaveUp |-> FALSE, override |-> FALSE,
            tries |-> 0, submitting |-> FALSE, submitError |-> FALSE]

(* poll and refresh run refreshStatus, from the timer and from a retry;    *)
(* load is reload, detail the loadDetail of a retry, submit and retry the  *)
(* handlers of the buttons.                                                *)
Threads == {"poll", "refresh", "load", "detail", "submit", "retry"}

Thread == [pc : {"idle", "status", "pair", "detail", "post", "posted"},
           since : 0 .. MaxMoments,   \* the moment of the request
           saw : [status : ServerStatus \cup {"none"},
                  detail : ServerStatus \cup {"none"}],   \* its closure
           retryPoll : BOOLEAN,
           old : BOOLEAN,             \* of an earlier visit
           replace : BOOLEAN,         \* mode replaceDraft
           token : 0 .. MaxMoments, draft : 0 .. MaxData, base : 0 .. MaxData,
           answer : {"none", "ok", "conflict", "error"},
           at : 0 .. MaxMoments]      \* the moment a POST made

NoThread == [pc |-> "idle", since |-> 0,
             saw |-> [status |-> "none", detail |-> "none"],
             retryPoll |-> FALSE, old |-> FALSE, replace |-> FALSE,
             token |-> 0, draft |-> 0, base |-> 0, answer |-> "none", at |-> 0]

Visiting == visit > 0

ClientTypeOK ==
    /\ moments \in Seq(Moment) /\ Len(moments) \in 1 .. MaxMoments
    /\ unheard \in BOOLEAN
    /\ view \in View
    /\ view.token # 0 => view.detail.is = "NEEDS_REVIEW"
    /\ thread \in [Threads -> Thread]
    /\ owner \in [status : Threads \cup {"none"}, detail : Threads \cup {"none"}]
    /\ visit \in -MaxVisits .. MaxVisits
    /\ crossed \in BOOLEAN /\ replaced \in BOOLEAN
    /\ mishaps \in 0 .. MaxMishaps

(* The page opens with a reload under way.                                 *)
Opened(n) == [NoThread EXCEPT !.pc = "pair", !.since = n, !.replace = TRUE]

Init ==
    /\ \E s \in {"busy", "NEEDS_REVIEW", "FAILED"} :
          moments = <<[status |-> s, version |-> 1,
                       data |-> IF s = "NEEDS_REVIEW" THEN 1 ELSE 0]>>
    /\ unheard = FALSE
    /\ view = NewView
    /\ thread = [t \in Threads |-> IF t = "load" THEN Opened(1) ELSE NoThread]
    /\ owner = [status |-> "load", detail |-> "load"]
    /\ visit = 1
    /\ crossed = FALSE /\ replaced = FALSE
    /\ mishaps = 0

-------------------------------------------------------------------------------
(* What the server does by itself, or for another tab.                     *)

Client == <<view, thread, owner, visit, crossed, replaced, mishaps>>

Process ==
    /\ Room(1)
    /\ \E s \in ServerStatus :
          /\ <<Server.status, s>> \in
                 {<<"busy", "NEEDS_REVIEW">>, <<"busy", "GENERATING">>,
                  <<"busy", "FAILED">>, <<"GENERATING", "READY">>,
                  <<"GENERATING", "NEEDS_REVIEW">>, <<"GENERATING", "FAILED">>}
          /\ moments' = Append(moments, [Became(s) EXCEPT !.data =
                                            IF s \in {"FAILED", "busy"} \/ @ # 0
                                            THEN @ ELSE 1])
    /\ UNCHANGED <<unheard, Client>>

Vanish ==
    /\ Room(1) /\ Server.status # "GONE"
    /\ moments' = Append(moments, Became("GONE"))
    /\ UNCHANGED <<unheard, Client>>

OtherTab ==
    /\ Room(1)
    /\ \/ /\ Server.status = "NEEDS_REVIEW"
          /\ \E s \in Routes : moments' = Append(moments, Corrected(s, MaxData))
       \/ /\ Server.status = "FAILED"
          /\ \E s \in Reopened : moments' = Append(moments, Became(s))
    /\ unheard' = TRUE
    /\ UNCHANGED Client

-------------------------------------------------------------------------------
(* Requests and their answers.                                             *)

Set(t, r) == thread' = [thread EXCEPT ![t] = r]

End(t) == Set(t, NoThread)

(* A request that is answered has seen one of these moments.               *)
Answers(t) == thread[t].since .. Len(moments)

(* The versions are still those of the request, and its scope is active.   *)
Current(t, kinds) == Visiting /\ \A k \in kinds : owner[k] = t

NotFound(k) == moments[k].status = "GONE"

ShownAt(k) == [at |-> k, is |-> moments[k].status]

(* A bug: the refreshed data replaces whatever the user has typed.         *)
WithDetailOver(v, k, replace) ==
    LET d == moments[k].data
        w == [v EXCEPT !.detail = ShownAt(k), !.token = TokenOf(moments[k])]
    IN  IF d = 0 THEN w ELSE [w EXCEPT !.original = d, !.draft = d]

(* A bug: the old data stays the base of the changes.                      *)
WithDetailOnly(v, k, replace) ==
    LET d == moments[k].data
        w == [v EXCEPT !.detail = ShownAt(k), !.token = TokenOf(moments[k])]
    IN  CASE d = 0 -> w
          [] d # 0 /\ ~replace /\ v.draft # v.original -> w
          [] OTHER -> [w EXCEPT !.original = d, !.draft = d]

(* applyDetail.                                                            *)
WithDetail(v, k, replace) ==
    LET d == moments[k].data
        w == [v EXCEPT !.detail = ShownAt(k), !.token = TokenOf(moments[k])]
    IN  CASE d = 0 -> w
          [] d # 0 /\ ~replace /\ v.draft # v.original ->
                 [w EXCEPT !.original = d]
          [] OTHER -> [w EXCEPT !.original = d, !.draft = d]

GivesUp(t, v) == thread[t].retryPoll /\ v.override /\ v.tries >= RetryLimit

(* The end of refreshStatus, whichever way it came to it.                  *)
GiveUp(t, v) ==
    CASE thread[t].old /\ thread[t].retryPoll -> [v EXCEPT !.retryGaveUp = TRUE]
      [] ~thread[t].old /\ GivesUp(t, v) ->
             [v EXCEPT !.override = FALSE, !.retryGaveUp = TRUE]
      [] OTHER -> v

(* The end of a function that loaded a detail.                             *)
Finally(t, v) ==
    CASE t \in {"poll", "refresh"} -> GiveUp(t, v)
      [] t = "submit" -> [v EXCEPT !.submitting = FALSE]
      [] OTHER -> v

(* A bug: a terminal status ends the polling, whatever the detail says.    *)
PollsUntilTerminal ==
    /\ ~view.notFound
    /\ \/ view.override
       \/ view.status.is = "none"
       \/ view.status.is \notin Terminal

(* shouldPoll.                                                             *)
ShouldPoll ==
    /\ ~view.notFound
    /\ \/ view.override
       \/ view.status.is = "none"
       \/ view.status.is \notin Terminal
       \/ view.detail.is # "none" /\ view.detail.is # view.status.is

Environment == <<moments, unheard, visit, crossed, replaced>>

(* The start of refreshStatus, on the state of the last rendering.         *)
Refreshing(v) ==
    [NoThread EXCEPT !.pc = "status", !.since = Len(moments),
                     !.saw = [status |-> v.status.is, detail |-> v.detail.is],
                     !.retryPoll = v.override]

Tried(v) == IF v.override /\ v.tries < RetryLimit
            THEN [v EXCEPT !.tries = @ + 1] ELSE v

Loading(t, replace) ==
    [thread[t] EXCEPT !.pc = "detail", !.since = Len(moments),
                      !.replace = replace]

(* The timer of usePolling: one callback at a time.                        *)
Tick ==
    /\ Visiting /\ ShouldPoll
    /\ thread["poll"].pc = "idle"
    /\ Set("poll", Refreshing(view))
    /\ owner' = [owner EXCEPT !.status = "poll"]
    /\ view' = Tried(view)
    /\ UNCHANGED <<Environment, mishaps>>

(* A bug: an answer is taken whatever has been asked since.                *)
TakesAnyStatus(t) ==
    /\ thread[t].pc = "status"
    /\ \E k \in Answers(t) :
          view' = IF Visiting /\ ~thread[t].old
                  THEN [view EXCEPT !.status = ShownAt(k), !.loadError = FALSE]
                  ELSE view
    /\ End(t)
    /\ UNCHANGED <<Environment, owner, mishaps>>

StatusOf(t, k) ==
    LET s == moments[k].status
        transitioned == thread[t].saw.status \notin {"none", s}
        v == [view EXCEPT !.status = ShownAt(k), !.loadError = FALSE]
    IN  IF transitioned
        THEN [v EXCEPT !.override = FALSE, !.tries = 0, !.retryGaveUp = FALSE]
        ELSE v

(* The status request of refreshStatus is answered.                        *)
StatusAnswered(t) ==
    /\ thread[t].pc = "status"
    /\ \E k \in Answers(t) :
          \/ /\ ~Current(t, {"status"})
             /\ End(t) /\ UNCHANGED <<view, owner, mishaps>>
          \/ /\ Current(t, {"status"}) /\ NotFound(k)
             /\ view' = GiveUp(t, [view EXCEPT !.notFound = TRUE])
             /\ End(t) /\ UNCHANGED <<owner, mishaps>>
          \/ /\ Current(t, {"status"}) /\ ~NotFound(k)
             /\ thread[t].saw.detail = moments[k].status
             /\ view' = GiveUp(t, StatusOf(t, k))
             /\ End(t) /\ UNCHANGED <<owner, mishaps>>
          \/ /\ Current(t, {"status"}) /\ ~NotFound(k)
             /\ thread[t].saw.detail # moments[k].status
             /\ view' = StatusOf(t, k)
             /\ Set(t, Loading(t, FALSE))
             /\ owner' = [owner EXCEPT !.detail = t]
             /\ UNCHANGED mishaps
    /\ UNCHANGED Environment

Fault == mishaps < MaxMishaps /\ mishaps' = mishaps + 1

StatusFails(t) ==
    /\ thread[t].pc = "status" /\ Current(t, {"status"})
    /\ Fault
    /\ view' = GiveUp(t, [view EXCEPT !.loadError = TRUE])
    /\ End(t)
    /\ UNCHANGED <<Environment, owner>>

(* The detail request of loadDetail is answered.                           *)
DetailAnswered(t) ==
    /\ thread[t].pc = "detail"
    /\ \E k \in Answers(t) :
          view' =
            CASE ~Visiting -> view
              [] Visiting /\ owner.detail # t -> Finally(t, view)
              [] Visiting /\ owner.detail = t /\ NotFound(k) ->
                     Finally(t, [view EXCEPT !.notFound = TRUE])
              [] OTHER ->
                     Finally(t, WithDetail([view EXCEPT !.loadError = FALSE], k,
                                           thread[t].replace))
    /\ End(t)
    /\ UNCHANGED <<Environment, owner, mishaps>>

DetailFails(t) ==
    /\ thread[t].pc = "detail" /\ Current(t, {"detail"})
    /\ Fault
    /\ view' = Finally(t, [view EXCEPT !.loadError = TRUE])
    /\ End(t)
    /\ UNCHANGED <<Environment, owner>>

(* reload, from the notice of a load error.  A reload still under way is   *)
(* overtaken: with both versions raised its answer will be ignored, and    *)
(* the new one takes its place.                                            *)
Reload ==
    /\ Visiting /\ view.loadError /\ ~view.notFound
    /\ Set("load", Opened(Len(moments)))
    /\ owner' = [status |-> "load", detail |-> "load"]
    /\ UNCHANGED <<Environment, view, mishaps>>

(* What a reload brings replaces the draft, even the one just submitted.   *)
ReplacesDraft ==
    replaced' = (replaced \/ /\ thread["submit"].pc \in {"post", "posted"}
                             /\ view'.draft # view.draft)

PairAnswered ==
    /\ thread["load"].pc = "pair"
    /\ \/ /\ ~Current("load", {"status", "detail"})
          /\ End("load") /\ UNCHANGED <<view, owner>>
       \/ \E k, l \in Answers("load") :
             LET v == [view EXCEPT !.notFound = NotFound(k) \/ NotFound(l),
                                   !.loadError = FALSE]
                 w == IF NotFound(k) THEN v
                      ELSE [v EXCEPT !.status = ShownAt(k)]
                 again == /\ ~NotFound(k) /\ ~NotFound(l)
                          /\ moments[k].status # moments[l].status
             IN  /\ Current("load", {"status", "detail"})
                 /\ view' = IF NotFound(l) THEN w ELSE WithDetail(w, l, TRUE)
                 /\ IF again
                    THEN /\ Set("load", Loading("load", FALSE))
                         /\ owner' = [owner EXCEPT !.detail = "load"]
                    ELSE End("load") /\ UNCHANGED owner
    /\ ReplacesDraft
    /\ UNCHANGED <<moments, unheard, visit, crossed, mishaps>>

(* Either of the two requests fails, or both do.                           *)
PairFails ==
    /\ thread["load"].pc = "pair" /\ Current("load", {"status", "detail"})
    /\ Fault
    /\ \E k \in Answers("load") :
          LET v == [view EXCEPT !.loadError = TRUE,
                                !.notFound = NotFound(k)]
          IN  view' \in {[view EXCEPT !.loadError = TRUE, !.notFound = FALSE],
                         IF NotFound(k) THEN v
                         ELSE [v EXCEPT !.status = ShownAt(k)],
                         IF NotFound(k) THEN v ELSE WithDetail(v, k, TRUE)}
    /\ End("load")
    /\ ReplacesDraft
    /\ UNCHANGED <<moments, unheard, owner, visit, crossed>>

-------------------------------------------------------------------------------
(* The user edits, submits and retries.                                    *)

(* The invoice is on the screen, neither a notice nor "loading".           *)
Rendered == /\ Visiting /\ ~view.notFound
            /\ view.status.is # "none" /\ view.detail.is # "none"

FormEnabled == Rendered /\ view.token # 0 /\ ~view.submitting

Edit ==
    /\ FormEnabled /\ view.draft # 0
    /\ \E d \in 1 .. MaxData \ {view.draft} : view' = [view EXCEPT !.draft = d]
    /\ UNCHANGED <<Environment, thread, owner, mishaps>>

Submit ==
    /\ FormEnabled /\ view.draft # 0
    /\ thread["submit"].pc = "idle"
    /\ Set("submit", [NoThread EXCEPT !.pc = "post", !.token = view.token,
                          !.draft = view.draft, !.base = view.original])
    /\ view' = [view EXCEPT !.submitting = TRUE, !.submitError = FALSE]
    /\ UNCHANGED <<Environment, owner, mishaps>>

Post(a, at) == thread' = [thread EXCEPT !["submit"].pc = "posted",
                                        !["submit"].answer = a,
                                        !["submit"].at = at]

Accepts == /\ Server.status = "NEEDS_REVIEW"
           /\ Server.version = thread["submit"].token

(* POST /invoices/:id/review at the server: accepted, whether or not the   *)
(* answer arrives; undone because generation could not be scheduled; in    *)
(* conflict with what the row has become; or never heard of.               *)
ServerReviews ==
    /\ thread["submit"].pc = "post"
    /\ \/ \E s \in Routes :
             /\ Accepts /\ Room(1)
             /\ moments' = Append(moments, Corrected(s, thread["submit"].draft))
             /\ \/ Post("ok", Len(moments')) /\ UNCHANGED <<unheard, mishaps>>
                \/ Post("error", 0) /\ Fault /\ unheard' = TRUE
       \/ /\ Accepts /\ Room(2) /\ Fault /\ unheard' = TRUE
          /\ LET c == Corrected("GENERATING", thread["submit"].draft)
             IN  moments' = moments \o <<c, [c EXCEPT !.status = "NEEDS_REVIEW"]>>
          /\ Post("error", 0)
       \/ /\ ~Accepts
          /\ Post(IF Server.status = "GONE" THEN "error" ELSE "conflict", 0)
          /\ UNCHANGED <<moments, unheard, mishaps>>
       \/ Post("error", 0) /\ Fault /\ UNCHANGED <<moments, unheard>>
    /\ UNCHANGED <<view, owner, visit, crossed, replaced>>

(* onSubmitted, on whatever the view has become.                           *)
Submitted(at) ==
    LET seen(x) == IF x = Nothing THEN x ELSE ShownAt(at)
    IN  [view EXCEPT !.loadError = FALSE, !.original = view.draft,
                     !.status = seen(@), !.detail = seen(@),
                     !.token = IF view.detail = Nothing THEN 0
                               ELSE TokenOf(moments[at])]

(* The answer of a submission; isCurrent knows the invoice, not the visit. *)
SubmitAnswered ==
    LET s == thread["submit"]
    IN  /\ s.pc = "posted"
        /\ \/ /\ ~Visiting
              /\ End("submit") /\ UNCHANGED <<view, owner>>
           \/ /\ Visiting /\ s.answer = "ok"
              /\ view' = Submitted(s.at)
              /\ Set("submit", Loading("submit", TRUE))
              /\ owner' = [status |-> "none", detail |-> "submit"]
           \/ /\ Visiting /\ s.answer = "conflict"
              /\ view' = [view EXCEPT !.submitError = TRUE, !.token = 0]
              /\ Set("submit", Loading("submit", TRUE))
              /\ owner' = [status |-> "none", detail |-> "submit"]
           \/ /\ Visiting /\ s.answer = "error"
              /\ view' = [view EXCEPT !.submitError = TRUE,
                                      !.submitting = FALSE]
              /\ End("submit") /\ UNCHANGED owner
        /\ UNCHANGED <<Environment, mishaps>>

(* The button stands beside a dead letter, that of a FAILED row.  As the   *)
(* letter is read after the row, and removed after a retry has reopened    *)
(* it, if at all, the row may be at any status, on the page as at the      *)
(* server: unless it is FAILED at both, this counts as a mishap.           *)
Retry ==
    /\ Rendered
    /\ \/ view.detail.is = "FAILED" /\ Server.status = "FAILED" /\ UNCHANGED mishaps
       \/ {view.detail.is, Server.status} # {"FAILED"} /\ Fault
    /\ thread["retry"].pc = "idle"
    /\ Set("retry", [Refreshing(view) EXCEPT !.pc = "post", !.since = 0,
                                             !.retryPoll = TRUE])
    /\ UNCHANGED <<Environment, view, owner>>

Retried(a) == thread' = [thread EXCEPT !["retry"].pc = "posted",
                                       !["retry"].answer = a]

(* POST /invoices/:id/dead-letter/retry: the row is reopened, whether or   *)
(* not the answer arrives or the job is published; another retry has       *)
(* reopened it; or there is no dead letter, or none of a FAILED row.       *)
ServerRetries ==
    /\ thread["retry"].pc = "post"
    /\ \/ /\ Server.status = "FAILED" /\ Room(1)
          /\ \E s \in Reopened : moments' = Append(moments, Became(s))
          /\ \/ Retried("ok") /\ UNCHANGED <<unheard, mishaps>>
             \/ Retried("error") /\ Fault /\ unheard' = TRUE
       \/ /\ Server.status \in Reopened /\ Retried("ok")
          /\ UNCHANGED <<moments, unheard, mishaps>>
       \/ Retried("error") /\ UNCHANGED <<moments, unheard, mishaps>>
    /\ UNCHANGED <<view, owner, visit, crossed, replaced>>

(* A bug: nothing is asked after a retry.                                  *)
RetriedUnasked ==
    /\ thread["retry"].pc = "posted"
    /\ End("retry")
    /\ UNCHANGED <<Environment, view, owner, mishaps>>

(* onRetried starts a status and a detail request; the status request      *)
(* compares with the state of the rendering that was clicked.              *)
RetryAnswered ==
    /\ thread["retry"].pc = "posted"
    /\ IF Visiting /\ thread["retry"].answer = "ok"
       THEN /\ view' = Tried([view EXCEPT !.override = TRUE, !.tries = 0,
                                         !.retryGaveUp = FALSE])
            /\ thread' = [thread EXCEPT
                  !["retry"] = NoThread,
                  !["refresh"] = [Refreshing(view) EXCEPT
                                     !.retryPoll = TRUE, !.saw = thread["retry"].saw],
                  !["detail"] = [NoThread EXCEPT !.pc = "detail",
                                                 !.since = Len(moments)]]
            /\ owner' = [status |-> "refresh", detail |-> "detail"]
       ELSE End("retry") /\ UNCHANGED <<view, owner>>
    /\ UNCHANGED <<Environment, mishaps>>

(* The page shows another invoice, and this one again.  The handlers of    *)
(* the buttons and the one callback of the timer go on; the answers of all *)
(* other requests are ignored, and the reducer starts afresh.              *)
Leave ==
    /\ Visiting /\ visit < MaxVisits /\ Fault
    /\ visit' = -visit
    /\ crossed' = (crossed \/ \E t \in {"submit", "retry"} : thread[t].pc # "idle")
    /\ thread' = [t \in Threads |->
                     CASE t \in {"submit", "retry"} -> thread[t]
                       [] t = "poll" /\ thread[t].pc # "idle" ->
                              [NoThread EXCEPT !.pc = thread[t].pc, !.old = TRUE,
                                               !.retryPoll = GivesUp(t, view)]
                       [] OTHER -> NoThread]
    /\ owner' = [status |-> "none", detail |-> "none"]
    /\ view' = [NewView EXCEPT !.submitting = view.submitting,
                               !.submitError = view.submitError]
    /\ UNCHANGED <<moments, unheard, replaced>>

Return ==
    /\ ~Visiting
    /\ visit' = 1 - visit
    /\ thread' = [thread EXCEPT !["load"] = Opened(Len(moments))]
    /\ owner' = [status |-> "load", detail |-> "load"]
    /\ UNCHANGED <<moments, unheard, view, crossed, replaced, mishaps>>

Pollers == {"poll", "refresh"}

Loaders == {"poll", "refresh", "load", "detail", "submit"}

Next == \/ Process \/ Vanish \/ OtherTab
        \/ Tick \/ Edit \/ Submit \/ Retry \/ Reload \/ Leave \/ Return
        \/ ServerReviews \/ ServerRetries
        \/ PairAnswered \/ PairFails \/ SubmitAnswered \/ RetryAnswered
        \/ \E t \in Pollers : StatusAnswered(t) \/ StatusFails(t)
        \/ \E t \in Loaders : DetailAnswered(t) \/ DetailFails(t)

Spec == Init /\ [][Next]_vars

(* Every request ends, in an answer or an error; the timer keeps firing    *)
(* while the page is visible.                                              *)
FairSpec ==
    /\ Spec
    /\ WF_vars(Tick) /\ WF_vars(PairAnswered) /\ WF_vars(SubmitAnswered)
    /\ WF_vars(RetryAnswered) /\ WF_vars(ServerReviews) /\ WF_vars(ServerRetries)
    /\ \A t \in Pollers : WF_vars(StatusAnswered(t))
    /\ \A t \in Loaders : WF_vars(DetailAnswered(t))

-------------------------------------------------------------------------------
(* What the page promises.                                                 *)

(* A correction is confirmed against the data it replaces: whatever        *)
(* refreshes and other tabs came between, the base with which the          *)
(* confirmation compared the form is what the server holds when it accepts *)
(* the token.  Edits that a refresh preserved were typed over older data;  *)
(* it is as a change of the new data that their author confirms them.      *)
(* (After leaving the page with a submission under way the page may take   *)
(* an old answer for a new one: crossed.  After a reload that overlaps a   *)
(* submission the form may show old data while the page holds the token of *)
(* the new: replaced.)                                                     *)
ConfirmedAgainstServer ==
    (thread["submit"].pc = "post" /\ Accepts /\ ~crossed /\ ~replaced)
        => thread["submit"].base = Server.data

(* No answer takes the page back to an earlier state of the row than it    *)
(* shows, however requests overlap; only the answer of the user's own      *)
(* submission is shown at once.                                            *)
NeverGoesBack ==
    [][ (visit' = visit /\ ~SubmitAnswered)
            => /\ view'.status.at >= view.status.at
               /\ view'.detail.at >= view.detail.at ]_vars

(* What the user has typed is replaced only on the user's demand: by a     *)
(* reload after an error, or after a submission.                           *)
EditsSurvive ==
    [][ (visit' = visit /\ view.draft # view.original /\ view'.draft # view.draft)
            => \/ Edit
               \/ thread'["load"] # thread["load"]
               \/ thread'["submit"] # thread["submit"] ]_vars

(* With no request under way, a page that shows no consistent invoice, or  *)
(* an invoice in review without its token, polls, or tells the user: an    *)
(* invoice gone, an error of loading, or a submission in conflict.         *)
NoSilentDeadEnd ==
    (Visiting /\ ~crossed /\ \A t \in Threads : thread[t].pc = "idle")
        => \/ view.notFound \/ view.loadError \/ view.submitError \/ ShouldPoll
           \/ /\ view.status.is = view.detail.is
              /\ view.detail.is = "NEEDS_REVIEW" => view.token # 0
              /\ ~view.submitting

Excused == \/ ~Visiting \/ crossed \/ unheard \/ view.notFound
           \/ view.loadError \/ view.retryGaveUp \/ Server.status = "GONE"

(* Once the row has come to rest the page shows its status, and in review  *)
(* its data and its token, unless it says it could not, or nobody has told *)
(* it.                                                                     *)
EventuallyCurrent ==
    <>[](Excused \/ /\ view.status.is = Server.status
                    /\ view.detail.is = Server.status
                    /\ view.token = TokenOf(Server)
                    /\ view.token # 0 => view.original = Server.data)
===============================================================================
