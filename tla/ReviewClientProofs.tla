-------------------------- MODULE ReviewClientProofs --------------------------
(***************************************************************************)
(* What the review page keeps to, for any number of states of the row,     *)
(* failing requests, visits and retries.  The row's history only grows;    *)
(* of the overlapping requests at most one may deliver a status and one a  *)
(* detail, and it was sent after what the page shows; and while a token is *)
(* that of the row, the page's data are the row's.                         *)
(***************************************************************************)
EXTENDS ReviewClient, SequenceTheorems, TLAPS

Last == Len(moments)

(* A version has one set of data, from the first moment that has any, and  *)
(* an invoice in review has some.                                          *)
HistoryFine(h) ==
    /\ h \in Seq(Moment) /\ Len(h) \in 1 .. MaxMoments
    /\ \A k \in 1 .. Len(h) : /\ h[k].version <= k
                              /\ h[k].status = "NEEDS_REVIEW" => h[k].data # 0
    /\ \A i, j \in 1 .. Len(h) : i <= j =>
           /\ h[i].version <= h[j].version
           /\ h[i].version = h[j].version /\ h[i].data # 0 => h[j].data = h[i].data

HistoryOK == HistoryFine(moments)

(* The row goes on from where it was.                                      *)
Grows ==
    /\ HistoryFine(moments')
    /\ Len(moments) <= Len(moments')
    /\ \A k \in 1 .. Len(moments) : moments'[k] = moments[k]

Asking == {"status", "pair", "detail"}

Posting == thread["submit"].pc \in {"post", "posted"}

(* A request under way was sent at a moment of the row, or is the timer's  *)
(* from an earlier visit; it replaces a draft only after a submission; and *)
(* if it may still deliver, it was sent after what is shown.               *)
ThreadOK(t) ==
    /\ thread[t].pc \in Asking /\ ~thread[t].old => thread[t].since \in 1 .. Last
    /\ thread[t].old => t = "poll" /\ owner.status # t /\ owner.detail # t
    /\ thread[t].pc = "detail" /\ thread[t].replace => t = "submit"
    /\ thread[t].pc \in {"status", "pair"} /\ owner.status = t =>
           view.status.at <= thread[t].since
    /\ thread[t].pc \in {"detail", "pair"} /\ owner.detail = t =>
           view.detail.at <= thread[t].since

ThreadsOK == \A t \in Threads : ThreadOK(t)

SubmitOK ==
    LET s == thread["submit"]
    IN  /\ s.pc # "idle" => view.submitting
        /\ Posting => s.draft # 0 /\ s.token # 0 /\ s.token <= Server.version
        /\ s.pc = "posted" /\ s.answer = "ok" => s.at \in 2 .. Last

(* What is shown is past, and the visits alternate.                        *)
PageOK ==
    /\ view.status.at <= Last /\ view.detail.at <= Last
    /\ view.token <= Server.version
    /\ visit > -MaxVisits /\ visit # 0

(* Moment k has this version and these data.                               *)
Shows(k, v, d) ==
    /\ k \in 1 .. Last
    /\ moments[k].version = v /\ moments[k].data = d /\ d # 0

(* The form is that of the row, as far as the token is: before a           *)
(* submission, while the server decides, and until its answer is heard.    *)
TokenFits ==
    view.token # 0 /\ view.token = Server.version =>
        Shows(view.detail.at, view.token, view.original)

PostFits ==
    LET s == thread["submit"]
    IN  s.pc = "post" /\ s.token = Server.version =>
            /\ Shows(view.detail.at, Server.version, view.original)
            /\ s.base = Server.data
            /\ view.draft = s.draft

AnswerFits ==
    LET s == thread["submit"]
    IN  s.pc = "posted" /\ s.answer = "ok" /\ moments[s.at].version = Server.version =>
            /\ view.draft = s.draft /\ moments[s.at].data = s.draft
            /\ view.detail.at < s.at =>
                   Shows(view.detail.at, moments[s.at - 1].version, view.original)

FormFits == crossed \/ replaced \/ (TokenFits /\ PostFits /\ AnswerFits)

(* A page that submits has somebody to say how it ended, and one without   *)
(* its detail is still being told.                                         *)
Served == view.detail.is # "none"

NotLost ==
    /\ view.detail.is = "NEEDS_REVIEW" /\ view.token = 0 => view.submitError
    /\ crossed \/
         /\ view.submitting => thread["submit"].pc # "idle"
         /\ ~Visiting => /\ thread["submit"].pc = "idle" /\ thread["retry"].pc = "idle"
                         /\ view.status.is = "none"
         /\ thread["retry"].pc # "idle" => Served
         /\ \A t \in {"poll", "refresh"} :
                thread[t].pc = "status" /\ owner.status = t /\ thread[t].saw.detail # "none" =>
                    Served
         /\ Visiting /\ ~view.notFound /\ ~view.loadError =>
                \/ Served \/ view.status.is = "none"
                \/ \E t \in Threads : thread[t].pc = "detail" /\ owner.detail = t

ClientInv ==
    /\ ClientTypeOK /\ HistoryOK /\ ThreadsOK /\ SubmitOK /\ PageOK
    /\ FormFits /\ NotLost

-------------------------------------------------------------------------------
(* The row's history.                                                      *)

(* The row has a last moment, whose version is no more than its number.    *)
LEMMA ServerMoment ==
    ASSUME NEW h, HistoryFine(h)
    PROVE  /\ Len(h) \in Nat /\ Len(h) \in 1 .. Len(h)
           /\ h[Len(h)] \in Moment
           /\ h[Len(h)].version <= Len(h)
           /\ \A k \in 1 .. Len(h) : h[k] \in Moment
BY DEF HistoryFine

(* A moment that goes on from the last one continues a history.            *)
LEMMA HistoryAppend ==
    ASSUME NEW h, HistoryFine(h), Len(h) < MaxMoments,
           NEW m \in Moment,
           h[Len(h)].version <= m.version, m.version <= Len(h) + 1,
           m.status = "NEEDS_REVIEW" => m.data # 0,
           m.version = h[Len(h)].version /\ h[Len(h)].data # 0 =>
               m.data = h[Len(h)].data
    PROVE  /\ HistoryFine(Append(h, m))
           /\ Len(Append(h, m)) = Len(h) + 1
           /\ Append(h, m)[Len(h) + 1] = m
           /\ \A k \in 1 .. Len(h) : Append(h, m)[k] = h[k]
<1> DEFINE n == Len(h)
           g == Append(h, m)
<1>1. h \in Seq(Moment) /\ n \in 1 .. MaxMoments /\ MaxMoments \in Nat
    BY ClientAssumption DEF HistoryFine
<1>2. g \in Seq(Moment) /\ Len(g) = n + 1 /\ g[n + 1] = m /\ \A k \in 1 .. n : g[k] = h[k]
    BY <1>1
<1>3. \A k \in 1 .. n : h[k].version \in Int /\ h[k] \in Moment
    BY ServerMoment DEF Moment
<1>4. m.version \in Int BY DEF Moment
<1> HIDE DEF g
<1>5. Len(g) \in 1 .. MaxMoments BY <1>1, <1>2
<1>6. \A k \in 1 .. n : /\ h[k].version <= k
                        /\ h[k].status = "NEEDS_REVIEW" => h[k].data # 0
    BY DEF HistoryFine
<1>7. \A i, j \in 1 .. n : i <= j =>
           /\ h[i].version <= h[j].version
           /\ h[i].version = h[j].version /\ h[i].data # 0 => h[j].data = h[i].data
    BY DEF HistoryFine
<1>8. ASSUME NEW k \in 1 .. Len(g)
      PROVE  /\ g[k].version <= k
             /\ g[k].status = "NEEDS_REVIEW" => g[k].data # 0
    <2>1. CASE k \in 1 .. n BY <2>1, <1>2, <1>6
    <2>2. CASE k = n + 1 BY <2>2, <1>2
    <2> QED BY <2>1, <2>2, <1>1, <1>2
<1>9. ASSUME NEW i \in 1 .. Len(g), NEW j \in 1 .. Len(g), i <= j
      PROVE  /\ g[i].version <= g[j].version
             /\ g[i].version = g[j].version /\ g[i].data # 0 => g[j].data = g[i].data
    <2>1. CASE j \in 1 .. n BY <2>1, <1>1, <1>2, <1>7, <1>9
    <2>2. CASE j = n + 1 /\ i = n + 1 BY <2>2, <1>2, <1>4
    <2>3. CASE j = n + 1 /\ i \in 1 .. n
        <3>1. /\ h[i].version <= h[n].version
              /\ h[i].version = h[n].version /\ h[i].data # 0 => h[n].data = h[i].data
            BY <2>3, <1>1, <1>7
        <3>2. g[i] = h[i] /\ g[j] = m BY <2>3, <1>2
        <3>3. h[n].version <= m.version OBVIOUS
        <3>4. h[i].version \in Int /\ h[n].version \in Int BY <2>3, <1>1, <1>3
        <3>5. g[i].version <= g[j].version BY <3>1, <3>2, <3>3, <3>4, <1>4
        <3>6. ASSUME g[i].version = g[j].version, g[i].data # 0
              PROVE  g[j].data = g[i].data
            <4>1. h[i].version = h[n].version BY <3>1, <3>2, <3>3, <3>4, <3>6, <1>4
            <4>2. h[n].data = h[i].data BY <4>1, <3>1, <3>2, <3>6
            <4>3. m.version = h[n].version BY <4>1, <3>2, <3>6
            <4>4. m.data = h[n].data BY <4>2, <4>3, <3>2, <3>6
            <4> QED BY <4>2, <4>4, <3>2
        <3> QED BY <3>5, <3>6
    <2> QED BY <2>1, <2>2, <2>3, <1>1, <1>2
<1>10. HistoryFine(g) BY <1>2, <1>5, <1>8, <1>9 DEF HistoryFine
<1> QED BY <1>2, <1>10 DEF g

(* A new status alone continues the row's history.                         *)
LEMMA BecomesGrows ==
    ASSUME HistoryOK, Room(1), NEW s \in ServerStatus \ {"NEEDS_REVIEW"},
           moments' = Append(moments, Became(s))
    PROVE  Grows
<1> DEFINE m == Became(s)
<1>1. /\ Server \in Moment /\ Server.version <= Last /\ Last \in Nat /\ Last >= 1
      /\ HistoryFine(moments) /\ MaxMoments \in Nat /\ Len(moments) < MaxMoments
    BY ServerMoment, ClientAssumption DEF HistoryOK, Last, Server, Room
<1>2. m \in Moment /\ m.version = Server.version /\ m.status = s /\ m.data = Server.data
    BY <1>1 DEF Became, Moment
<1>3. Server.version \in Int BY <1>1 DEF Moment
<1> HIDE DEF m
<1>4. /\ Server.version <= m.version /\ m.version <= Last + 1 /\ m.status # "NEEDS_REVIEW"
    BY <1>1, <1>2, <1>3
<1>5. /\ HistoryFine(Append(moments, m)) /\ Len(Append(moments, m)) = Len(moments) + 1
      /\ \A k \in 1 .. Len(moments) : Append(moments, m)[k] = moments[k]
    BY <1>1, <1>2, <1>4, HistoryAppend DEF Server, Last
<1>6. moments' = Append(moments, m) BY DEF m
<1> QED BY <1>1, <1>5, <1>6 DEF Grows, Last

(* What the server does by itself, or for another tab, continues the       *)
(* row's history.                                                          *)
LEMMA WorldGrows ==
    ASSUME HistoryOK, Process \/ Vanish \/ OtherTab
    PROVE  Grows
<1>1. /\ Server \in Moment /\ Server.version <= Last /\ Last \in Nat /\ Last >= 1
      /\ HistoryFine(moments) /\ MaxMoments \in Nat /\ MaxData \in Nat \ {0}
    BY ServerMoment, ClientAssumption DEF HistoryOK, Last, Server
<1>2. ASSUME NEW m \in Moment, moments' = Append(moments, m), Room(1),
             Server.version <= m.version, m.version <= Last + 1,
             m.status = "NEEDS_REVIEW" => m.data # 0,
             m.version = Server.version /\ Server.data # 0 => m.data = Server.data
      PROVE  Grows
    <2>1. Len(moments) < MaxMoments BY <1>1, <1>2 DEF Room, Last
    <2>2. /\ HistoryFine(Append(moments, m)) /\ Len(Append(moments, m)) = Len(moments) + 1
          /\ \A k \in 1 .. Len(moments) : Append(moments, m)[k] = moments[k]
        BY <1>1, <1>2, <2>1, HistoryAppend DEF Server, Last
    <2> QED BY <1>1, <1>2, <2>2 DEF Grows, Last
<1>3. CASE Process
    <2>1. PICK s \in ServerStatus : moments' = Append(moments, [Became(s) EXCEPT !.data =
                                            IF s \in {"FAILED", "busy"} \/ @ # 0
                                            THEN @ ELSE 1])
        BY <1>3 DEF Process
    <2> DEFINE m == [Became(s) EXCEPT !.data =
                        IF s \in {"FAILED", "busy"} \/ @ # 0 THEN @ ELSE 1]
    <2>2. /\ m \in Moment /\ m.version = Server.version /\ m.status = s
          /\ s = "NEEDS_REVIEW" => m.data # 0
          /\ Server.data # 0 => m.data = Server.data
        <3> DEFINE b == Became(s)
                   d == IF s \in {"FAILED", "busy"} \/ b.data # 0 THEN b.data ELSE 1
        <3>1. b \in Moment /\ b.version = Server.version /\ b.status = s /\ b.data = Server.data
            BY <1>1 DEF Became, Moment
        <3>2. d \in 0 .. MaxData /\ (s = "NEEDS_REVIEW" => d # 0)
              /\ (Server.data # 0 => d = Server.data)
            BY <3>1, <1>1 DEF Moment
        <3>3. m = [b EXCEPT !.data = d] OBVIOUS
        <3> HIDE DEF b, d, m
        <3> QED BY <3>1, <3>2, <3>3 DEF Moment
    <2>3. Room(1) BY <1>3 DEF Process
    <2>4. Server.version \in Int BY <1>1 DEF Moment
    <2> HIDE DEF m
    <2>5. moments' = Append(moments, m) BY <2>1 DEF m
    <2> QED BY <2>2, <2>3, <2>4, <2>5, <1>1, <1>2
<1>4. CASE Vanish BY <1>4, BecomesGrows DEF Vanish, ServerStatus
<1>5. CASE OtherTab
    <2>1. Room(1) /\ Last < MaxMoments BY <1>1, <1>5 DEF OtherTab, Room, Last
    <2>2. ASSUME NEW s \in Routes, moments' = Append(moments, Corrected(s, MaxData))
          PROVE  Grows
        <3> DEFINE m == Corrected(s, MaxData)
        <3>1. Server.version \in Int BY <1>1 DEF Moment
        <3>2. m \in Moment /\ m.version = Server.version + 1 /\ m.data = MaxData
            BY <1>1, <2>1, <3>1 DEF Corrected, Moment, ServerStatus, Routes
        <3>3. moments' = Append(moments, m) BY <2>2
        <3> HIDE DEF m
        <3> QED BY <2>1, <3>1, <3>2, <3>3, <1>1, <1>2
    <2>3. ASSUME NEW s \in Reopened, moments' = Append(moments, Became(s))
          PROVE  Grows
        BY <2>1, <2>3, BecomesGrows DEF Reopened, ServerStatus
    <2> QED BY <1>5, <2>2, <2>3 DEF OtherTab
<1> QED BY <1>3, <1>4, <1>5

(* Later moments have later versions, and the data of a version that has   *)
(* any are the row's as long as it has that version.                       *)
LEMMA Between ==
    ASSUME HistoryOK, NEW i \in 1 .. Last, NEW j \in 1 .. Last, i <= j
    PROVE  /\ moments[i].version <= moments[j].version
           /\ moments[j].version <= Server.version
           /\ moments[i].version \in Nat /\ moments[j].version \in Nat
           /\ Server.version \in Nat
           /\ moments[i].version = moments[j].version /\ moments[i].data # 0 =>
                  moments[j].data = moments[i].data
           /\ moments[i].version = Server.version /\ moments[i].data # 0 =>
                  Server.data = moments[i].data
<1>1. Last \in Nat /\ Last \in 1 .. Last /\ j <= Last
    BY ServerMoment DEF HistoryOK, Last
<1>2. \A k \in 1 .. Last : moments[k] \in Moment BY ServerMoment DEF HistoryOK, Last
<1>3. \A k \in 1 .. Last : moments[k].version \in Nat BY <1>2 DEF Moment
<1>4. \A a, b \in 1 .. Last : a <= b =>
           /\ moments[a].version <= moments[b].version
           /\ moments[a].version = moments[b].version /\ moments[a].data # 0 =>
                  moments[b].data = moments[a].data
    BY DEF HistoryOK, HistoryFine, Last
<1>5. i <= Last /\ j <= Last BY <1>1
<1> QED BY <1>1, <1>3, <1>4, <1>5 DEF Server, Last


(* As the row goes on, its version does not fall, and the data of the      *)
(* version stay.                                                           *)
LEMMA GrowsOn ==
    ASSUME HistoryOK, Grows
    PROVE  /\ Last \in Nat /\ Last \in 1 .. Last /\ Last' \in Nat /\ Last <= Last'
           /\ Server.version \in Nat /\ Server'.version \in Nat
           /\ Server.version <= Server'.version
           /\ Server.version = Server'.version /\ Server.data # 0 =>
                  Server'.data = Server.data
           /\ \A k \in 1 .. Last : moments'[k] = moments[k]
           /\ HistoryOK'
<1>1. /\ Last \in Nat /\ Last \in 1 .. Last /\ Last' \in Nat /\ Last' \in 1 .. Last'
      /\ Server \in Moment /\ Server' \in Moment /\ HistoryOK'
    BY ServerMoment DEF HistoryOK, Grows, Last, Server
<1>2. Last <= Last' /\ \A k \in 1 .. Last : moments'[k] = moments[k] BY DEF Grows, Last
<1>3. moments'[Last] = Server /\ moments'[Last'] = Server' BY <1>1, <1>2 DEF Server, Last
<1>4. \A a, b \in 1 .. Last' : a <= b =>
           /\ moments'[a].version <= moments'[b].version
           /\ moments'[a].version = moments'[b].version /\ moments'[a].data # 0 =>
                  moments'[b].data = moments'[a].data
    BY DEF Grows, HistoryFine, Last
<1>5. Last \in 1 .. Last' BY <1>1, <1>2
<1>6. /\ Server.version <= Server'.version
      /\ Server.version = Server'.version /\ Server.data # 0 =>
             Server'.data = Server.data
    BY <1>1, <1>2, <1>3, <1>4, <1>5
<1>7. Server.version \in Nat /\ Server'.version \in Nat BY <1>1 DEF Moment
<1> QED BY <1>1, <1>2, <1>6, <1>7

(* The fields of the requests have their types.                            *)
LEMMA ThreadTypes ==
    ASSUME ClientTypeOK, NEW t \in Threads
    PROVE  /\ thread[t] \in Thread
           /\ thread[t].since \in Nat /\ thread[t].token \in Nat /\ thread[t].at \in Nat
<1>1. thread \in [Threads -> Thread] BY DEF ClientTypeOK
<1>2. thread[t] \in Thread BY <1>1
<1> QED BY <1>2, ClientAssumption DEF Thread

(* The fields of the page have their types.                                *)
LEMMA ViewTypes ==
    ASSUME ClientTypeOK
    PROVE  /\ view \in View /\ view.status \in Shown /\ view.detail \in Shown
           /\ view.status.at \in Nat /\ view.detail.at \in Nat
           /\ view.token \in Nat /\ view.draft \in Nat /\ view.original \in Nat
           /\ "submit" \in Threads /\ "load" \in Threads /\ "retry" \in Threads
<1>1. view \in View BY DEF ClientTypeOK
<1> QED BY <1>1, ClientAssumption DEF View, Shown, Threads

(* The form still fits when the row goes on and the page does nothing.     *)
LEMMA FormGrows ==
    ASSUME ClientTypeOK, HistoryOK, SubmitOK, PageOK, FormFits, Grows,
           view' = view, crossed' = crossed, replaced' = replaced,
           thread'["submit"] = thread["submit"]
    PROVE  FormFits'
<1> DEFINE s == thread["submit"]
<1>1. /\ Last \in Nat /\ Last \in 1 .. Last /\ Last' \in Nat /\ Last <= Last'
      /\ Server.version \in Nat /\ Server'.version \in Nat
      /\ Server.version <= Server'.version
      /\ Server.version = Server'.version /\ Server.data # 0 =>
             Server'.data = Server.data
      /\ \A k \in 1 .. Last : moments'[k] = moments[k]
    BY GrowsOn
<1>2. \A k, v, d : Shows(k, v, d) => Shows(k, v, d)' BY <1>1 DEF Shows
<1>3. view.token \in Nat /\ view.token <= Server.version BY DEF ClientTypeOK, View, PageOK
<1>4. s \in Thread /\ s.token \in Nat /\ s.at \in Nat
    BY ThreadTypes, ViewTypes
<1>5. CASE crossed \/ replaced BY <1>5 DEF FormFits
<1>6. CASE ~crossed /\ ~replaced
    <2>1. TokenFits /\ PostFits /\ AnswerFits BY <1>6 DEF FormFits
    <2>2. TokenFits'
        <3>1. SUFFICES ASSUME view.token # 0, view.token = Server'.version
                       PROVE  Shows(view.detail.at, view.token, view.original)'
            BY DEF TokenFits
        <3>2. view.token = Server.version BY <3>1, <1>1, <1>3
        <3>3. Shows(view.detail.at, view.token, view.original)
            BY <3>1, <3>2, <2>1 DEF TokenFits
        <3> QED BY <3>3, <1>2
    <2>3. PostFits'
        <3>1. SUFFICES ASSUME s.pc = "post", s.token = Server'.version
                       PROVE  /\ Shows(view.detail.at, Server.version, view.original)'
                              /\ s.base = Server'.data
                              /\ view.draft = s.draft
            BY DEF PostFits
        <3>2. s.token <= Server.version BY <3>1 DEF SubmitOK, Posting
        <3>3. Server.version = Server'.version BY <3>1, <3>2, <1>1, <1>4
        <3>4. /\ Shows(view.detail.at, Server.version, view.original)
              /\ s.base = Server.data /\ view.draft = s.draft
            BY <3>1, <3>3, <2>1 DEF PostFits
        <3>5. Server.data # 0
            <4>1. view.detail.at \in 1 .. Last /\ moments[view.detail.at].version = Server.version
                  /\ moments[view.detail.at].data # 0
                BY <3>4 DEF Shows
            <4> QED BY <4>1, <1>1, Between
        <3>6. Shows(view.detail.at, Server.version, view.original)'
            BY <3>3, <3>4, <1>1 DEF Shows
        <3> QED BY <3>3, <3>4, <3>5, <3>6, <1>1
    <2>4. AnswerFits'
        <3>1. SUFFICES ASSUME s.pc = "posted", s.answer = "ok",
                              moments'[s.at].version = Server'.version
                       PROVE  /\ view.draft = s.draft /\ moments'[s.at].data = s.draft
                              /\ view.detail.at < s.at =>
                                     Shows(view.detail.at, moments[s.at - 1].version,
                                           view.original)'
            BY DEF AnswerFits
        <3>2. s.at \in 2 .. Last BY <3>1 DEF SubmitOK
        <3>3. s.at \in 1 .. Last /\ s.at - 1 \in 1 .. Last BY <3>2, <1>1
        <3>4. moments'[s.at] = moments[s.at] /\ moments'[s.at - 1] = moments[s.at - 1]
            BY <3>3, <1>1
        <3>5. moments[s.at].version <= Server.version /\ moments[s.at].version \in Nat
            BY <3>3, Between
        <3>6. moments[s.at].version = Server.version BY <3>1, <3>4, <3>5, <1>1
        <3>7. /\ view.draft = s.draft /\ moments[s.at].data = s.draft
              /\ view.detail.at < s.at =>
                     Shows(view.detail.at, moments[s.at - 1].version, view.original)
            BY <3>1, <3>6, <2>1 DEF AnswerFits
        <3> QED BY <3>4, <3>7, <1>2
    <2> QED BY <2>2, <2>3, <2>4 DEF FormFits
<1> QED BY <1>5, <1>6


(* The form still fits when nothing it depends on changes, or when the     *)
(* submission is over.                                                     *)
LEMMA FormKept ==
    ASSUME FormFits, moments' = moments, crossed' = crossed, replaced' = replaced,
           view'.token = view.token, view'.detail.at = view.detail.at,
           view'.original = view.original, view'.draft = view.draft,
           \/ thread'["submit"] = thread["submit"]
           \/ thread'["submit"].pc \notin {"post", "posted"}
    PROVE  FormFits'
<1>1. Server' = Server BY DEF Server
<1>2. \A k, v, d : Shows(k, v, d)' <=> Shows(k, v, d) BY DEF Shows, Last
<1>3. CASE crossed \/ replaced BY <1>3 DEF FormFits
<1>4. CASE ~crossed /\ ~replaced
    <2>1. TokenFits /\ PostFits /\ AnswerFits BY <1>4 DEF FormFits
    <2>2. TokenFits' BY <2>1, <1>1, <1>2 DEF TokenFits
    <2>3. PostFits'
        <3>1. CASE thread'["submit"] = thread["submit"]
            <4>1. SUFFICES ASSUME thread["submit"].pc = "post",
                                  thread["submit"].token = Server.version
                           PROVE  /\ Shows(view.detail.at, Server.version, view.original)'
                                  /\ thread["submit"].base = Server.data
                                  /\ view.draft = thread["submit"].draft
                BY <3>1, <1>1 DEF PostFits
            <4>2. /\ Shows(view.detail.at, Server.version, view.original)
                  /\ thread["submit"].base = Server.data
                  /\ view.draft = thread["submit"].draft
                BY <4>1, <2>1 DEF PostFits
            <4> QED BY <4>2, <1>1 DEF Shows, Last
        <3>2. CASE thread'["submit"].pc \notin {"post", "posted"} BY <3>2 DEF PostFits
        <3> QED BY <3>1, <3>2
    <2>4. AnswerFits'
        <3>1. CASE thread'["submit"] = thread["submit"]
            BY <3>1, <2>1, <1>1 DEF AnswerFits, Shows, Last
        <3>2. CASE thread'["submit"].pc \notin {"post", "posted"} BY <3>2 DEF AnswerFits
        <3> QED BY <3>1, <3>2
    <2> QED BY <2>2, <2>3, <2>4 DEF FormFits
<1> QED BY <1>3, <1>4

(* A detail that is not older than the one shown leaves the form fitting:  *)
(* it is either of a later version, or has the same data.                  *)
LEMMA FormShown ==
    ASSUME ClientTypeOK, HistoryOK, SubmitOK, FormFits,
           moments' = moments, crossed' = crossed, replaced => replaced',
           NEW k \in 1 .. Last, view.detail.at <= k,
           view'.detail.at = k, view'.token = TokenOf(moments[k]),
           moments[k].data = 0 =>
               view'.original = view.original /\ view'.draft = view.draft,
           moments[k].data # 0 =>
               view'.original = moments[k].data
               /\ view'.draft \in {view.draft, moments[k].data},
           view'.draft # view.draft /\ Posting =>
               replaced' \/ view.draft = view.original,
           \/ thread'["submit"] = thread["submit"]
           \/ thread'["submit"].pc \notin {"post", "posted"}
    PROVE  FormFits'
<1> DEFINE s == thread["submit"]
<1>1. Server' = Server /\ Last' = Last BY DEF Server, Last
<1>2. \A i, v, d : Shows(i, v, d)' <=> Shows(i, v, d) BY DEF Shows, Last
<1>3. CASE crossed' \/ replaced' BY <1>3 DEF FormFits
<1>4. CASE ~crossed' /\ ~replaced'
    <2>1. TokenFits /\ PostFits /\ AnswerFits BY <1>4 DEF FormFits
    <2>2. HistoryFine(moments) /\ Last \in Nat BY ServerMoment DEF HistoryOK, Last
    <2>3. view.detail.at \in Nat /\ s \in Thread /\ s.at \in Nat /\ s.token \in Nat
        BY ViewTypes, ThreadTypes
    <2>4. TokenFits'
        <3>1. SUFFICES ASSUME TokenOf(moments[k]) # 0
                       PROVE  Shows(k, TokenOf(moments[k]), view'.original)
            BY <1>2, <1>1 DEF TokenFits
        <3>2. moments[k].status = "NEEDS_REVIEW" /\ TokenOf(moments[k]) = moments[k].version
            BY <3>1 DEF TokenOf
        <3>3. moments[k].data # 0 BY <3>2, <2>2 DEF HistoryFine, Last
        <3> QED BY <3>2, <3>3 DEF Shows
    <2>5. ASSUME NEW v \in Nat, Shows(view.detail.at, v, view.original),
                 moments[k].version <= v
          PROVE  /\ moments[k].version = v /\ moments[k].data = view.original
                 /\ Shows(k, v, view'.original)
                 /\ view'.original = view.original
        <3>1. /\ view.detail.at \in 1 .. Last /\ moments[view.detail.at].version = v
              /\ moments[view.detail.at].data = view.original /\ view.original # 0
            BY <2>5 DEF Shows
        <3>2. /\ v <= moments[k].version /\ moments[k].version \in Nat
              /\ v = moments[k].version => moments[k].data = view.original
            BY <3>1, Between
        <3>3. moments[k].version = v /\ moments[k].data = view.original
            BY <3>2, <2>5
        <3> QED BY <3>1, <3>3 DEF Shows
    <2>6. Posting /\ moments[k].data = view.original => view'.draft = view.draft
        BY <1>4
    <2>7. PostFits'
        <3>1. CASE thread'["submit"] = s
            <4>1. SUFFICES ASSUME s.pc = "post", s.token = Server.version
                           PROVE  /\ Shows(k, Server.version, view'.original)
                                  /\ s.base = Server.data
                                  /\ view'.draft = s.draft
                BY <3>1, <1>1, <1>2 DEF PostFits
            <4>2. /\ Shows(view.detail.at, Server.version, view.original)
                  /\ s.base = Server.data /\ view.draft = s.draft
                BY <4>1, <2>1 DEF PostFits
            <4>3. moments[k].version <= Server.version /\ Server.version \in Nat
                BY Between, <2>2
            <4>4. moments[k].data = view.original /\ Shows(k, Server.version, view'.original)
                BY <4>2, <4>3, <2>5
            <4> QED BY <4>1, <4>2, <4>4, <2>6 DEF Posting
        <3>2. CASE thread'["submit"].pc \notin {"post", "posted"} BY <3>2 DEF PostFits
        <3> QED BY <3>1, <3>2
    <2>8. AnswerFits'
        <3>1. CASE thread'["submit"] = s
            <4>1. SUFFICES ASSUME s.pc = "posted", s.answer = "ok",
                                  moments[s.at].version = Server.version
                           PROVE  /\ view'.draft = s.draft /\ moments[s.at].data = s.draft
                                  /\ k < s.at =>
                                         Shows(k, moments[s.at - 1].version, view'.original)
                BY <3>1, <1>1, <1>2 DEF AnswerFits
            <4>2. s.at \in 2 .. Last /\ s.draft # 0 BY <4>1 DEF SubmitOK, Posting
            <4>3. /\ view.draft = s.draft /\ moments[s.at].data = s.draft
                  /\ view.detail.at < s.at =>
                         Shows(view.detail.at, moments[s.at - 1].version, view.original)
                BY <4>1, <2>1 DEF AnswerFits
            <4>4. CASE k < s.at
                <5>1. k \in 1 .. Last /\ s.at - 1 \in 1 .. Last /\ k <= s.at - 1
                    BY <4>2, <4>4, <2>2
                <5>2. moments[k].version <= moments[s.at - 1].version
                      /\ moments[s.at - 1].version \in Nat
                    BY <5>1, Between
                <5>3. Shows(view.detail.at, moments[s.at - 1].version, view.original)
                    BY <4>3, <4>4, <2>3
                <5>4. moments[k].data = view.original
                      /\ Shows(k, moments[s.at - 1].version, view'.original)
                    BY <5>2, <5>3, <2>5
                <5> QED BY <5>4, <4>1, <4>3, <2>6 DEF Posting
            <4>5. CASE s.at <= k
                <5>1. s.at \in 1 .. Last BY <4>2
                <5>2. /\ moments[s.at].version <= moments[k].version
                      /\ moments[k].version <= Server.version
                      /\ moments[s.at].version \in Nat /\ moments[k].version \in Nat
                      /\ moments[s.at].version = moments[k].version /\ moments[s.at].data # 0 =>
                             moments[k].data = moments[s.at].data
                    BY <5>1, <4>5, Between
                <5>3. moments[k].data = s.draft BY <5>2, <4>1, <4>2, <4>3
                <5> QED BY <5>3, <4>2, <4>3, <4>5, <2>3, <2>2
            <4> QED BY <4>4, <4>5, <4>2, <2>2
        <3>2. CASE thread'["submit"].pc \notin {"post", "posted"} BY <3>2 DEF AnswerFits
        <3> QED BY <3>1, <3>2
    <2> QED BY <2>4, <2>7, <2>8 DEF FormFits
<1> QED BY <1>3, <1>4


-------------------------------------------------------------------------------
(* What the page's helpers change.                                         *)

Alike(v, w) ==
    /\ w \in View
    /\ w.status = v.status /\ w.detail = v.detail /\ w.token = v.token
    /\ w.draft = v.draft /\ w.original = v.original
    /\ w.notFound = v.notFound /\ w.loadError = v.loadError
    /\ w.submitError = v.submitError

(* The end of a function that loaded a detail, or of refreshStatus, only   *)
(* ends the submission or the polling.                                     *)
LEMMA FinallyAlike ==
    ASSUME NEW t \in Threads, NEW v \in View
    PROVE  /\ Alike(v, Finally(t, v))
           /\ Finally(t, v).submitting = (v.submitting /\ t # "submit")
           /\ t \in {"poll", "refresh"} => Finally(t, v) = GiveUp(t, v)
<1>1. /\ Alike(v, [v EXCEPT !.retryGaveUp = TRUE])
      /\ Alike(v, [v EXCEPT !.override = FALSE, !.retryGaveUp = TRUE])
      /\ Alike(v, [v EXCEPT !.submitting = FALSE]) /\ Alike(v, v)
    BY DEF Alike, View
<1>2. /\ [v EXCEPT !.retryGaveUp = TRUE].submitting = v.submitting
      /\ [v EXCEPT !.override = FALSE, !.retryGaveUp = TRUE].submitting = v.submitting
      /\ [v EXCEPT !.submitting = FALSE].submitting = FALSE
      /\ v.submitting \in BOOLEAN
    BY DEF View
<1>3. GiveUp(t, v) \in {[v EXCEPT !.retryGaveUp = TRUE],
                        [v EXCEPT !.override = FALSE, !.retryGaveUp = TRUE], v}
    BY DEF GiveUp
<1>4. CASE t \in {"poll", "refresh"}
    <2>1. Finally(t, v) = GiveUp(t, v) /\ t # "submit" BY <1>4 DEF Finally
    <2>2. Alike(v, GiveUp(t, v)) /\ GiveUp(t, v).submitting = v.submitting
        BY <1>1, <1>2, <1>3
    <2> QED BY <2>1, <2>2, <1>2
<1>5. CASE t = "submit"
    <2>1. Finally(t, v) = [v EXCEPT !.submitting = FALSE] BY <1>5 DEF Finally
    <2> QED BY <2>1, <1>1, <1>2, <1>5
<1>6. CASE t \notin {"poll", "refresh", "submit"}
    <2>1. Finally(t, v) = v BY <1>6 DEF Finally
    <2> QED BY <2>1, <1>1, <1>2, <1>6
<1> QED BY <1>4, <1>5, <1>6

(* A detail is shown with its token; its data become the base of the       *)
(* changes, and the draft where that is replaced or unchanged.             *)
LEMMA WithDetailShows ==
    ASSUME HistoryOK, NEW v \in View, NEW k \in 1 .. Last, NEW r \in BOOLEAN
    PROVE  LET w == WithDetail(v, k, r)
           IN  /\ w \in View
               /\ w.detail = ShownAt(k) /\ w.token = TokenOf(moments[k])
               /\ w.token # 0 <=> w.detail.is = "NEEDS_REVIEW"
               /\ w.status = v.status /\ w.notFound = v.notFound
               /\ w.loadError = v.loadError /\ w.submitting = v.submitting
               /\ w.submitError = v.submitError
               /\ moments[k].data = 0 => w.original = v.original /\ w.draft = v.draft
               /\ moments[k].data # 0 => /\ w.original = moments[k].data
                                         /\ w.draft \in {v.draft, moments[k].data}
               /\ w.draft # v.draft => r \/ v.draft = v.original
<1> DEFINE m == moments[k]
           d == m.data
           a == [v EXCEPT !.detail = ShownAt(k), !.token = TokenOf(m)]
<1>1. m \in Moment /\ k \in 0 .. MaxMoments /\ MaxMoments \in Nat
    BY ServerMoment, ClientAssumption DEF HistoryOK, HistoryFine, Last
<1>2. /\ d \in 0 .. MaxData /\ m.status \in ServerStatus
      /\ m.version \in 0 .. MaxMoments /\ m.version # 0
    BY <1>1 DEF Moment
<1>3. ShownAt(k) \in Shown /\ ShownAt(k).is = m.status /\ TokenOf(m) \in 0 .. MaxMoments
      /\ (TokenOf(m) # 0 <=> ShownAt(k).is = "NEEDS_REVIEW")
    BY <1>1, <1>2 DEF ShownAt, Shown, TokenOf
<1> HIDE DEF d, m
<1>4. /\ a \in View /\ a.detail = ShownAt(k) /\ a.token = TokenOf(m)
      /\ a.status = v.status /\ a.notFound = v.notFound
      /\ a.loadError = v.loadError /\ a.submitting = v.submitting
      /\ a.submitError = v.submitError /\ a.original = v.original /\ a.draft = v.draft
    BY <1>3 DEF View
<1> HIDE DEF a
<1>5. /\ [a EXCEPT !.original = d] \in View
      /\ [a EXCEPT !.original = d, !.draft = d] \in View
    BY <1>2, <1>4 DEF View
<1>6. WithDetail(v, k, r) =
          CASE d = 0 -> a
            [] d # 0 /\ ~r /\ v.draft # v.original -> [a EXCEPT !.original = d]
            [] OTHER -> [a EXCEPT !.original = d, !.draft = d]
    BY DEF WithDetail, a, d, m
<1>7. CASE d = 0
    <2>1. WithDetail(v, k, r) = a BY <1>6, <1>7
    <2> QED BY <2>1, <1>3, <1>4, <1>7 DEF d, m
<1>8. CASE d # 0 /\ ~r /\ v.draft # v.original
    <2>1. WithDetail(v, k, r) = [a EXCEPT !.original = d] BY <1>6, <1>8
    <2>2. a \in View BY <1>4
    <2> QED BY <2>1, <2>2, <1>2, <1>3, <1>4, <1>5, <1>8 DEF d, m, View
<1>9. CASE d # 0 /\ (r \/ v.draft = v.original)
    <2>1. WithDetail(v, k, r) = [a EXCEPT !.original = d, !.draft = d] BY <1>6, <1>9
    <2> QED BY <2>1, <1>2, <1>3, <1>4, <1>5, <1>9 DEF d, m, View
<1> QED BY <1>7, <1>8, <1>9

(* The requests the page sends are requests.  An idle one;                 *)
LEMMA NoThreadType == NoThread \in Thread /\ NoThread.pc = "idle" /\ ~NoThread.old
BY ClientAssumption DEF NoThread, Thread

(* a reload;                                                               *)
LEMMA OpenedType ==
    ASSUME NEW n \in 0 .. MaxMoments
    PROVE  /\ Opened(n) \in Thread /\ Opened(n).pc = "pair" /\ Opened(n).since = n
           /\ ~Opened(n).old
BY NoThreadType, ClientAssumption DEF Opened, Thread, NoThread

(* a request for the status, sent now, of the present visit;               *)
LEMMA RefreshingType ==
    ASSUME ClientTypeOK, NEW v \in View
    PROVE  /\ Refreshing(v) \in Thread /\ Refreshing(v).pc = "status"
           /\ Refreshing(v).since = Last /\ ~Refreshing(v).old
           /\ Refreshing(v).saw = [status |-> v.status.is, detail |-> v.detail.is]
<1>1. Last \in 0 .. MaxMoments BY ClientAssumption DEF ClientTypeOK, Last
<1>2. v.status.is \in ServerStatus \cup {"none"} /\ v.detail.is \in ServerStatus \cup {"none"}
      /\ v.override \in BOOLEAN
    BY DEF View, Shown
<1> QED BY <1>1, <1>2, NoThreadType DEF Refreshing, Thread, NoThread, Last

(* and a request for the detail, sent now.                                 *)
LEMMA LoadingType ==
    ASSUME ClientTypeOK, NEW t \in Threads, NEW r \in BOOLEAN
    PROVE  /\ Loading(t, r) \in Thread /\ Loading(t, r).pc = "detail"
           /\ Loading(t, r).since = Last /\ Loading(t, r).replace = r
           /\ Loading(t, r).old = thread[t].old
<1>1. Last \in 0 .. MaxMoments BY ClientAssumption DEF ClientTypeOK, Last
<1>2. thread[t] \in Thread BY ThreadTypes
<1> QED BY <1>1, <1>2 DEF Loading, Thread, Last

(* Setting one request leaves the others.                                  *)
LEMMA SetThread ==
    ASSUME ClientTypeOK, NEW t \in Threads, NEW r \in Thread, Set(t, r)
    PROVE  /\ thread' \in [Threads -> Thread] /\ thread'[t] = r
           /\ \A u \in Threads : u # t => thread'[u] = thread[u]
<1>1. thread \in [Threads -> Thread] BY DEF ClientTypeOK
<1>2. thread' = [thread EXCEPT ![t] = r] BY DEF Set
<1> QED BY <1>1, <1>2

(* The requests that are not touched, and own no more than before, remain  *)
(* in order.                                                               *)
LEMMA OthersOK ==
    ASSUME ThreadsOK, NEW T, moments' = moments,
           \A u \in Threads \ T :
               /\ thread'[u] = thread[u]
               /\ owner'.status = u => owner.status = u /\ view'.status = view.status
               /\ owner'.detail = u => owner.detail = u /\ view'.detail = view.detail
    PROVE  \A u \in Threads \ T : ThreadOK(u)'
<1> SUFFICES ASSUME NEW u \in Threads \ T PROVE ThreadOK(u)' OBVIOUS
<1>1. ThreadOK(u) BY DEF ThreadsOK
<1>2. /\ thread'[u] = thread[u]
      /\ owner'.status = u => owner.status = u /\ view'.status = view.status
      /\ owner'.detail = u => owner.detail = u /\ view'.detail = view.detail
    OBVIOUS
<1> QED BY <1>1, <1>2 DEF ThreadOK, Last

(* The types hold after a step that keeps the row and types the rest.      *)
LEMMA TypesKept ==
    ASSUME ClientTypeOK, moments' = moments, unheard' \in BOOLEAN,
           view' \in View, view'.token # 0 => view'.detail.is = "NEEDS_REVIEW",
           thread' \in [Threads -> Thread],
           \/ owner' = owner
           \/ owner' \in [status : Threads \cup {"none"}, detail : Threads \cup {"none"}],
           visit' = visit, crossed' = crossed, replaced' \in BOOLEAN,
           mishaps' = mishaps \/ Fault
    PROVE  ClientTypeOK'
<1>1. mishaps' \in 0 .. MaxMishaps BY ClientAssumption DEF ClientTypeOK, Fault
<1> QED BY <1>1 DEF ClientTypeOK

-------------------------------------------------------------------------------
(* The steps.                                                              *)

(* The server by itself.                                                   *)
LEMMA WorldStep ==
    ASSUME ClientInv, Process \/ Vanish \/ OtherTab
    PROVE  ClientInv'
<1>1. Grows BY WorldGrows DEF ClientInv
<1>2. /\ view' = view /\ thread' = thread /\ owner' = owner /\ visit' = visit
      /\ crossed' = crossed /\ replaced' = replaced /\ mishaps' = mishaps
      /\ unheard' \in BOOLEAN
    BY DEF ClientInv, ClientTypeOK, Process, Vanish, OtherTab, Client
<1>3. ClientTypeOK'
    <2>1. moments' \in Seq(Moment) /\ Len(moments') \in 1 .. MaxMoments
        BY <1>1 DEF Grows, HistoryFine
    <2> QED BY <1>2, <2>1 DEF ClientInv, ClientTypeOK
<1>4. /\ Last \in Nat /\ Last' \in Nat /\ Last <= Last' /\ HistoryOK'
      /\ Server.version \in Nat /\ Server'.version \in Nat
      /\ Server.version <= Server'.version
    BY <1>1, GrowsOn DEF ClientInv
<1>5. ThreadsOK'
    <2> SUFFICES ASSUME NEW t \in Threads PROVE ThreadOK(t)' BY DEF ThreadsOK
    <2>1. ThreadOK(t) BY DEF ClientInv, ThreadsOK
    <2>2. thread[t].since \in Nat BY ThreadTypes DEF ClientInv
    <2> QED BY <1>2, <1>4, <2>1, <2>2 DEF ThreadOK
<1>6. SubmitOK'
    <2>1. SubmitOK BY DEF ClientInv
    <2>2. thread["submit"].token \in Nat /\ thread["submit"].at \in Nat
        BY ThreadTypes, ViewTypes DEF ClientInv
    <2> QED BY <1>2, <1>4, <2>1, <2>2 DEF SubmitOK, Posting
<1>7. PageOK'
    <2>1. view.status.at \in Nat /\ view.detail.at \in Nat /\ view.token \in Nat
        BY ViewTypes DEF ClientInv
    <2> QED BY <1>2, <1>4, <2>1 DEF ClientInv, PageOK
<1>8. FormFits' BY <1>1, <1>2, FormGrows DEF ClientInv
<1>9. NotLost' BY <1>2 DEF ClientInv, NotLost, Served, Visiting
<1> QED BY <1>3, <1>4, <1>5, <1>6, <1>7, <1>8, <1>9 DEF ClientInv

(* The timer asks for the status.                                          *)
LEMMA TickStep ==
    ASSUME ClientInv, Tick
    PROVE  ClientInv'
<1>1. /\ moments' = moments /\ unheard' = unheard /\ visit' = visit
      /\ crossed' = crossed /\ replaced' = replaced /\ mishaps' = mishaps
      /\ owner' = [owner EXCEPT !.status = "poll"] /\ Set("poll", Refreshing(view))
      /\ view' = Tried(view) /\ Visiting /\ thread["poll"].pc = "idle"
    BY DEF Tick, Environment
<1>2. ClientTypeOK /\ view \in View /\ "poll" \in Threads /\ Last \in Nat /\ Last \in 1 .. Last
    BY ViewTypes, ServerMoment DEF ClientInv, Threads, HistoryOK, Last
<1>3. view' \in View /\ Alike(view, view') /\ view'.submitting = view.submitting
    BY <1>1, <1>2, ClientAssumption DEF Tried, View, Alike
<1> DEFINE r == Refreshing(view)
<1>4. /\ r \in Thread /\ r.pc = "status" /\ r.since = Last /\ ~r.old
      /\ r.saw = [status |-> view.status.is, detail |-> view.detail.is]
    BY <1>2, RefreshingType
<1>5. Set("poll", r) BY <1>1
<1> HIDE DEF r
<1>6. /\ thread' \in [Threads -> Thread] /\ thread'["poll"] = r
      /\ \A u \in Threads : u # "poll" => thread'[u] = thread[u]
    BY <1>2, <1>4, <1>5, SetThread
<1>7. /\ owner' \in [status : Threads \cup {"none"}, detail : Threads \cup {"none"}]
      /\ owner'.status = "poll" /\ owner'.detail = owner.detail
    BY <1>1, <1>2 DEF ClientTypeOK
<1>8. ClientTypeOK'
    <2>1. view'.token # 0 => view'.detail.is = "NEEDS_REVIEW"
        BY <1>2, <1>3 DEF ClientTypeOK, Alike
    <2>2. unheard' \in BOOLEAN /\ replaced' \in BOOLEAN
        BY <1>1, <1>2 DEF ClientTypeOK
    <2> QED BY <1>1, <1>2, <1>3, <1>6, <1>7, <2>1, <2>2, TypesKept
<1>9. HistoryOK' BY <1>1 DEF ClientInv, HistoryOK
<1>10. ThreadsOK'
    <2>1. \A u \in Threads \ {"poll"} : ThreadOK(u)'
        BY <1>1, <1>3, <1>6, <1>7, OthersOK DEF ClientInv, Alike
    <2>2. ThreadOK("poll")'
        <3>1. view'.status.at <= Last BY <1>3 DEF ClientInv, PageOK, Alike
        <3> QED BY <1>1, <1>2, <1>4, <1>6, <3>1 DEF ThreadOK, Last, Asking
    <2> QED BY <2>1, <2>2 DEF ThreadsOK
<1>11. thread'["submit"] = thread["submit"] /\ thread'["retry"] = thread["retry"]
       /\ Server' = Server
    BY <1>1, <1>6, <1>2 DEF Threads, Server
<1>12. SubmitOK' BY <1>1, <1>3, <1>11 DEF ClientInv, SubmitOK, Posting, Last
<1>13. PageOK' BY <1>1, <1>3, <1>11 DEF ClientInv, PageOK, Last, Alike
<1>14. FormFits' BY <1>1, <1>3, <1>11, FormKept DEF ClientInv, Alike
<1>15. NotLost'
    <2>1. NotLost BY DEF ClientInv
    <2>2. \A t \in Threads : thread[t].pc = "detail" => thread'[t] = thread[t]
        BY <1>1, <1>6
    <2>3. thread'["poll"].saw.detail = view.detail.is BY <1>4, <1>6
    <2>4. thread'["refresh"] = thread["refresh"] BY <1>6 DEF Threads
    <2> QED BY <1>1, <1>3, <1>7, <1>11, <2>1, <2>2, <2>3, <2>4
        DEF NotLost, Served, Alike, Visiting
<1> QED BY <1>8, <1>9, <1>10, <1>12, <1>13, <1>14, <1>15 DEF ClientInv


(* The user types.                                                         *)
LEMMA EditStep ==
    ASSUME ClientInv, Edit
    PROVE  ClientInv'
<1>1. /\ moments' = moments /\ unheard' = unheard /\ visit' = visit
      /\ crossed' = crossed /\ replaced' = replaced /\ mishaps' = mishaps
      /\ owner' = owner /\ thread' = thread /\ ~view.submitting
    BY DEF Edit, Environment, FormEnabled
<1>2. PICK d \in 1 .. MaxData : view' = [view EXCEPT !.draft = d] BY DEF Edit
<1>3. /\ view' \in View /\ view'.status = view.status /\ view'.detail = view.detail
      /\ view'.token = view.token /\ view'.original = view.original
      /\ view'.notFound = view.notFound /\ view'.loadError = view.loadError
      /\ view'.submitting = view.submitting /\ view'.submitError = view.submitError
    BY <1>2, ViewTypes, ClientAssumption DEF ClientInv, View
<1>4. thread["submit"].pc = "idle" BY <1>1 DEF ClientInv, SubmitOK
<1>5. ClientTypeOK'
    <2>1. ClientTypeOK BY DEF ClientInv
    <2> QED BY <1>1, <1>3, <2>1 DEF ClientTypeOK
<1>6. HistoryOK' BY <1>1 DEF ClientInv, HistoryOK
<1>7. ThreadsOK'
    <2>1. \A u \in Threads \ {} : ThreadOK(u)' BY <1>1, <1>3, OthersOK DEF ClientInv
    <2> QED BY <2>1 DEF ThreadsOK
<1>8. Server' = Server BY <1>1 DEF Server
<1>9. SubmitOK' BY <1>1, <1>4 DEF SubmitOK, Posting
<1>10. PageOK' BY <1>1, <1>3, <1>8 DEF ClientInv, PageOK, Last
<1>11. FormFits'
    <2>1. PostFits' /\ AnswerFits' BY <1>1, <1>4 DEF PostFits, AnswerFits
    <2>2. TokenFits => TokenFits' BY <1>1, <1>3, <1>8 DEF TokenFits, Shows, Last
    <2> QED BY <1>1, <2>1, <2>2 DEF ClientInv, FormFits
<1>12. NotLost' BY <1>1, <1>3 DEF ClientInv, NotLost, Served, Visiting
<1> QED BY <1>5, <1>6, <1>7, <1>9, <1>10, <1>11, <1>12 DEF ClientInv

(* The user submits: the form that is shown, with the token that is held.  *)
LEMMA SubmitStep ==
    ASSUME ClientInv, Submit
    PROVE  ClientInv'
<1> DEFINE r == [NoThread EXCEPT !.pc = "post", !.token = view.token,
                          !.draft = view.draft, !.base = view.original]
<1>1. /\ moments' = moments /\ unheard' = unheard /\ visit' = visit
      /\ crossed' = crossed /\ replaced' = replaced /\ mishaps' = mishaps
      /\ owner' = owner /\ Set("submit", r) /\ view.token # 0 /\ view.draft # 0
      /\ view' = [view EXCEPT !.submitting = TRUE, !.submitError = FALSE]
      /\ Visiting /\ thread["submit"].pc = "idle"
    BY DEF Submit, Environment, FormEnabled, Rendered
<1>2. /\ view' \in View /\ view'.status = view.status /\ view'.detail = view.detail
      /\ view'.token = view.token /\ view'.original = view.original
      /\ view'.draft = view.draft
      /\ view'.notFound = view.notFound /\ view'.loadError = view.loadError
      /\ view'.submitting
    BY <1>1, ViewTypes DEF ClientInv, View
<1>3. /\ r \in Thread /\ r.pc = "post" /\ r.token = view.token /\ r.draft = view.draft
      /\ r.base = view.original /\ ~r.old
    <2>1. /\ view.token \in 0 .. MaxMoments /\ view.draft \in 0 .. MaxData
          /\ view.original \in 0 .. MaxData
        BY ViewTypes DEF ClientInv, View
    <2> QED BY <2>1, NoThreadType DEF Thread, NoThread
<1> HIDE DEF r
<1>4. ClientTypeOK /\ "submit" \in Threads BY ViewTypes DEF ClientInv
<1>5. /\ thread' \in [Threads -> Thread] /\ thread'["submit"] = r
      /\ \A u \in Threads : u # "submit" => thread'[u] = thread[u]
    BY <1>1, <1>3, <1>4, SetThread
<1>6. ClientTypeOK'
    <2>1. view'.token # 0 => view'.detail.is = "NEEDS_REVIEW"
        BY <1>2, <1>4 DEF ClientTypeOK
    <2>2. unheard' \in BOOLEAN /\ replaced' \in BOOLEAN
        BY <1>1, <1>4 DEF ClientTypeOK
    <2> QED BY <1>1, <1>2, <1>4, <1>5, <2>1, <2>2, TypesKept
<1>7. HistoryOK' BY <1>1 DEF ClientInv, HistoryOK
<1>8. ThreadsOK'
    <2>1. \A u \in Threads \ {"submit"} : ThreadOK(u)'
        BY <1>1, <1>2, <1>5, OthersOK DEF ClientInv
    <2>2. ThreadOK("submit")' BY <1>3, <1>5 DEF ThreadOK, Asking
    <2> QED BY <2>1, <2>2 DEF ThreadsOK
<1>9. Server' = Server /\ Last' = Last BY <1>1 DEF Server, Last
<1>10. SubmitOK'
    <2>1. view.token <= Server.version BY DEF ClientInv, PageOK
    <2> QED BY <1>1, <1>2, <1>3, <1>5, <1>9, <2>1 DEF SubmitOK, Posting
<1>11. PageOK' BY <1>1, <1>2, <1>9 DEF ClientInv, PageOK
<1>12. FormFits'
    <2>1. CASE crossed \/ replaced BY <1>1, <2>1 DEF FormFits
    <2>2. CASE TokenFits
        <3>1. \A k, v, d : Shows(k, v, d)' <=> Shows(k, v, d) BY <1>1 DEF Shows, Last
        <3>2. TokenFits' BY <1>2, <1>9, <2>2, <3>1 DEF TokenFits
        <3>3. AnswerFits' BY <1>3, <1>5 DEF AnswerFits
        <3>4. PostFits'
            <4>1. SUFFICES ASSUME view.token = Server.version
                           PROVE  /\ Shows(view.detail.at, Server.version, view.original)
                                  /\ view.original = Server.data
                BY <1>2, <1>3, <1>5, <1>9, <3>1 DEF PostFits
            <4>2. Shows(view.detail.at, Server.version, view.original)
                BY <1>1, <2>2, <4>1 DEF TokenFits
            <4>3. Last \in Nat /\ Last \in 1 .. Last
                BY ServerMoment DEF ClientInv, HistoryOK, Last
            <4>4. view.detail.at \in 1 .. Last /\ view.detail.at <= Last
                  /\ moments[view.detail.at].version = Server.version
                  /\ moments[view.detail.at].data = view.original /\ view.original # 0
                BY <4>2, <4>3 DEF Shows
            <4>5. Server.data = view.original
                BY <4>3, <4>4, Between DEF ClientInv
            <4> QED BY <4>2, <4>5
        <3> QED BY <3>2, <3>3, <3>4 DEF FormFits
    <2> QED BY <2>1, <2>2 DEF ClientInv, FormFits
<1>13. NotLost'
    <2>1. NotLost BY DEF ClientInv
    <2>2. \A t \in Threads : thread[t].pc = "detail" => thread'[t] = thread[t]
        BY <1>1, <1>5
    <2>3. thread'["poll"] = thread["poll"] /\ thread'["refresh"] = thread["refresh"]
          /\ thread'["retry"] = thread["retry"]
        BY <1>5 DEF Threads
    <2> QED BY <1>1, <1>2, <1>3, <1>5, <2>1, <2>2, <2>3 DEF NotLost, Served, Visiting
<1> QED BY <1>6, <1>7, <1>8, <1>10, <1>11, <1>12, <1>13 DEF ClientInv

(* The user retries a failed invoice.                                      *)
LEMMA RetryStep ==
    ASSUME ClientInv, Retry
    PROVE  ClientInv'
<1> DEFINE r == [Refreshing(view) EXCEPT !.pc = "post", !.since = 0, !.retryPoll = TRUE]
<1>1. /\ moments' = moments /\ visit' = visit
      /\ crossed' = crossed /\ replaced' = replaced /\ (mishaps' = mishaps \/ Fault)
      /\ owner' = owner /\ Set("retry", r) /\ view' = view
      /\ unheard' \in BOOLEAN
      /\ Visiting /\ view.detail.is # "none" /\ thread["retry"].pc = "idle"
    BY DEF Retry, Rendered, Environment, ClientInv, ClientTypeOK
<1>2. /\ ClientTypeOK /\ "retry" \in Threads /\ "submit" \in Threads /\ view \in View
    BY ViewTypes DEF ClientInv
<1>3. r \in Thread /\ r.pc = "post" /\ ~r.old
    <2>1. 0 \in 0 .. MaxMoments BY ClientAssumption
    <2> QED BY <1>2, <2>1, RefreshingType, ZenonT(60) DEF Thread
<1> HIDE DEF r
<1>4. /\ thread' \in [Threads -> Thread] /\ thread'["retry"] = r
      /\ \A u \in Threads : u # "retry" => thread'[u] = thread[u]
    BY <1>1, <1>2, <1>3, SetThread
<1>5. ClientTypeOK'
    <2>1. view'.token # 0 => view'.detail.is = "NEEDS_REVIEW"
        BY <1>1, <1>2 DEF ClientTypeOK
    <2>2. replaced' \in BOOLEAN BY <1>1, <1>2 DEF ClientTypeOK
    <2> QED BY <1>1, <1>2, <1>4, <2>1, <2>2, TypesKept
<1>6. HistoryOK' BY <1>1 DEF ClientInv, HistoryOK
<1>7. ThreadsOK'
    <2>1. \A u \in Threads \ {"retry"} : ThreadOK(u)'
        BY <1>1, <1>4, OthersOK DEF ClientInv
    <2>2. ThreadOK("retry")' BY <1>3, <1>4 DEF ThreadOK, Asking
    <2> QED BY <2>1, <2>2 DEF ThreadsOK
<1>8. Server' = Server /\ Last' = Last /\ thread'["submit"] = thread["submit"]
    BY <1>1, <1>2, <1>4 DEF Server, Last
<1>9. SubmitOK' BY <1>1, <1>8 DEF ClientInv, SubmitOK, Posting
<1>10. PageOK' BY <1>1, <1>8 DEF ClientInv, PageOK
<1>11. FormFits' BY <1>1, <1>8, FormKept DEF ClientInv
<1>12. NotLost'
    <2>1. NotLost BY DEF ClientInv
    <2>2. \A t \in Threads : thread[t].pc = "detail" => thread'[t] = thread[t]
        BY <1>1, <1>4
    <2>3. thread'["poll"] = thread["poll"] /\ thread'["refresh"] = thread["refresh"]
        BY <1>4 DEF Threads
    <2> QED BY <1>1, <1>8, <2>1, <2>2, <2>3 DEF NotLost, Served, Visiting
<1> QED BY <1>5, <1>6, <1>7, <1>9, <1>10, <1>11, <1>12 DEF ClientInv

(* The user reloads after an error.                                        *)
LEMMA ReloadStep ==
    ASSUME ClientInv, Reload
    PROVE  ClientInv'
<1> DEFINE r == Opened(Len(moments))
<1>1. /\ moments' = moments /\ unheard' = unheard /\ visit' = visit
      /\ crossed' = crossed /\ replaced' = replaced /\ mishaps' = mishaps
      /\ owner' = [status |-> "load", detail |-> "load"] /\ Set("load", r)
      /\ view' = view /\ Visiting /\ view.loadError
    BY DEF Reload, Environment
<1>2. /\ ClientTypeOK /\ "load" \in Threads /\ "submit" \in Threads /\ view \in View
      /\ Last \in Nat /\ Last \in 1 .. Last /\ Last \in 0 .. MaxMoments
    BY ViewTypes, ServerMoment, ClientAssumption
    DEF ClientInv, HistoryOK, HistoryFine, Last
<1>3. r \in Thread /\ r.pc = "pair" /\ r.since = Last /\ ~r.old
    BY <1>2, OpenedType DEF Last
<1> HIDE DEF r
<1>4. /\ thread' \in [Threads -> Thread] /\ thread'["load"] = r
      /\ \A u \in Threads : u # "load" => thread'[u] = thread[u]
    BY <1>1, <1>2, <1>3, SetThread
<1>5. owner' \in [status : Threads \cup {"none"}, detail : Threads \cup {"none"}]
      /\ owner'.status = "load" /\ owner'.detail = "load"
    BY <1>1, <1>2
<1>6. ClientTypeOK'
    <2>1. view'.token # 0 => view'.detail.is = "NEEDS_REVIEW"
        BY <1>1, <1>2 DEF ClientTypeOK
    <2>2. unheard' \in BOOLEAN /\ replaced' \in BOOLEAN
        BY <1>1, <1>2 DEF ClientTypeOK
    <2> QED BY <1>1, <1>2, <1>4, <1>5, <2>1, <2>2, TypesKept
<1>7. HistoryOK' BY <1>1 DEF ClientInv, HistoryOK
<1>8. ThreadsOK'
    <2>1. \A u \in Threads \ {"load"} : ThreadOK(u)'
        BY <1>1, <1>4, <1>5, OthersOK DEF ClientInv
    <2>2. ThreadOK("load")'
        BY <1>1, <1>2, <1>3, <1>4 DEF ThreadOK, Asking, Last, ClientInv, PageOK
    <2> QED BY <2>1, <2>2 DEF ThreadsOK
<1>9. Server' = Server /\ Last' = Last /\ thread'["submit"] = thread["submit"]
      /\ thread'["retry"] = thread["retry"]
    BY <1>1, <1>2, <1>4, ViewTypes DEF Server, Last, Threads
<1>10. SubmitOK' BY <1>1, <1>9 DEF ClientInv, SubmitOK, Posting
<1>11. PageOK' BY <1>1, <1>9 DEF ClientInv, PageOK
<1>12. FormFits' BY <1>1, <1>9, FormKept DEF ClientInv
<1>13. NotLost' BY <1>1, <1>5, <1>9 DEF ClientInv, NotLost, Served, Visiting
<1> QED BY <1>6, <1>7, <1>8, <1>10, <1>11, <1>12, <1>13 DEF ClientInv


(* The page is left: nothing that was asked may still be delivered.        *)
LEMMA LeaveStep ==
    ASSUME ClientInv, Leave
    PROVE  ClientInv'
<1>1. /\ moments' = moments /\ replaced' = replaced
      /\ Visiting /\ visit < MaxVisits /\ Fault /\ visit' = -visit
      /\ crossed' = (crossed \/ \E t \in {"submit", "retry"} : thread[t].pc # "idle")
      /\ owner' = [status |-> "none", detail |-> "none"]
      /\ view' = [NewView EXCEPT !.submitting = view.submitting,
                                 !.submitError = view.submitError]
      /\ unheard' = unheard
    BY DEF Leave
<1>2. ClientTypeOK /\ view \in View /\ "submit" \in Threads /\ "retry" \in Threads
    BY ViewTypes DEF ClientInv
<1>3. /\ view' \in View /\ view'.submitting = view.submitting
      /\ view'.status = Nothing /\ view'.detail = Nothing /\ view'.token = 0
    <2>1. view.submitting \in BOOLEAN /\ view.submitError \in BOOLEAN BY <1>2 DEF View
    <2>2. Nothing \in Shown BY ClientAssumption DEF Nothing, Shown
    <2>3. NewView \in View BY <2>2, ClientAssumption DEF NewView, View
    <2> QED BY <1>1, <2>1, <2>2, <2>3 DEF View, NewView
<1> DEFINE r == [NoThread EXCEPT !.pc = thread["poll"].pc, !.old = TRUE,
                                 !.retryPoll = GivesUp("poll", view)]
<1>4. /\ r \in Thread /\ r.pc = thread["poll"].pc /\ r.old /\ ~r.replace
    <2>1. /\ thread["poll"] \in Thread /\ view.override \in BOOLEAN
          /\ view.tries \in 0 .. RetryLimit
        BY <1>2, ThreadTypes DEF Threads, View
    <2>2. GivesUp("poll", view) \in BOOLEAN BY <2>1, ClientAssumption DEF GivesUp, Thread
    <2>3. thread["poll"].pc \in {"idle", "status", "pair", "detail", "post", "posted"}
        BY <2>1 DEF Thread
    <2> HIDE <2>1
    <2> QED BY <2>2, <2>3, NoThreadType DEF Thread, NoThread
<1>5. /\ thread' \in [Threads -> Thread]
      /\ thread'["submit"] = thread["submit"] /\ thread'["retry"] = thread["retry"]
      /\ thread'["poll"] \in {r, NoThread}
      /\ \A t \in Threads \ {"submit", "retry", "poll"} : thread'[t] = NoThread
    <2>1. thread' = [t \in Threads |->
                        CASE t \in {"submit", "retry"} -> thread[t]
                          [] t = "poll" /\ thread[t].pc # "idle" ->
                                 [NoThread EXCEPT !.pc = thread[t].pc, !.old = TRUE,
                                                  !.retryPoll = GivesUp(t, view)]
                          [] OTHER -> NoThread]
        BY DEF Leave
    <2>2. "poll" \in Threads BY DEF Threads
    <2>3. thread'["submit"] = thread["submit"] /\ thread'["retry"] = thread["retry"]
        BY <1>2, <2>1
    <2>4. thread'["poll"] \in {r, NoThread} BY <2>1, <2>2
    <2>5. \A t \in Threads \ {"submit", "retry", "poll"} : thread'[t] = NoThread BY <2>1
    <2>6. \A t \in Threads : thread'[t] \in Thread
        <3>1. thread["submit"] \in Thread /\ thread["retry"] \in Thread /\ NoThread \in Thread
            BY <1>2, ThreadTypes, NoThreadType
        <3> HIDE DEF r
        <3> QED BY <3>1, <2>3, <2>4, <2>5, <1>4
    <2>7. DOMAIN thread' = Threads /\ thread' = [t \in Threads |-> thread'[t]] BY <2>1
    <2> QED BY <2>3, <2>4, <2>5, <2>6, <2>7
<1> HIDE DEF r
<1>6. ClientTypeOK'
    <2>1. mishaps' \in 0 .. MaxMishaps /\ visit' \in -MaxVisits .. MaxVisits
        BY <1>1, <1>2, ClientAssumption DEF ClientTypeOK, Fault, Visiting
    <2>2. owner' \in [status : Threads \cup {"none"}, detail : Threads \cup {"none"}]
        BY <1>1
    <2>3. crossed' \in BOOLEAN /\ unheard' \in BOOLEAN
        BY <1>1, <1>2 DEF ClientTypeOK
    <2> QED BY <1>1, <1>2, <1>3, <1>5, <2>1, <2>2, <2>3 DEF ClientTypeOK
<1>7. HistoryOK' /\ Last' = Last /\ Server' = Server
    BY <1>1 DEF ClientInv, HistoryOK, Last, Server
<1>8. ThreadsOK'
    <2> SUFFICES ASSUME NEW t \in Threads PROVE ThreadOK(t)' BY DEF ThreadsOK
    <2>1. owner'.status = "none" /\ owner'.detail = "none" /\ t # "none"
        BY <1>1 DEF Threads
    <2>2. CASE t \in {"submit", "retry"}
        <3>1. ThreadOK(t) BY DEF ClientInv, ThreadsOK
        <3>2. thread'[t] = thread[t] BY <1>5, <2>2
        <3> QED BY <1>7, <2>1, <3>1, <3>2 DEF ThreadOK
    <2>3. CASE thread'[t] = NoThread
        BY <2>1, <2>3 DEF ThreadOK, NoThread, Asking
    <2>4. CASE t = "poll" /\ thread'[t] = r BY <1>4, <2>1, <2>4 DEF ThreadOK
    <2> QED BY <1>5, <2>2, <2>3, <2>4
<1>9. SubmitOK' BY <1>3, <1>5, <1>7 DEF ClientInv, SubmitOK, Posting
<1>10. PageOK'
    <2>1. Server \in Moment /\ Last \in Nat BY ServerMoment DEF ClientInv, HistoryOK, Server, Last
    <2>2. visit' > -MaxVisits /\ visit' # 0 /\ 0 <= Server.version
        BY <1>1, <1>2, <2>1, ClientAssumption, SMTT(30) DEF ClientTypeOK, Visiting, Moment
    <2> QED BY <1>3, <1>7, <2>1, <2>2 DEF PageOK, Nothing
<1>11. FormFits'
    <2>1. CASE thread["submit"].pc # "idle" BY <1>1, <2>1 DEF FormFits
    <2>2. CASE thread["submit"].pc = "idle"
        BY <1>3, <1>5, <2>2 DEF FormFits, TokenFits, PostFits, AnswerFits
    <2> QED BY <2>1, <2>2
<1>12. NotLost'
    <2>1. NotLost BY DEF ClientInv
    <2>2. ~Visiting' BY <1>1, <1>2, ClientAssumption DEF Visiting, ClientTypeOK
    <2>3. view'.status.is = "none" /\ view'.detail.is # "NEEDS_REVIEW"
        BY <1>3 DEF Nothing
    <2>4. owner'.status = "none" BY <1>1
    <2> QED BY <1>1, <1>3, <1>5, <2>1, <2>2, <2>3, <2>4 DEF NotLost, Visiting
<1> QED BY <1>6, <1>7, <1>8, <1>9, <1>10, <1>11, <1>12 DEF ClientInv

(* The page is opened again, with a reload.                                *)
LEMMA ReturnStep ==
    ASSUME ClientInv, Return
    PROVE  ClientInv'
<1> DEFINE r == Opened(Len(moments))
<1>1. /\ moments' = moments /\ unheard' = unheard
      /\ crossed' = crossed /\ replaced' = replaced /\ mishaps' = mishaps
      /\ thread' = [thread EXCEPT !["load"] = r]
      /\ owner' = [status |-> "load", detail |-> "load"]
      /\ view' = view /\ ~Visiting /\ visit' = 1 - visit
    BY DEF Return
<1>2. /\ ClientTypeOK /\ "load" \in Threads /\ "submit" \in Threads /\ "retry" \in Threads
      /\ view \in View
      /\ Last \in Nat /\ Last \in 1 .. Last /\ Last \in 0 .. MaxMoments
    BY ViewTypes, ServerMoment, ClientAssumption
    DEF ClientInv, HistoryOK, HistoryFine, Last
<1>3. r \in Thread /\ r.pc = "pair" /\ r.since = Last /\ ~r.old
    BY <1>2, OpenedType DEF Last
<1> HIDE DEF r
<1>4. /\ thread' \in [Threads -> Thread] /\ thread'["load"] = r
      /\ \A u \in Threads : u # "load" => thread'[u] = thread[u]
    BY <1>1, <1>2, <1>3, SetThread DEF Set
<1>5. owner' \in [status : Threads \cup {"none"}, detail : Threads \cup {"none"}]
      /\ owner'.status = "load" /\ owner'.detail = "load"
    BY <1>1, <1>2
<1>6. visit' \in -MaxVisits .. MaxVisits /\ visit' > -MaxVisits /\ visit' # 0
    BY <1>1, <1>2, ClientAssumption DEF ClientTypeOK, Visiting, ClientInv, PageOK
<1>7. ClientTypeOK' BY <1>1, <1>2, <1>4, <1>5, <1>6 DEF ClientTypeOK
<1>8. HistoryOK' /\ Server' = Server /\ Last' = Last /\ thread'["submit"] = thread["submit"]
      /\ thread'["retry"] = thread["retry"]
    BY <1>1, <1>2, <1>4, ViewTypes DEF Server, Last, Threads, ClientInv, HistoryOK
<1>9. ThreadsOK'
    <2>1. \A u \in Threads \ {"load"} : ThreadOK(u)'
        BY <1>1, <1>4, <1>5, OthersOK DEF ClientInv
    <2>2. ThreadOK("load")'
        BY <1>1, <1>2, <1>3, <1>4 DEF ThreadOK, Asking, Last, ClientInv, PageOK
    <2> QED BY <2>1, <2>2 DEF ThreadsOK
<1>10. SubmitOK' BY <1>1, <1>8 DEF ClientInv, SubmitOK, Posting
<1>11. PageOK' BY <1>1, <1>6, <1>8 DEF ClientInv, PageOK
<1>12. FormFits' BY <1>1, <1>8, FormKept DEF ClientInv
<1>13. NotLost'
    <2>1. Visiting' BY <1>1, <1>2, ClientAssumption DEF Visiting, ClientTypeOK, ClientInv, PageOK
    <2> QED BY <1>1, <1>5, <1>8, <2>1 DEF ClientInv, NotLost, Served
<1> QED BY <1>7, <1>8, <1>9, <1>10, <1>11, <1>12, <1>13 DEF ClientInv


(* The server answers a retry.                                             *)
LEMMA ServerRetriesStep ==
    ASSUME ClientInv, ServerRetries
    PROVE  ClientInv'
<1>1. /\ visit' = visit /\ crossed' = crossed
      /\ replaced' = replaced /\ owner' = owner /\ view' = view
      /\ unheard' \in BOOLEAN /\ (mishaps' = mishaps \/ Fault)
      /\ thread["retry"].pc = "post"
    BY DEF ServerRetries, ClientInv, ClientTypeOK
<1>2. PICK a \in {"ok", "error"} :
          thread' = [thread EXCEPT !["retry"].pc = "posted", !["retry"].answer = a]
    BY DEF ServerRetries, Retried
<1>3. /\ ClientTypeOK /\ "retry" \in Threads /\ "submit" \in Threads /\ view \in View
      /\ thread["retry"] \in Thread /\ thread \in [Threads -> Thread]
    BY ViewTypes, ThreadTypes DEF ClientInv, ClientTypeOK
<1> DEFINE r == [thread["retry"] EXCEPT !.pc = "posted", !.answer = a]
<1>4. r \in Thread /\ r.pc = "posted" /\ r.old = thread["retry"].old
    BY <1>3 DEF Thread
<1>5. thread' = [thread EXCEPT !["retry"] = r] BY <1>2, <1>3
<1> HIDE DEF r
<1>6. /\ thread' \in [Threads -> Thread] /\ thread'["retry"] = r
      /\ \A u \in Threads : u # "retry" => thread'[u] = thread[u]
    BY <1>3, <1>4, <1>5, SetThread DEF Set
<1>7. Grows
    <2>1. CASE moments' = moments BY <2>1 DEF Grows, ClientInv, HistoryOK, HistoryFine
    <2>2. CASE Room(1) /\ \E s \in Reopened : moments' = Append(moments, Became(s))
        BY <2>2, BecomesGrows DEF Reopened, ServerStatus, ClientInv
    <2> QED BY <2>1, <2>2 DEF ServerRetries
<1>8. ClientTypeOK'
    <2>1. moments' \in Seq(Moment) /\ Len(moments') \in 1 .. MaxMoments
        BY <1>7 DEF Grows, HistoryFine
    <2>2. mishaps' \in 0 .. MaxMishaps BY <1>1, <1>3, ClientAssumption DEF ClientTypeOK, Fault
    <2> QED BY <1>1, <1>3, <1>6, <2>1, <2>2 DEF ClientTypeOK
<1>9. /\ Last \in Nat /\ Last' \in Nat /\ Last <= Last' /\ HistoryOK'
      /\ Server.version \in Nat /\ Server'.version \in Nat
      /\ Server.version <= Server'.version
    BY <1>7, GrowsOn DEF ClientInv
<1>10. ThreadsOK'
    <2> SUFFICES ASSUME NEW t \in Threads PROVE ThreadOK(t)' BY DEF ThreadsOK
    <2>1. ThreadOK(t) /\ thread[t].since \in Nat BY ThreadTypes DEF ClientInv, ThreadsOK
    <2>2. CASE t = "retry" BY <1>1, <1>4, <1>6, <2>1, <2>2 DEF ThreadOK, Asking
    <2>3. CASE t # "retry"
        <3>1. thread'[t] = thread[t] BY <1>6, <2>3
        <3> QED BY <1>1, <1>9, <2>1, <3>1 DEF ThreadOK
    <2> QED BY <2>2, <2>3
<1>11. thread'["submit"] = thread["submit"] BY <1>3, <1>6
<1>12. SubmitOK'
    <2>1. SubmitOK BY DEF ClientInv
    <2>2. thread["submit"].token \in Nat /\ thread["submit"].at \in Nat
        BY ThreadTypes, ViewTypes DEF ClientInv
    <2> QED BY <1>1, <1>9, <1>11, <2>1, <2>2 DEF SubmitOK, Posting
<1>13. PageOK'
    <2>1. view.status.at \in Nat /\ view.detail.at \in Nat /\ view.token \in Nat
        BY ViewTypes DEF ClientInv
    <2> QED BY <1>1, <1>9, <2>1 DEF ClientInv, PageOK
<1>14. FormFits' BY <1>1, <1>7, <1>11, FormGrows DEF ClientInv
<1>15. NotLost'
    <2>1. NotLost BY DEF ClientInv
    <2>2. \A t \in Threads : thread[t].pc = "detail" => thread'[t] = thread[t]
        BY <1>1, <1>6
    <2>3. thread'["poll"] = thread["poll"] /\ thread'["refresh"] = thread["refresh"]
        BY <1>6 DEF Threads
    <2> QED BY <1>1, <1>4, <1>6, <1>11, <2>1, <2>2, <2>3 DEF NotLost, Served, Visiting
<1> QED BY <1>8, <1>9, <1>10, <1>12, <1>13, <1>14, <1>15 DEF ClientInv

(* The answer of a retry starts the polling again.                         *)
LEMMA RetryAnsweredStep ==
    ASSUME ClientInv, RetryAnswered
    PROVE  ClientInv'
<1>1. /\ moments' = moments /\ unheard' = unheard /\ visit' = visit
      /\ crossed' = crossed /\ replaced' = replaced /\ mishaps' = mishaps
      /\ thread["retry"].pc = "posted"
    BY DEF RetryAnswered, Environment
<1>2. /\ ClientTypeOK /\ "retry" \in Threads /\ "submit" \in Threads /\ view \in View
      /\ "refresh" \in Threads /\ "detail" \in Threads
      /\ thread["retry"] \in Thread /\ thread \in [Threads -> Thread]
      /\ Last \in Nat /\ Last \in 1 .. Last /\ Last \in 0 .. MaxMoments
    BY ViewTypes, ThreadTypes, ServerMoment, ClientAssumption
    DEF ClientInv, ClientTypeOK, HistoryOK, HistoryFine, Last, Threads
<1>3. HistoryOK' /\ Server' = Server /\ Last' = Last
    BY <1>1 DEF ClientInv, HistoryOK, Server, Last
<1>4. unheard' \in BOOLEAN /\ replaced' \in BOOLEAN
    BY <1>1, <1>2 DEF ClientTypeOK
<1>5. CASE Visiting /\ thread["retry"].answer = "ok"
    <2> DEFINE v == [view EXCEPT !.override = TRUE, !.tries = 0, !.retryGaveUp = FALSE]
               r == [Refreshing(view) EXCEPT !.retryPoll = TRUE, !.saw = thread["retry"].saw]
               d == [NoThread EXCEPT !.pc = "detail", !.since = Len(moments)]
    <2>1. /\ view' = Tried(v)
          /\ thread' = [thread EXCEPT !["retry"] = NoThread, !["refresh"] = r, !["detail"] = d]
          /\ owner' = [status |-> "refresh", detail |-> "detail"]
        BY <1>5 DEF RetryAnswered
    <2>2. Alike(view, view') /\ view'.submitting = view.submitting
        <3>0. 0 \in 0 .. RetryLimit BY ClientAssumption
        <3>1. v \in View /\ Alike(view, v) /\ v.submitting = view.submitting
            <4>1. v \in View BY <1>2, <3>0 DEF View
            <4> QED BY <1>2, <4>1 DEF View, Alike
        <3> HIDE DEF v
        <3>2. Alike(v, Tried(v)) /\ Tried(v).submitting = v.submitting
            BY <3>1, ClientAssumption DEF Tried, View, Alike
        <3> QED BY <3>1, <3>2, <2>1 DEF Alike
    <2>3. r \in Thread /\ r.pc = "status" /\ r.since = Last /\ ~r.old
        BY <1>2, RefreshingType DEF Thread
    <2>4. d \in Thread /\ d.pc = "detail" /\ d.since = Last /\ ~d.old /\ ~d.replace
        BY <1>2, NoThreadType DEF Thread, NoThread, Last
    <2>5. NoThread \in Thread /\ NoThread.pc = "idle" /\ ~NoThread.old BY NoThreadType
    <2> HIDE DEF v, r, d
    <2>6. /\ thread' \in [Threads -> Thread] /\ thread'["retry"] = NoThread
          /\ thread'["refresh"] = r /\ thread'["detail"] = d
          /\ \A u \in Threads \ {"retry", "refresh", "detail"} : thread'[u] = thread[u]
        BY <1>2, <2>1, <2>3, <2>4, <2>5
    <2>7. owner' \in [status : Threads \cup {"none"}, detail : Threads \cup {"none"}]
          /\ owner'.status = "refresh" /\ owner'.detail = "detail"
        BY <2>1, <1>2
    <2>8. ClientTypeOK'
        <3>1. view'.token # 0 => view'.detail.is = "NEEDS_REVIEW"
            BY <2>2, <1>2 DEF ClientTypeOK, Alike
        <3>2. view' \in View BY <2>2 DEF Alike
        <3> QED BY <1>1, <1>2, <1>4, <2>6, <2>7, <3>1, <3>2, TypesKept
    <2>9. ThreadsOK'
        <3>1. \A u \in Threads \ {"retry", "refresh", "detail"} : ThreadOK(u)'
            BY <1>1, <2>6, <2>7, OthersOK DEF ClientInv
        <3>2. view'.status.at <= Last /\ view'.detail.at <= Last
            BY <2>2 DEF ClientInv, PageOK, Alike
        <3>3. ThreadOK("retry")' BY <2>5, <2>6 DEF ThreadOK, Asking
        <3>4. ThreadOK("refresh")' BY <1>2, <1>3, <2>3, <2>6, <3>2 DEF ThreadOK
        <3>5. ThreadOK("detail")' BY <1>2, <1>3, <2>4, <2>6, <3>2 DEF ThreadOK
        <3> QED BY <3>1, <3>3, <3>4, <3>5 DEF ThreadsOK
    <2>10. thread'["submit"] = thread["submit"] /\ thread'["poll"] = thread["poll"]
        BY <2>6 DEF Threads
    <2>11. SubmitOK' BY <1>1, <1>3, <2>2, <2>10 DEF ClientInv, SubmitOK, Posting
    <2>12. PageOK' BY <1>1, <1>3, <2>2 DEF ClientInv, PageOK, Alike
    <2>13. FormFits' BY <1>1, <2>2, <2>10, FormKept DEF ClientInv, Alike
    <2>14. NotLost'
        <3>1. NotLost BY DEF ClientInv
        <3>2. Served' = Served BY <2>2 DEF Served, Alike
        <3>3. ~crossed => Served BY <1>1, <3>1 DEF NotLost
        <3> QED BY <1>1, <1>5, <2>2, <2>5, <2>6, <2>10, <3>1, <3>2, <3>3
            DEF NotLost, Alike, Visiting
    <2> QED BY <1>3, <2>8, <2>9, <2>11, <2>12, <2>13, <2>14 DEF ClientInv
<1>6. CASE ~(Visiting /\ thread["retry"].answer = "ok")
    <2>1. Set("retry", NoThread) /\ view' = view /\ owner' = owner
        BY <1>6 DEF RetryAnswered, End
    <2>2. /\ thread' \in [Threads -> Thread] /\ thread'["retry"] = NoThread
          /\ \A u \in Threads : u # "retry" => thread'[u] = thread[u]
        BY <1>2, <2>1, NoThreadType, SetThread
    <2>3. ClientTypeOK'
        <3>1. view'.token # 0 => view'.detail.is = "NEEDS_REVIEW"
            BY <2>1, <1>2 DEF ClientTypeOK
        <3> QED BY <1>1, <1>2, <1>4, <2>1, <2>2, <3>1, TypesKept
    <2>4. ThreadsOK'
        <3>1. \A u \in Threads \ {"retry"} : ThreadOK(u)'
            BY <1>1, <2>1, <2>2, OthersOK DEF ClientInv
        <3>2. ThreadOK("retry")' BY <2>2, NoThreadType DEF ThreadOK, Asking
        <3> QED BY <3>1, <3>2 DEF ThreadsOK
    <2>5. thread'["submit"] = thread["submit"] /\ thread'["poll"] = thread["poll"]
          /\ thread'["refresh"] = thread["refresh"]
        BY <2>2 DEF Threads
    <2>6. SubmitOK' BY <1>1, <1>3, <2>1, <2>5 DEF ClientInv, SubmitOK, Posting
    <2>7. PageOK' BY <1>1, <1>3, <2>1 DEF ClientInv, PageOK
    <2>8. FormFits' BY <1>1, <2>1, <2>5, FormKept DEF ClientInv
    <2>9. NotLost'
        <3>1. NotLost BY DEF ClientInv
        <3>2. \A t \in Threads : thread[t].pc = "detail" => thread'[t] = thread[t]
            BY <1>1, <2>2
        <3> QED BY <1>1, <2>1, <2>2, <2>5, <3>1, <3>2, NoThreadType
            DEF NotLost, Served, Visiting
    <2> QED BY <1>3, <2>3, <2>4, <2>6, <2>7, <2>8, <2>9 DEF ClientInv
<1> QED BY <1>5, <1>6

(* A request for the status fails.                                         *)
LEMMA StatusFailsStep ==
    ASSUME ClientInv, NEW t \in Pollers, StatusFails(t)
    PROVE  ClientInv'
<1> DEFINE v == [view EXCEPT !.loadError = TRUE]
<1>1. /\ moments' = moments /\ unheard' = unheard /\ visit' = visit
      /\ crossed' = crossed /\ replaced' = replaced /\ Fault /\ owner' = owner
      /\ thread[t].pc = "status" /\ view' = GiveUp(t, v) /\ Set(t, NoThread)
    BY DEF StatusFails, Environment, End
<1>2. /\ ClientTypeOK /\ t \in Threads /\ t \in {"poll", "refresh"}
      /\ "submit" \in Threads /\ view \in View
    BY ViewTypes DEF ClientInv, Pollers, Threads
<1>3. /\ v \in View /\ v.loadError /\ v.submitting = view.submitting
      /\ v.status = view.status /\ v.detail = view.detail /\ v.token = view.token
      /\ v.draft = view.draft /\ v.original = view.original
      /\ v.submitError = view.submitError
    BY <1>2 DEF View
<1> HIDE DEF v
<1>4. /\ view' \in View /\ view'.loadError /\ view'.submitting = view.submitting
      /\ view'.status = view.status /\ view'.detail = view.detail
      /\ view'.token = view.token /\ view'.submitError = view.submitError
      /\ view'.draft = view.draft /\ view'.original = view.original
    <2>1. /\ Alike(v, GiveUp(t, v)) /\ GiveUp(t, v).submitting = (v.submitting /\ t # "submit")
        BY <1>2, <1>3, FinallyAlike
    <2>2. v.submitting \in BOOLEAN /\ t # "submit" BY <1>2, <1>3 DEF View
    <2> QED BY <1>1, <1>3, <2>1, <2>2 DEF Alike
<1>5. /\ thread' \in [Threads -> Thread] /\ thread'[t] = NoThread
      /\ \A u \in Threads : u # t => thread'[u] = thread[u]
    BY <1>1, <1>2, NoThreadType, SetThread
<1>6. ClientTypeOK'
    <2>1. view'.token # 0 => view'.detail.is = "NEEDS_REVIEW"
        BY <1>4, <1>2 DEF ClientTypeOK
    <2>2. unheard' \in BOOLEAN /\ replaced' \in BOOLEAN
        BY <1>1, <1>2 DEF ClientTypeOK
    <2> QED BY <1>1, <1>2, <1>4, <1>5, <2>1, <2>2, TypesKept
<1>7. HistoryOK' /\ Server' = Server /\ Last' = Last
    BY <1>1 DEF ClientInv, HistoryOK, Server, Last
<1>8. ThreadsOK'
    <2>1. \A u \in Threads \ {t} : ThreadOK(u)'
        BY <1>1, <1>4, <1>5, OthersOK DEF ClientInv
    <2>2. ThreadOK(t)' BY <1>5, NoThreadType DEF ThreadOK, Asking
    <2> QED BY <2>1, <2>2 DEF ThreadsOK
<1>9. thread'["submit"] = thread["submit"] /\ thread'["retry"] = thread["retry"]
    BY <1>2, <1>5 DEF Threads
<1>10. SubmitOK' BY <1>4, <1>7, <1>9 DEF ClientInv, SubmitOK, Posting
<1>11. PageOK' BY <1>1, <1>4, <1>7 DEF ClientInv, PageOK
<1>12. FormFits' BY <1>1, <1>4, <1>9, FormKept DEF ClientInv
<1>13. NotLost'
    <2>1. NotLost BY DEF ClientInv
    <2>2. \A u \in {"poll", "refresh"} : u # t => thread'[u] = thread[u]
        BY <1>5 DEF Threads
    <2>3. thread'[t].pc = "idle" BY <1>5, NoThreadType
    <2> QED BY <1>1, <1>4, <1>9, <2>1, <2>2, <2>3 DEF NotLost, Served, Visiting
<1> QED BY <1>6, <1>7, <1>8, <1>10, <1>11, <1>12, <1>13 DEF ClientInv

(* A request for the detail fails.                                         *)
LEMMA DetailFailsStep ==
    ASSUME ClientInv, NEW t \in Loaders, DetailFails(t)
    PROVE  ClientInv'
<1> DEFINE v == [view EXCEPT !.loadError = TRUE]
<1>1. /\ moments' = moments /\ unheard' = unheard /\ visit' = visit
      /\ crossed' = crossed /\ replaced' = replaced /\ Fault /\ owner' = owner
      /\ thread[t].pc = "detail" /\ view' = Finally(t, v) /\ Set(t, NoThread) /\ Visiting
    BY DEF DetailFails, Environment, End, Current
<1>2. /\ ClientTypeOK /\ t \in Threads /\ t # "retry"
      /\ "submit" \in Threads /\ view \in View
    BY ViewTypes DEF ClientInv, Loaders, Threads
<1>3. /\ v \in View /\ v.loadError /\ v.submitting = view.submitting
      /\ v.status = view.status /\ v.detail = view.detail /\ v.token = view.token
      /\ v.draft = view.draft /\ v.original = view.original
      /\ v.submitError = view.submitError /\ v.submitting \in BOOLEAN
    BY <1>2 DEF View
<1> HIDE DEF v
<1>4. /\ view' \in View /\ view'.loadError
      /\ view'.submitting = (view.submitting /\ t # "submit")
      /\ view'.status = view.status /\ view'.detail = view.detail
      /\ view'.token = view.token /\ view'.submitError = view.submitError
      /\ view'.draft = view.draft /\ view'.original = view.original
    BY <1>1, <1>2, <1>3, FinallyAlike DEF Alike
<1>5. /\ thread' \in [Threads -> Thread] /\ thread'[t] = NoThread
      /\ \A u \in Threads : u # t => thread'[u] = thread[u]
    BY <1>1, <1>2, NoThreadType, SetThread
<1>6. ClientTypeOK'
    <2>1. view'.token # 0 => view'.detail.is = "NEEDS_REVIEW"
        BY <1>4, <1>2 DEF ClientTypeOK
    <2>2. unheard' \in BOOLEAN /\ replaced' \in BOOLEAN
        BY <1>1, <1>2 DEF ClientTypeOK
    <2> QED BY <1>1, <1>2, <1>4, <1>5, <2>1, <2>2, TypesKept
<1>7. HistoryOK' /\ Server' = Server /\ Last' = Last
    BY <1>1 DEF ClientInv, HistoryOK, Server, Last
<1>8. ThreadsOK'
    <2>1. \A u \in Threads \ {t} : ThreadOK(u)'
        BY <1>1, <1>4, <1>5, OthersOK DEF ClientInv
    <2>2. ThreadOK(t)' BY <1>5, NoThreadType DEF ThreadOK, Asking
    <2> QED BY <2>1, <2>2 DEF ThreadsOK
<1>9. /\ thread'["retry"] = thread["retry"]
      /\ t = "submit" => thread'["submit"].pc = "idle"
      /\ t # "submit" => thread'["submit"] = thread["submit"]
    BY <1>2, <1>5, NoThreadType DEF Threads
<1>10. SubmitOK'
    <2>1. CASE t = "submit" BY <1>9, <2>1 DEF SubmitOK, Posting
    <2>2. CASE t # "submit"
        BY <1>3, <1>4, <1>7, <1>9, <2>2 DEF ClientInv, SubmitOK, Posting
    <2> QED BY <2>1, <2>2
<1>11. PageOK' BY <1>1, <1>4, <1>7 DEF ClientInv, PageOK
<1>12. FormFits' BY <1>1, <1>4, <1>9, FormKept DEF ClientInv
<1>13. NotLost'
    <2>1. NotLost BY DEF ClientInv
    <2>2. \A u \in {"poll", "refresh"} : u # t => thread'[u] = thread[u]
        BY <1>5 DEF Threads
    <2>3. thread'[t].pc = "idle" BY <1>5, NoThreadType
    <2>4. Served' = Served /\ Visiting' = Visiting /\ crossed' = crossed
        BY <1>1, <1>4 DEF Served, Visiting
    <2>5. view'.detail.is = "NEEDS_REVIEW" /\ view'.token = 0 => view'.submitError
        BY <1>4, <2>1 DEF NotLost
    <2>6. view'.submitting => thread'["submit"].pc # "idle" \/ crossed
        BY <1>4, <1>9, <2>1 DEF NotLost
    <2>7. ~Visiting /\ ~crossed
              => thread'["submit"].pc = "idle" /\ thread'["retry"].pc = "idle"
                 /\ view'.status.is = "none"
        <3>1. ~Visiting /\ ~crossed
                  => thread["submit"].pc = "idle" /\ thread["retry"].pc = "idle"
                     /\ view.status.is = "none"
            BY <2>1 DEF NotLost
        <3>2. thread["submit"].pc = "idle" => thread'["submit"].pc = "idle" BY <1>9
        <3> QED BY <1>4, <1>9, <3>1, <3>2
    <2>8. thread'["retry"].pc # "idle" => Served \/ crossed
        BY <1>9, <2>1 DEF NotLost
    <2>9. \A u \in {"poll", "refresh"} :
              thread'[u].pc = "status" /\ owner'.status = u /\ thread'[u].saw.detail # "none"
              => Served \/ crossed
        BY <1>1, <2>1, <2>2, <2>3 DEF NotLost
    <2> HIDE DEF Served, Visiting
    <2> QED BY <1>4, <2>4, <2>5, <2>6, <2>7, <2>8, <2>9 DEF NotLost
<1> QED BY <1>6, <1>7, <1>8, <1>10, <1>11, <1>12, <1>13 DEF ClientInv


(* The server decides on a submission: it accepts it, its answer arriving  *)
(* or not, with or without a rollback; or it leaves the row alone.         *)
LEMMA ServerReviewsStep ==
    ASSUME ClientInv, ServerReviews
    PROVE  ClientInv'
<1> DEFINE s == thread["submit"]
           c(st) == Corrected(st, s.draft)
<1>1. /\ view' = view /\ owner' = owner /\ visit' = visit
      /\ crossed' = crossed /\ replaced' = replaced /\ s.pc = "post"
      /\ unheard' \in BOOLEAN /\ (mishaps' = mishaps \/ Fault)
    BY DEF ServerReviews, ClientInv, ClientTypeOK
<1>2. /\ ClientTypeOK /\ "submit" \in Threads /\ view \in View
      /\ s \in Thread /\ thread \in [Threads -> Thread]
      /\ Last \in Nat /\ Last \in 1 .. Last /\ Last \in 1 .. MaxMoments
      /\ MaxMoments \in Nat
      /\ HistoryFine(moments) /\ Server \in Moment /\ Server.version <= Last
      /\ Server.version \in Nat
    <2>1. ClientTypeOK /\ HistoryFine(moments) /\ MaxMoments \in Nat
        BY ClientAssumption DEF ClientInv, HistoryOK
    <2>2. /\ "submit" \in Threads /\ view \in View /\ s \in Thread
          /\ thread \in [Threads -> Thread]
        BY <2>1, ViewTypes, ThreadTypes DEF ClientTypeOK
    <2>3. /\ Last \in Nat /\ Last \in 1 .. Last
          /\ Server \in Moment /\ Server.version <= Last
        BY <2>1, ServerMoment DEF Last, Server
    <2>4. Last \in 1 .. MaxMoments BY <2>1 DEF HistoryFine, Last
    <2>5. Server.version \in Nat BY <2>3 DEF Moment
    <2> QED BY <2>1, <2>2, <2>3, <2>4, <2>5
<1>3. s.draft # 0 /\ s.draft \in 0 .. MaxData /\ s.token <= Server.version
    BY <1>1, <1>2 DEF ClientInv, SubmitOK, Posting, Thread
<1>4. ASSUME NEW st \in Routes, Last < MaxMoments
      PROVE  /\ c(st) \in Moment /\ c(st).version = Server.version + 1
             /\ c(st).data = s.draft /\ c(st).status = st
             /\ HistoryFine(Append(moments, c(st)))
             /\ Len(Append(moments, c(st))) = Last + 1
             /\ Append(moments, c(st))[Last + 1] = c(st)
             /\ \A k \in 1 .. Last : Append(moments, c(st))[k] = moments[k]
    <2> DEFINE m == c(st)
    <2>1. m \in Moment /\ m.version = Server.version + 1 /\ m.data = s.draft /\ m.status = st
        BY <1>2, <1>3, <1>4 DEF Corrected, Moment, ServerStatus, Routes
    <2> HIDE DEF m
    <2>2. /\ Server.version <= m.version /\ m.version <= Last + 1 /\ m.data # 0
          /\ m.version # Server.version
        BY <1>2, <1>3, <2>1
    <2>3. /\ HistoryFine(Append(moments, m)) /\ Len(Append(moments, m)) = Last + 1
          /\ Append(moments, m)[Last + 1] = m
          /\ \A k \in 1 .. Last : Append(moments, m)[k] = moments[k]
        BY <1>2, <1>4, <2>1, <2>2, HistoryAppend DEF Last, Server
    <2> QED BY <2>1, <2>3 DEF m
<1>5. ASSUME NEW a \in {"ok", "conflict", "error"}, NEW n \in 0 .. MaxMoments, Post(a, n)
      PROVE  /\ thread' \in [Threads -> Thread]
             /\ thread'["submit"].pc = "posted" /\ thread'["submit"].answer = a
             /\ thread'["submit"].at = n
             /\ thread'["submit"].old = s.old
             /\ thread'["submit"].token = s.token /\ thread'["submit"].draft = s.draft
             /\ \A u \in Threads : u # "submit" => thread'[u] = thread[u]
    <2> DEFINE r == [s EXCEPT !.pc = "posted", !.answer = a, !.at = n]
    <2>1. /\ r \in Thread /\ r.pc = "posted" /\ r.answer = a /\ r.at = n /\ r.old = s.old
          /\ r.token = s.token /\ r.draft = s.draft
        BY <1>2 DEF Thread
    <2>2. thread' = [thread EXCEPT !["submit"] = r] BY <1>2, <1>5 DEF Post
    <2> HIDE DEF r
    <2>3. /\ thread' \in [Threads -> Thread] /\ thread'["submit"] = r
          /\ \A u \in Threads : u # "submit" => thread'[u] = thread[u]
        BY <1>2, <2>1, <2>2, SetThread DEF Set
    <2> QED BY <2>1, <2>3
<1>6. ASSUME Grows, NEW a \in {"ok", "conflict", "error"},
             NEW n \in 0 .. MaxMoments, Post(a, n),
             a = "ok" => /\ n = Last + 1 /\ Last' = n /\ s.token = Server.version
                         /\ moments'[n].data = s.draft
                         /\ moments'[n].version = Server.version + 1,
             moments' = moments \/ Server'.version > Server.version
      PROVE  ClientInv'
    <2>1. /\ thread' \in [Threads -> Thread]
          /\ thread'["submit"].pc = "posted" /\ thread'["submit"].answer = a
          /\ thread'["submit"].at = n
          /\ thread'["submit"].old = s.old
          /\ thread'["submit"].token = s.token /\ thread'["submit"].draft = s.draft
          /\ \A u \in Threads : u # "submit" => thread'[u] = thread[u]
        BY <1>5, <1>6
    <2>2. /\ Last' \in Nat /\ Last <= Last' /\ HistoryOK'
          /\ Server'.version \in Nat /\ Server.version <= Server'.version
          /\ \A k \in 1 .. Last : moments'[k] = moments[k]
        BY <1>6, GrowsOn DEF ClientInv
    <2>3. ClientTypeOK'
        <3>1. moments' \in Seq(Moment) /\ Len(moments') \in 1 .. MaxMoments
            BY <1>6 DEF Grows, HistoryFine
        <3>2. mishaps' \in 0 .. MaxMishaps
            BY <1>1, <1>2, ClientAssumption DEF ClientTypeOK, Fault
        <3> QED BY <1>1, <1>2, <2>1, <3>1, <3>2 DEF ClientTypeOK
    <2>4. ThreadsOK'
        <3> SUFFICES ASSUME NEW t \in Threads PROVE ThreadOK(t)' BY DEF ThreadsOK
        <3>1. ThreadOK(t) BY DEF ClientInv, ThreadsOK
        <3>2. CASE t = "submit"
            BY <1>1, <2>1, <3>1, <3>2 DEF ThreadOK, Asking
        <3>3. CASE t # "submit"
            <4>1. thread'[t] = thread[t] /\ thread[t].since \in Nat
                BY <2>1, <3>3, ThreadTypes, <1>2
            <4> QED BY <1>1, <1>2, <2>2, <3>1, <4>1 DEF ThreadOK
        <3> QED BY <3>2, <3>3
    <2>5. SubmitOK'
        <3>1. s.pc # "idle" => view.submitting BY DEF ClientInv, SubmitOK
        <3>2. s.token # 0 BY <1>1 DEF ClientInv, SubmitOK, Posting
        <3>3. s.token <= Server'.version
            BY <1>2, <1>3, <2>2 DEF Thread
        <3>4. a = "ok" => n \in 2 .. Last' BY <1>2, <1>6, <2>2
        <3> QED BY <1>1, <1>3, <2>1, <3>1, <3>2, <3>3, <3>4 DEF SubmitOK, Posting
    <2>6. PageOK'
        <3>1. view.status.at \in Nat /\ view.detail.at \in Nat /\ view.token \in Nat
            BY ViewTypes, <1>2
        <3> QED BY <1>1, <1>2, <2>2, <3>1 DEF ClientInv, PageOK
    <2>7. FormFits'
        <3>1. CASE crossed \/ replaced BY <1>1, <3>1 DEF FormFits
        <3>2. CASE TokenFits /\ PostFits
            <4>1. PostFits' BY <2>1 DEF PostFits
            <4>2. TokenFits'
                <5>1. CASE moments' = moments
                    BY <1>1, <3>2, <5>1 DEF TokenFits, Shows, Last, Server
                <5>2. CASE Server'.version > Server.version
                    <6>1. view.token \in Nat /\ view.token <= Server.version
                        BY <1>2, ViewTypes DEF ClientInv, PageOK
                    <6>2. view'.token # Server'.version BY <1>1, <1>2, <2>2, <5>2, <6>1
                    <6> QED BY <6>2 DEF TokenFits
                <5> QED BY <1>6, <5>1, <5>2
            <4>3. AnswerFits'
                <5>1. CASE a # "ok" BY <2>1, <5>1 DEF AnswerFits
                <5>2. CASE a = "ok"
                    <6>1. /\ n = Last + 1 /\ moments'[n].data = s.draft /\ n - 1 = Last
                        BY <1>2, <1>6, <5>2
                    <6>2. /\ Shows(view.detail.at, Server.version, view.original)
                          /\ view.draft = s.draft
                        BY <1>1, <1>6, <3>2, <5>2 DEF PostFits
                    <6>3. moments'[n - 1].version = Server.version
                        BY <1>2, <2>2, <6>1 DEF Server, Last
                    <6>4. Shows(view.detail.at, moments[n - 1].version, view.original)'
                        <7>1. view.detail.at \in 1 .. Last
                              /\ moments[view.detail.at].version = Server.version
                              /\ moments[view.detail.at].data = view.original
                              /\ view.original # 0
                            BY <6>2 DEF Shows
                        <7>2. view.detail.at \in 1 .. Last'
                            BY <7>1, <1>2, <2>2
                        <7>3. moments'[view.detail.at] = moments[view.detail.at]
                            BY <7>1, <2>2
                        <7>4. n' = n OBVIOUS
                        <7> QED BY <1>1, <6>3, <7>1, <7>2, <7>3 DEF Shows
                    <6> QED BY <1>1, <2>1, <6>1, <6>2, <6>4 DEF AnswerFits
                <5> QED BY <5>1, <5>2
            <4> QED BY <4>1, <4>2, <4>3 DEF FormFits
        <3> QED BY <3>1, <3>2 DEF ClientInv, FormFits
    <2>8. NotLost'
        <3>1. NotLost BY DEF ClientInv
        <3>2. \A t \in Threads : thread[t].pc = "detail" => thread'[t] = thread[t]
            BY <1>1, <2>1
        <3>3. thread'["poll"] = thread["poll"] /\ thread'["refresh"] = thread["refresh"]
              /\ thread'["retry"] = thread["retry"]
            BY <2>1 DEF Threads
        <3> QED BY <1>1, <2>1, <3>1, <3>2, <3>3 DEF NotLost, Served, Visiting
    <2> QED BY <2>2, <2>3, <2>4, <2>5, <2>6, <2>7, <2>8 DEF ClientInv
<1>7. CASE UNCHANGED moments /\ (\E a \in {"conflict", "error"} : Post(a, 0))
    <2>1. Grows BY <1>2, <1>7 DEF Grows
    <2>2. PICK a \in {"conflict", "error"} : Post(a, 0) BY <1>7
    <2>3. a \in {"ok", "conflict", "error"} /\ a # "ok" /\ 0 \in 0 .. MaxMoments
          /\ moments' = moments
        BY <1>2, <1>7
    <2> QED BY <1>6, <2>1, <2>2, <2>3
<1>8. ASSUME NEW st \in Routes, Accepts, Room(1), moments' = Append(moments, c(st)),
             Post("ok", Len(moments')) \/ Post("error", 0)
      PROVE  ClientInv'
    <2>1. Last < MaxMoments BY <1>2, <1>8 DEF Room, Last
    <2>2. /\ c(st).version = Server.version + 1 /\ c(st).data = s.draft
          /\ HistoryFine(moments') /\ Len(moments') = Last + 1
          /\ moments'[Last + 1] = c(st)
          /\ \A k \in 1 .. Last : moments'[k] = moments[k]
        BY <1>4, <1>8, <2>1
    <2> HIDE DEF c
    <2>3. Grows BY <1>2, <2>2 DEF Grows, Last
    <2>4. Last' = Last + 1 /\ Server'.version = Server.version + 1
        BY <2>2 DEF Server, Last
    <2>5. Server'.version > Server.version BY <1>2, <2>4
    <2>6. s.token = Server.version BY <1>8 DEF Accepts
    <2>7. CASE Post("error", 0)
        <3>1. "error" \in {"ok", "conflict", "error"} /\ 0 \in 0 .. MaxMoments BY <1>2
        <3> QED BY <1>6, <2>3, <2>5, <2>7, <3>1
    <2>8. CASE Post("ok", Len(moments'))
        <3> DEFINE n == Last + 1
        <3>1. n \in 0 .. MaxMoments /\ n = Len(moments') BY <1>2, <2>1, <2>2
        <3>2. Post("ok", n) BY <2>8, <3>1
        <3>3. /\ n = Last + 1 /\ Last' = n /\ moments'[n].data = s.draft
              /\ moments'[n].version = Server.version + 1
            BY <2>2, <2>4
        <3>4. "ok" \in {"ok", "conflict", "error"} OBVIOUS
        <3> HIDE DEF n
        <3> QED BY <1>6, <2>3, <2>5, <2>6, <3>1, <3>2, <3>3, <3>4
    <2> QED BY <1>8, <2>7, <2>8
<1>9. ASSUME Accepts, Room(2), Post("error", 0),
             moments' = moments \o <<c("GENERATING"),
                                     [c("GENERATING") EXCEPT !.status = "NEEDS_REVIEW"]>>
      PROVE  ClientInv'
    <2> DEFINE m == c("GENERATING")
               n == [m EXCEPT !.status = "NEEDS_REVIEW"]
               h == Append(moments, m)
    <2>1. Last < MaxMoments /\ Last + 1 < MaxMoments /\ "GENERATING" \in Routes
        BY <1>2, <1>9 DEF Room, Last, Routes
    <2>2. /\ m \in Moment /\ m.version = Server.version + 1 /\ m.data = s.draft
          /\ HistoryFine(h) /\ Len(h) = Last + 1 /\ h[Last + 1] = m
          /\ \A k \in 1 .. Last : h[k] = moments[k]
        BY <1>4, <2>1
    <2>3. /\ n \in Moment /\ n.version = m.version /\ n.data = m.data
        BY <2>2 DEF Moment, ServerStatus
    <2>4. moments' = Append(h, n)
        <3>1. moments \in Seq(Moment) BY <1>2 DEF HistoryFine
        <3> HIDE DEF c, m, n
        <3>2. moments' = moments \o <<m, n>> BY <1>9 DEF m, n
        <3> QED BY <2>2, <2>3, <3>1, <3>2
    <2> HIDE DEF c, m, n, h
    <2>5. /\ h[Len(h)] = m /\ m.version \in Nat /\ Len(h) < MaxMoments
          /\ m.version <= n.version /\ n.version <= Len(h) + 1 /\ n.data # 0
        BY <1>2, <1>3, <2>1, <2>2, <2>3
    <2>6. /\ HistoryFine(moments') /\ Len(moments') = Len(h) + 1
          /\ moments'[Len(h) + 1] = n /\ \A k \in 1 .. Len(h) : moments'[k] = h[k]
        BY <2>2, <2>3, <2>4, <2>5, HistoryAppend
    <2>7. Grows
        <3>1. \A k \in 1 .. Last : moments'[k] = moments[k] BY <1>2, <2>2, <2>6
        <3> QED BY <1>2, <2>2, <2>6, <3>1 DEF Grows, Last
    <2>8. Server'.version = Server.version + 1 BY <2>2, <2>3, <2>6 DEF Server, Last
    <2>9. Server'.version > Server.version BY <1>2, <2>8
    <2>10. "error" \in {"ok", "conflict", "error"} /\ 0 \in 0 .. MaxMoments BY <1>2
    <2> QED BY <1>6, <1>9, <2>7, <2>9, <2>10
<1> HIDE DEF c
<1>10. \/ \E st \in Routes :
             /\ Accepts /\ Room(1) /\ moments' = Append(moments, c(st))
             /\ Post("ok", Len(moments')) \/ Post("error", 0)
       \/ /\ Accepts /\ Room(2) /\ Post("error", 0)
          /\ moments' = moments \o <<c("GENERATING"),
                                     [c("GENERATING") EXCEPT !.status = "NEEDS_REVIEW"]>>
       \/ UNCHANGED moments /\ (\E a \in {"conflict", "error"} : Post(a, 0))
    BY DEF ServerReviews, c
<1> QED BY <1>7, <1>8, <1>9, <1>10


(* The answer to a submission is shown at once, and the detail asked for.  *)
LEMMA SubmitAnsweredStep ==
    ASSUME ClientInv, SubmitAnswered
    PROVE  ClientInv'
<1> DEFINE s == thread["submit"]
           n == s.at
           r == Loading("submit", TRUE)
<1>1. /\ moments' = moments /\ unheard' = unheard /\ visit' = visit
      /\ crossed' = crossed /\ replaced' = replaced /\ mishaps' = mishaps
      /\ s.pc = "posted"
    BY DEF SubmitAnswered, Environment
<1>2. /\ ClientTypeOK /\ "submit" \in Threads /\ "retry" \in Threads /\ view \in View
      /\ "poll" \in Threads /\ "refresh" \in Threads
      /\ s \in Thread /\ thread \in [Threads -> Thread] /\ NotLost /\ view.submitting
      /\ ThreadOK("submit") /\ PageOK
    <2>1. ClientTypeOK /\ NotLost /\ PageOK BY DEF ClientInv
    <2>2. "submit" \in Threads BY DEF Threads
    <2>3. view.submitting /\ ThreadOK("submit")
        BY <1>1, <2>2 DEF ClientInv, SubmitOK, ThreadsOK
    <2> QED BY <2>1, <2>2, <2>3, ViewTypes, ThreadTypes DEF ClientTypeOK, Threads
<1>3. /\ Last \in Nat /\ Last \in 1 .. Last /\ HistoryFine(moments) /\ Last \in 0 .. MaxMoments
      /\ \A k \in 1 .. Last : moments[k] \in Moment
    BY ServerMoment, ClientAssumption DEF ClientInv, HistoryOK, HistoryFine, Last
<1>4. HistoryOK' /\ Server' = Server /\ Last' = Last
    BY <1>1 DEF ClientInv, HistoryOK, Server, Last
<1>5. unheard' \in BOOLEAN /\ replaced' \in BOOLEAN
    BY <1>1, <1>2 DEF ClientTypeOK
<1>6. r \in Thread /\ r.pc = "detail" /\ r.since = Last /\ r.replace /\ r.old = s.old
      /\ ~s.old
    <2>1. ~s.old BY <1>2 DEF ThreadOK
    <2> QED BY <1>2, <2>1, LoadingType
<1>7. ASSUME NEW q \in Thread, Set("submit", q)
      PROVE  /\ thread' \in [Threads -> Thread] /\ thread'["submit"] = q
             /\ \A u \in Threads : u # "submit" => thread'[u] = thread[u]
             /\ thread'["poll"] = thread["poll"] /\ thread'["refresh"] = thread["refresh"]
             /\ thread'["retry"] = thread["retry"]
    <2>1. /\ thread' \in [Threads -> Thread] /\ thread'["submit"] = q
          /\ \A u \in Threads : u # "submit" => thread'[u] = thread[u]
        BY <1>2, <1>7, SetThread
    <2> QED BY <1>2, <2>1
<1>8. ASSUME view' = view, owner' = owner, End("submit"), ~Visiting
      PROVE  ClientInv'
    <2>1. /\ thread' \in [Threads -> Thread] /\ thread'["submit"] = NoThread
          /\ \A u \in Threads : u # "submit" => thread'[u] = thread[u]
        BY <1>7, <1>8, NoThreadType DEF End
    <2>2. ClientTypeOK'
        <3>1. view'.token # 0 => view'.detail.is = "NEEDS_REVIEW"
            BY <1>8, <1>2 DEF ClientTypeOK
        <3> QED BY <1>1, <1>2, <1>5, <1>8, <2>1, <3>1, TypesKept
    <2>3. ThreadsOK'
        <3>1. \A u \in Threads \ {"submit"} : ThreadOK(u)'
            BY <1>1, <1>8, <2>1, OthersOK DEF ClientInv
        <3>2. ThreadOK("submit")' BY <2>1, NoThreadType DEF ThreadOK, Asking
        <3> QED BY <3>1, <3>2 DEF ThreadsOK
    <2>4. SubmitOK' BY <2>1, NoThreadType DEF SubmitOK, Posting
    <2>5. PageOK' BY <1>1, <1>2, <1>4, <1>8 DEF PageOK
    <2>6. FormFits' BY <1>1, <1>8, <2>1, NoThreadType, FormKept DEF ClientInv
    <2>7. NotLost'
        <3>1. crossed BY <1>1, <1>2, <1>8 DEF NotLost
        <3> QED BY <1>1, <1>2, <1>8, <3>1 DEF NotLost
    <2> QED BY <1>4, <2>2, <2>3, <2>4, <2>5, <2>6, <2>7 DEF ClientInv
<1>9. ASSUME Visiting, End("submit"), owner' = owner,
             view' = [view EXCEPT !.submitError = TRUE, !.submitting = FALSE]
      PROVE  ClientInv'
    <2>1. /\ thread' \in [Threads -> Thread] /\ thread'["submit"] = NoThread
          /\ \A u \in Threads : u # "submit" => thread'[u] = thread[u]
          /\ thread'["poll"] = thread["poll"] /\ thread'["refresh"] = thread["refresh"]
          /\ thread'["retry"] = thread["retry"]
        BY <1>7, <1>9, NoThreadType DEF End
    <2>2. /\ view' \in View /\ view'.submitError /\ ~view'.submitting
          /\ view'.status = view.status /\ view'.detail = view.detail
          /\ view'.token = view.token /\ view'.draft = view.draft
          /\ view'.original = view.original /\ view'.notFound = view.notFound
          /\ view'.loadError = view.loadError
        BY <1>2, <1>9 DEF View
    <2>3. ClientTypeOK'
        <3>1. view'.token # 0 => view'.detail.is = "NEEDS_REVIEW"
            BY <2>2, <1>2 DEF ClientTypeOK
        <3> QED BY <1>1, <1>2, <1>5, <1>9, <2>1, <2>2, <3>1, TypesKept
    <2>4. ThreadsOK'
        <3>1. \A u \in Threads \ {"submit"} : ThreadOK(u)'
            BY <1>1, <1>9, <2>1, <2>2, OthersOK DEF ClientInv
        <3>2. ThreadOK("submit")' BY <2>1, NoThreadType DEF ThreadOK, Asking
        <3> QED BY <3>1, <3>2 DEF ThreadsOK
    <2>5. SubmitOK' BY <2>1, NoThreadType DEF SubmitOK, Posting
    <2>6. PageOK' BY <1>1, <1>2, <1>4, <2>2 DEF PageOK
    <2>7. FormFits' BY <1>1, <2>1, <2>2, NoThreadType, FormKept DEF ClientInv
    <2>8. NotLost'
        <3>1. \A t \in Threads : thread[t].pc = "detail" => thread'[t] = thread[t]
            BY <1>1, <2>1
        <3> QED BY <1>1, <1>2, <1>9, <2>1, <2>2, <3>1 DEF NotLost, Served, Visiting
    <2> QED BY <1>4, <2>3, <2>4, <2>5, <2>6, <2>7, <2>8 DEF ClientInv
<1>10. ASSUME Visiting, Set("submit", r), owner' = [status |-> "none", detail |-> "submit"],
              view' \in View, view'.token # 0 => view'.detail.is = "NEEDS_REVIEW",
              view'.submitting, view'.token <= Server.version,
              view'.status.at <= Last, view'.detail.at <= Last,
              view'.detail.is = "NEEDS_REVIEW" /\ view'.token = 0 => view'.submitError,
              Served => Served', crossed \/ replaced \/ TokenFits'
       PROVE  ClientInv'
    <2>1. /\ thread' \in [Threads -> Thread] /\ thread'["submit"] = r
          /\ \A u \in Threads : u # "submit" => thread'[u] = thread[u]
          /\ thread'["poll"] = thread["poll"] /\ thread'["refresh"] = thread["refresh"]
          /\ thread'["retry"] = thread["retry"]
        BY <1>6, <1>7, <1>10
    <2>2. owner' \in [status : Threads \cup {"none"}, detail : Threads \cup {"none"}]
          /\ owner'.status = "none" /\ owner'.detail = "submit"
          /\ \A u \in Threads : u # "none"
        BY <1>2, <1>10 DEF Threads
    <2>3. ClientTypeOK' BY <1>1, <1>2, <1>5, <1>10, <2>1, <2>2, TypesKept
    <2>4. ThreadsOK'
        <3>1. \A u \in Threads \ {"submit"} : ThreadOK(u)'
            BY <1>1, <2>1, <2>2, OthersOK DEF ClientInv
        <3>2. ThreadOK("submit")'
            BY <1>3, <1>4, <1>6, <1>10, <2>1, <2>2 DEF ThreadOK
        <3> QED BY <3>1, <3>2 DEF ThreadsOK
    <2>5. SubmitOK' BY <1>6, <1>10, <2>1 DEF SubmitOK, Posting
    <2>6. PageOK' BY <1>1, <1>2, <1>4, <1>10 DEF PageOK
    <2>7. FormFits'
        <3>1. PostFits' /\ AnswerFits' BY <1>6, <2>1 DEF PostFits, AnswerFits
        <3> QED BY <1>1, <1>10, <3>1 DEF FormFits
    <2>8. NotLost' 
        <3>1. thread'["submit"].pc = "detail" BY <1>6, <2>1
        <3> QED BY <1>1, <1>2, <1>10, <2>1, <2>2, <3>1 DEF NotLost, Visiting
    <2> QED BY <1>4, <2>3, <2>4, <2>5, <2>6, <2>7, <2>8 DEF ClientInv
<1>11. CASE /\ Visiting /\ s.answer = "ok" /\ view' = Submitted(n) /\ Set("submit", r)
            /\ owner' = [status |-> "none", detail |-> "submit"]
    <2>1. n \in 2 .. Last /\ n \in 1 .. Last /\ n <= Last /\ n \in 0 .. MaxMoments
          /\ moments[n] \in Moment
        <3>1. SubmitOK /\ Last <= MaxMoments /\ MaxMoments \in Nat
            BY ClientAssumption DEF ClientInv, HistoryOK, HistoryFine, Last
        <3>2. n \in 2 .. Last BY <1>1, <1>11, <3>1 DEF SubmitOK
        <3> HIDE DEF n
        <3> QED BY <1>3, <3>1, <3>2
    <2>2. ShownAt(n) \in Shown /\ ShownAt(n).at = n /\ ShownAt(n).is = moments[n].status
          /\ moments[n].status \in ServerStatus
        BY <2>1 DEF ShownAt, Shown, Moment
    <2>3. TokenOf(moments[n]) \in 0 .. MaxMoments
          /\ (TokenOf(moments[n]) # 0 <=> moments[n].status = "NEEDS_REVIEW")
          /\ TokenOf(moments[n]) \in {0, moments[n].version}
        <3>1. moments[n].version \in 1 .. MaxMoments BY <2>1 DEF Moment
        <3> QED BY <3>1, ClientAssumption DEF TokenOf
    <2> DEFINE st == IF view.status = Nothing THEN Nothing ELSE ShownAt(n)
               de == IF view.detail = Nothing THEN Nothing ELSE ShownAt(n)
               to == IF view.detail = Nothing THEN 0 ELSE TokenOf(moments[n])
    <2>4. /\ Nothing \in Shown /\ Nothing.at = 0 /\ Nothing.is = "none"
          /\ view.original \in 0 .. MaxData /\ view.draft \in 0 .. MaxData
          /\ 0 \in 0 .. MaxMoments
        BY <1>2, ClientAssumption DEF Nothing, Shown, View
    <2>5. view' = [view EXCEPT !.loadError = FALSE, !.original = view.draft,
                               !.status = st, !.detail = de, !.token = to]
        BY <1>11 DEF Submitted
    <2>6. st \in Shown /\ de \in Shown /\ to \in 0 .. MaxMoments BY <2>2, <2>3, <2>4
    <2>7. st.at <= Last /\ de.at <= Last BY <1>3, <2>1, <2>2, <2>4
    <2>8. /\ to # 0 => de.is = "NEEDS_REVIEW" /\ de.at = n /\ to = moments[n].version
          /\ de.is = "NEEDS_REVIEW" => to # 0
        <3>1. CASE view.detail = Nothing BY <2>4, <3>1
        <3>2. CASE view.detail # Nothing BY <2>2, <2>3, <3>2
        <3> QED BY <3>1, <3>2
    <2>9. to <= Server.version
        <3>1. moments[n].version <= Server.version /\ Server.version \in Nat
            BY <2>1, Between DEF ClientInv
        <3> QED BY <3>1, <2>3
    <2>10. view.detail.is # "none" => de.is # "none"
        BY <2>2, <2>4 DEF ServerStatus
    <2> HIDE DEF st, de, to
    <2>11. /\ view' \in View /\ view'.status = st /\ view'.detail = de /\ view'.token = to
           /\ view'.original = view.draft /\ view'.draft = view.draft
           /\ view'.submitting = view.submitting
        BY <1>2, <2>4, <2>5, <2>6 DEF View
    <2>12. ASSUME ~crossed, ~replaced PROVE TokenFits'
        <3>1. CASE to = 0 \/ to # Server.version BY <1>4, <2>11, <3>1 DEF TokenFits
        <3>2. CASE to # 0 /\ to = Server.version
            <4>1. AnswerFits BY <2>12 DEF ClientInv, FormFits
            <4>2. de.at = n /\ to = moments[n].version BY <2>8, <3>2
            <4>3. view.draft = s.draft /\ moments[n].data = s.draft
                BY <1>1, <1>11, <4>2, <3>2, <4>1 DEF AnswerFits
            <4>4. s.draft # 0 BY <1>1 DEF ClientInv, SubmitOK, Posting
            <4>5. view'.detail.at = n /\ view'.token = moments[n].version
                  /\ view'.original = s.draft
                BY <2>11, <4>2, <4>3
            <4>6. moments' = moments /\ n \in 1 .. Last /\ Last' = Last BY <1>1, <1>4, <2>1
            <4> HIDE DEF s, n
            <4> QED BY <4>3, <4>4, <4>5, <4>6 DEF TokenFits, Shows
        <3> QED BY <3>1, <3>2
    <2>13. Served => Served' BY <2>10, <2>11 DEF Served
    <2> QED BY <1>2, <1>10, <1>11, <2>7, <2>8, <2>9, <2>11, <2>12, <2>13
<1>12. CASE /\ Visiting /\ s.answer = "conflict"
            /\ view' = [view EXCEPT !.submitError = TRUE, !.token = 0]
            /\ Set("submit", r)
            /\ owner' = [status |-> "none", detail |-> "submit"]
    <2>1. 0 \in 0 .. MaxMoments BY ClientAssumption
    <2>2. /\ view' \in View /\ view'.submitError /\ view'.token = 0
          /\ view'.submitting = view.submitting
          /\ view'.status = view.status /\ view'.detail = view.detail
        BY <1>2, <1>12, <2>1 DEF View
    <2>3. TokenFits' BY <2>2 DEF TokenFits
    <2>4. Served => Served' BY <2>2 DEF Served
    <2>5. view'.status.at <= Last /\ view'.detail.at <= Last BY <1>2, <2>2 DEF PageOK
    <2>6. view'.token <= Server.version
        <3>1. Server.version \in Nat BY <1>3, Between DEF ClientInv
        <3> QED BY <2>2, <3>1
    <2> QED BY <1>2, <1>10, <1>12, <2>2, <2>3, <2>4, <2>5, <2>6
<1>13. \/ ~Visiting /\ End("submit") /\ view' = view /\ owner' = owner
       \/ /\ Visiting /\ s.answer = "ok" /\ view' = Submitted(n) /\ Set("submit", r)
          /\ owner' = [status |-> "none", detail |-> "submit"]
       \/ /\ Visiting /\ s.answer = "conflict"
          /\ view' = [view EXCEPT !.submitError = TRUE, !.token = 0]
          /\ Set("submit", r)
          /\ owner' = [status |-> "none", detail |-> "submit"]
       \/ /\ Visiting /\ End("submit") /\ owner' = owner
          /\ view' = [view EXCEPT !.submitError = TRUE, !.submitting = FALSE]
    BY DEF SubmitAnswered
<1> QED BY <1>8, <1>9, <1>11, <1>12, <1>13


(* An answer that ends its request leaves the page in order, whatever it   *)
(* shows of what it owns, if the form fits and the page is still told.     *)
LEMMA AnswerEnds ==
    ASSUME ClientInv, NEW t \in Loaders, End(t), owner' = owner,
           moments' = moments, unheard' = unheard, visit' = visit,
           crossed' = crossed, mishaps' = mishaps \/ Fault, replaced' \in BOOLEAN,
           view' \in View, view'.token # 0 => view'.detail.is = "NEEDS_REVIEW",
           view'.status = view.status \/ (owner.status = t /\ view'.status.at <= Last),
           \/ view'.detail = view.detail /\ view'.token = view.token
           \/ /\ owner.detail = t /\ view'.detail.at <= Last /\ Served'
              /\ view'.token <= Server.version
              /\ view'.detail.is = "NEEDS_REVIEW" => view'.token # 0,
           t # "submit" => view'.submitting = view.submitting,
           t = "submit" /\ ~crossed => ~view'.submitting,
           view'.submitError = view.submitError,
           ~Visiting => view' = view,
           FormFits',
           ~crossed /\ Visiting /\ ~view'.notFound /\ ~view'.loadError =>
               \/ Served' \/ view'.status.is = "none"
               \/ \E u \in Threads \ {t} : thread[u].pc = "detail" /\ owner.detail = u
    PROVE  ClientInv'
<1>1. /\ ClientTypeOK /\ t \in Threads /\ t # "retry" /\ "submit" \in Threads
      /\ "retry" \in Threads /\ NotLost /\ PageOK
    BY DEF ClientInv, Loaders, Threads
<1>2. HistoryOK' /\ Server' = Server /\ Last' = Last
    BY DEF ClientInv, HistoryOK, Server, Last
<1>3. /\ thread' \in [Threads -> Thread] /\ thread'[t] = NoThread
      /\ \A u \in Threads : u # t => thread'[u] = thread[u]
      /\ NoThread.pc = "idle" /\ ~NoThread.old
    BY <1>1, NoThreadType, SetThread DEF End
<1>4. ClientTypeOK'
    <2>1. unheard' \in BOOLEAN BY <1>1 DEF ClientTypeOK
    <2> QED BY <1>1, <1>3, <2>1, TypesKept
<1>5. ThreadsOK'
    <2>1. \A u \in Threads \ {t} : ThreadOK(u)'
        BY <1>3, OthersOK DEF ClientInv
    <2>2. ThreadOK(t)' BY <1>3 DEF ThreadOK, Asking
    <2> QED BY <2>1, <2>2 DEF ThreadsOK
<1>6. /\ thread'["retry"] = thread["retry"]
      /\ t = "submit" => thread'["submit"].pc = "idle"
      /\ t # "submit" => thread'["submit"] = thread["submit"]
    BY <1>1, <1>3
<1>7. SubmitOK'
    <2>1. CASE t = "submit" BY <1>6, <2>1 DEF SubmitOK, Posting
    <2>2. CASE t # "submit"
        BY <1>2, <1>6, <2>2 DEF ClientInv, SubmitOK, Posting
    <2> QED BY <2>1, <2>2
<1>8. PageOK' BY <1>1, <1>2 DEF PageOK
<1>9. NotLost'
    <2>1. view'.detail.is = "NEEDS_REVIEW" /\ view'.token = 0 => view'.submitError
        BY <1>1 DEF NotLost
    <2>2. CASE crossed BY <2>1, <2>2 DEF NotLost
    <2>3. CASE ~crossed
        <3>1. /\ view.submitting => thread["submit"].pc # "idle"
              /\ ~Visiting => /\ thread["submit"].pc = "idle" /\ thread["retry"].pc = "idle"
                              /\ view.status.is = "none"
              /\ thread["retry"].pc # "idle" => Served
              /\ \A u \in {"poll", "refresh"} :
                     thread[u].pc = "status" /\ owner.status = u
                     /\ thread[u].saw.detail # "none" => Served
            BY <1>1, <2>3 DEF NotLost
        <3>2. Served => Served' BY DEF Served
        <3>3. view'.submitting => thread'["submit"].pc # "idle"
            BY <1>6, <2>3, <3>1
        <3>4. ~Visiting' => /\ thread'["submit"].pc = "idle" /\ thread'["retry"].pc = "idle"
                            /\ view'.status.is = "none"
            BY <1>6, <3>1 DEF Visiting
        <3>5. thread'["retry"].pc # "idle" => Served' BY <1>6, <3>1, <3>2
        <3>6. \A u \in {"poll", "refresh"} :
                  thread'[u].pc = "status" /\ owner'.status = u
                  /\ thread'[u].saw.detail # "none" => Served'
            BY <1>3, <3>1, <3>2 DEF Threads
        <3>7. Visiting' /\ ~view'.notFound /\ ~view'.loadError =>
                  \/ Served' \/ view'.status.is = "none"
                  \/ \E u \in Threads : thread'[u].pc = "detail" /\ owner'.detail = u
            BY <1>3, <2>3 DEF Visiting
        <3> QED BY <2>1, <3>3, <3>4, <3>5, <3>6, <3>7 DEF NotLost
    <2> QED BY <2>2, <2>3
<1> QED BY <1>2, <1>4, <1>5, <1>7, <1>8, <1>9 DEF ClientInv

(* So does an answer after which the detail is asked for.                  *)
LEMMA AnswerAsks ==
    ASSUME ClientInv, NEW t \in {"poll", "refresh", "load"}, Set(t, Loading(t, FALSE)),
           owner' = [owner EXCEPT !.detail = t], owner.status = t, Visiting,
           moments' = moments, unheard' = unheard, visit' = visit,
           crossed' = crossed, mishaps' = mishaps, replaced' \in BOOLEAN,
           view' \in View, view'.token # 0 => view'.detail.is = "NEEDS_REVIEW",
           view'.status.at <= Last,
           \/ view'.detail = view.detail /\ view'.token = view.token
           \/ /\ view'.detail.at <= Last /\ Served' /\ view'.token <= Server.version
              /\ view'.detail.is = "NEEDS_REVIEW" => view'.token # 0,
           view'.submitting = view.submitting, view'.submitError = view.submitError,
           FormFits'
    PROVE  ClientInv'
<1>1. /\ ClientTypeOK /\ t \in Threads /\ t # "retry" /\ t # "submit"
      /\ "submit" \in Threads /\ "retry" \in Threads /\ NotLost /\ PageOK
      /\ ThreadOK(t)
    BY DEF ClientInv, Threads, ThreadsOK
<1>2. HistoryOK' /\ Server' = Server /\ Last' = Last
      /\ Last \in Nat /\ Last \in 1 .. Last
    BY ServerMoment DEF ClientInv, HistoryOK, Server, Last
<1> DEFINE r == Loading(t, FALSE)
<1>3. r \in Thread /\ r.pc = "detail" /\ r.since = Last /\ ~r.replace /\ ~r.old
    <2>1. ~thread[t].old BY <1>1 DEF ThreadOK
    <2> QED BY <1>1, <2>1, LoadingType
<1> HIDE DEF r
<1>4. /\ thread' \in [Threads -> Thread] /\ thread'[t] = r
      /\ \A u \in Threads : u # t => thread'[u] = thread[u]
    BY <1>1, <1>3, SetThread DEF r
<1>5. owner' \in [status : Threads \cup {"none"}, detail : Threads \cup {"none"}]
      /\ owner'.status = t /\ owner'.detail = t
    BY <1>1 DEF ClientTypeOK
<1>6. ClientTypeOK'
    <2>1. unheard' \in BOOLEAN BY <1>1 DEF ClientTypeOK
    <2> QED BY <1>1, <1>4, <1>5, <2>1, TypesKept
<1>7. view'.detail.at <= Last BY <1>1 DEF PageOK
<1>8. ThreadsOK'
    <2>1. \A u \in Threads \ {t} : ThreadOK(u)'
        BY <1>4, <1>5, OthersOK DEF ClientInv
    <2>2. ThreadOK(t)' BY <1>2, <1>3, <1>4, <1>7 DEF ThreadOK
    <2> QED BY <2>1, <2>2 DEF ThreadsOK
<1>9. thread'["retry"] = thread["retry"] /\ thread'["submit"] = thread["submit"]
    BY <1>1, <1>4
<1>10. SubmitOK' BY <1>2, <1>9 DEF ClientInv, SubmitOK, Posting
<1>11. PageOK' BY <1>1, <1>2, <1>7 DEF PageOK
<1>12. NotLost'
    <2>1. view'.detail.is = "NEEDS_REVIEW" /\ view'.token = 0 => view'.submitError
        BY <1>1 DEF NotLost
    <2>2. CASE crossed BY <2>1, <2>2 DEF NotLost
    <2>3. CASE ~crossed
        <3>1. /\ view.submitting => thread["submit"].pc # "idle"
              /\ thread["retry"].pc # "idle" => Served
            BY <1>1, <2>3 DEF NotLost
        <3>2. Served => Served' BY DEF Served
        <3>3. Visiting' BY DEF Visiting
        <3>4. \A u \in {"poll", "refresh"} : ~(thread'[u].pc = "status" /\ owner'.status = u)
            BY <1>3, <1>4, <1>5 DEF Threads
        <3>5. \E u \in Threads : thread'[u].pc = "detail" /\ owner'.detail = u
            BY <1>1, <1>3, <1>4, <1>5
        <3> QED BY <1>9, <2>1, <3>1, <3>2, <3>3, <3>4, <3>5 DEF NotLost
    <2> QED BY <2>2, <2>3
<1> QED BY <1>2, <1>6, <1>8, <1>10, <1>11, <1>12 DEF ClientInv


(* A request that may still deliver is of this visit; what it brings is a  *)
(* moment of the row, not before what it replaces.                         *)
LEMMA AnswerOfNow ==
    ASSUME ClientInv, NEW t \in Threads, NEW k \in Answers(t),
           thread[t].pc \in Asking, owner.status = t \/ owner.detail = t
    PROVE  /\ k \in 1 .. Last /\ k \in Nat /\ ~thread[t].old
           /\ ShownAt(k) \in Shown /\ ShownAt(k).at = k /\ ShownAt(k).is # "none"
           /\ k <= Last /\ TokenOf(moments[k]) <= Server.version
           /\ thread[t].pc \in {"status", "pair"} /\ owner.status = t => view.status.at <= k
           /\ thread[t].pc \in {"detail", "pair"} /\ owner.detail = t => view.detail.at <= k
<1>1. ThreadOK(t) /\ thread[t].since \in Nat /\ ClientTypeOK
    BY ThreadTypes DEF ClientInv, ThreadsOK
<1>2. Last \in Nat /\ Last <= MaxMoments /\ MaxMoments \in Nat
      /\ \A i \in 1 .. Last : moments[i] \in Moment
    BY ServerMoment, ClientAssumption DEF ClientInv, HistoryOK, HistoryFine, Last
<1>3. ~thread[t].old /\ thread[t].since \in 1 .. Last BY <1>1 DEF ThreadOK
<1>4. k \in Nat /\ thread[t].since <= k /\ k <= Last /\ k \in 1 .. Last
    BY <1>2, <1>3 DEF Answers, Last
<1>5. moments[k].status \in ServerStatus BY <1>2, <1>4 DEF Moment
<1>6. ShownAt(k) \in Shown /\ ShownAt(k).at = k /\ ShownAt(k).is # "none"
    BY <1>2, <1>4, <1>5 DEF ShownAt, Shown, ServerStatus
<1>7. TokenOf(moments[k]) <= Server.version
    <2>1. moments[k].version <= Server.version /\ Server.version \in Nat
        BY <1>4, Between DEF ClientInv
    <2> QED BY <2>1 DEF TokenOf
<1>8. view.status.at \in Nat /\ view.detail.at \in Nat BY <1>1, ViewTypes
<1> QED BY <1>1, <1>3, <1>4, <1>6, <1>7, <1>8 DEF ThreadOK

(* A status is shown; a change the retry waited for ends its polling.      *)
LEMMA StatusOfShows ==
    ASSUME view \in View, NEW t \in Threads, NEW k, ShownAt(k) \in Shown
    PROVE  LET v == StatusOf(t, k)
           IN  /\ v \in View /\ v.status = ShownAt(k) /\ ~v.loadError
               /\ v.detail = view.detail /\ v.token = view.token
               /\ v.draft = view.draft /\ v.original = view.original
               /\ v.notFound = view.notFound /\ v.submitting = view.submitting
               /\ v.submitError = view.submitError
<1> DEFINE v == [view EXCEPT !.status = ShownAt(k), !.loadError = FALSE]
           w == [v EXCEPT !.override = FALSE, !.tries = 0, !.retryGaveUp = FALSE]
<1>1. StatusOf(t, k) \in {v, w} BY DEF StatusOf
<1>2. /\ v \in View /\ v.status = ShownAt(k) /\ ~v.loadError
      /\ v.detail = view.detail /\ v.token = view.token
      /\ v.draft = view.draft /\ v.original = view.original
      /\ v.notFound = view.notFound /\ v.submitting = view.submitting
      /\ v.submitError = view.submitError
    BY DEF View
<1> HIDE DEF v
<1>3. 0 \in 0 .. RetryLimit BY ClientAssumption
<1>4. /\ w \in View /\ w.status = v.status /\ w.loadError = v.loadError
      /\ w.detail = v.detail /\ w.token = v.token
      /\ w.draft = v.draft /\ w.original = v.original
      /\ w.notFound = v.notFound /\ w.submitting = v.submitting
      /\ w.submitError = v.submitError
    BY <1>2, <1>3 DEF View
<1> HIDE DEF w
<1> QED BY <1>1, <1>2, <1>4

(* A request for the status is answered.                                   *)
LEMMA StatusAnsweredStep ==
    ASSUME ClientInv, NEW t \in Pollers, StatusAnswered(t)
    PROVE  ClientInv'
<1>1. /\ moments' = moments /\ unheard' = unheard /\ visit' = visit
      /\ crossed' = crossed /\ replaced' = replaced /\ mishaps' = mishaps
      /\ thread[t].pc = "status"
    BY DEF StatusAnswered, Environment
<1>2. /\ ClientTypeOK /\ t \in Threads /\ t \in {"poll", "refresh"} /\ t \in Loaders
      /\ t # "submit" /\ view \in View /\ NotLost /\ replaced' \in BOOLEAN /\ PageOK
    <2>1. ClientTypeOK /\ NotLost /\ PageOK BY DEF ClientInv
    <2> QED BY <1>1, <2>1 DEF Pollers, Loaders, Threads, ClientTypeOK
<1>3. PICK k \in Answers(t) :
          \/ /\ ~Current(t, {"status"})
             /\ End(t) /\ UNCHANGED <<view, owner>>
          \/ /\ Current(t, {"status"}) /\ NotFound(k)
             /\ view' = GiveUp(t, [view EXCEPT !.notFound = TRUE])
             /\ End(t) /\ UNCHANGED owner
          \/ /\ Current(t, {"status"}) /\ ~NotFound(k)
             /\ thread[t].saw.detail = moments[k].status
             /\ view' = GiveUp(t, StatusOf(t, k))
             /\ End(t) /\ UNCHANGED owner
          \/ /\ Current(t, {"status"}) /\ ~NotFound(k)
             /\ thread[t].saw.detail # moments[k].status
             /\ view' = StatusOf(t, k)
             /\ Set(t, Loading(t, FALSE))
             /\ owner' = [owner EXCEPT !.detail = t]
    BY DEF StatusAnswered
<1>4. \A u \in Threads : thread[u].pc = "detail" => u # t BY <1>1
<1>5. ~crossed =>
          /\ Visiting /\ ~view.notFound /\ ~view.loadError =>
                 \/ Served \/ view.status.is = "none"
                 \/ \E u \in Threads : thread[u].pc = "detail" /\ owner.detail = u
          /\ owner.status = t /\ thread[t].saw.detail # "none" => Served
    BY <1>1, <1>2 DEF NotLost
<1>6. CASE End(t) /\ view' = view /\ owner' = owner
    <2>1. FormFits'
        <3>1. thread'["submit"] = thread["submit"]
            BY <1>2, <1>6, NoThreadType, SetThread, ViewTypes DEF End
        <3> QED BY <1>1, <1>6, <3>1, FormKept DEF ClientInv
    <2>2. view.token # 0 => view.detail.is = "NEEDS_REVIEW" BY <1>2 DEF ClientTypeOK
    <2> QED BY <1>1, <1>2, <1>4, <1>5, <1>6, <2>1, <2>2, AnswerEnds DEF Served
<1>7. ASSUME NEW v \in View, End(t), owner' = owner, Visiting, owner.status = t,
             view' = GiveUp(t, v), v.detail = view.detail, v.token = view.token,
             v.draft = view.draft, v.original = view.original,
             v.submitting = view.submitting, v.submitError = view.submitError,
             v.status = view.status \/ v.status.at <= Last,
             v.notFound \/ (~crossed => Served)
      PROVE  ClientInv'
    <2>1. Alike(v, view') /\ view'.submitting = view.submitting
        <3>1. Alike(v, GiveUp(t, v)) /\ GiveUp(t, v).submitting = (v.submitting /\ t # "submit")
            BY <1>2, FinallyAlike
        <3> QED BY <1>2, <1>7, <3>1 DEF View
    <2>2. /\ view' \in View /\ view'.status = v.status /\ view'.detail = view.detail
          /\ view'.token = view.token /\ view'.notFound = v.notFound
          /\ view'.draft = view.draft /\ view'.original = view.original
          /\ view'.submitError = view.submitError
        BY <1>7, <2>1 DEF Alike
    <2>3. FormFits'
        <3>1. thread'["submit"] = thread["submit"]
            BY <1>2, <1>7, NoThreadType, SetThread, ViewTypes DEF End
        <3> QED BY <1>1, <2>2, <3>1, FormKept DEF ClientInv
    <2>4. view'.token # 0 => view'.detail.is = "NEEDS_REVIEW"
        BY <1>2, <2>2 DEF ClientTypeOK
    <2>5. view'.status = view.status \/ view'.status.at <= Last BY <1>7, <2>2
    <2>6. ~crossed /\ ~view'.notFound => Served' BY <1>7, <2>2 DEF Served
    <2> QED BY <1>1, <1>2, <1>7, <2>1, <2>2, <2>3, <2>4, <2>5, <2>6, AnswerEnds
<1>8. CASE /\ Current(t, {"status"}) /\ NotFound(k)
           /\ view' = GiveUp(t, [view EXCEPT !.notFound = TRUE])
           /\ End(t) /\ UNCHANGED owner
    <2> DEFINE v == [view EXCEPT !.notFound = TRUE]
    <2>1. /\ v \in View /\ v.detail = view.detail /\ v.token = view.token
          /\ v.draft = view.draft /\ v.original = view.original
          /\ v.submitting = view.submitting /\ v.submitError = view.submitError
          /\ v.status = view.status /\ v.notFound
        BY <1>2 DEF View
    <2>2. view' = GiveUp(t, v) /\ owner.status = t /\ Visiting /\ End(t) /\ owner' = owner
        BY <1>8 DEF Current
    <2> HIDE DEF v
    <2> QED BY <1>7, <2>1, <2>2
<1>9. CASE Current(t, {"status"}) /\ ~NotFound(k)
    <2>1. owner.status = t /\ Visiting BY <1>9 DEF Current
    <2>2. /\ k \in 1 .. Last /\ ShownAt(k) \in Shown /\ ShownAt(k).at = k
          /\ ShownAt(k).is # "none" /\ k <= Last
        BY <1>1, <1>2, <2>1, AnswerOfNow DEF Asking
    <2> DEFINE v == StatusOf(t, k)
    <2>3. /\ v \in View /\ v.status = ShownAt(k) /\ ~v.loadError
          /\ v.detail = view.detail /\ v.token = view.token
          /\ v.draft = view.draft /\ v.original = view.original
          /\ v.notFound = view.notFound /\ v.submitting = view.submitting
          /\ v.submitError = view.submitError
        BY <1>2, <2>2, StatusOfShows
    <2>4. v.status.at <= Last BY <2>2, <2>3
    <2>5. CASE /\ thread[t].saw.detail = moments[k].status
               /\ view' = GiveUp(t, v) /\ End(t) /\ UNCHANGED owner
        <3>1. thread[t].saw.detail # "none" BY <2>2, <2>5 DEF ShownAt
        <3>2. ~crossed => Served BY <1>5, <2>1, <3>1
        <3> HIDE DEF v
        <3> QED BY <1>7, <2>1, <2>3, <2>4, <2>5, <3>2
    <2>6. CASE /\ view' = v /\ Set(t, Loading(t, FALSE))
               /\ owner' = [owner EXCEPT !.detail = t]
        <3>1. /\ view' \in View /\ view'.status.at <= Last /\ view'.detail = view.detail
              /\ view'.token = view.token /\ view'.draft = view.draft
              /\ view'.original = view.original /\ view'.submitting = view.submitting
              /\ view'.submitError = view.submitError
            BY <2>3, <2>4, <2>6
        <3>2. view'.token # 0 => view'.detail.is = "NEEDS_REVIEW"
            BY <1>2, <3>1 DEF ClientTypeOK
        <3>3. FormFits'
            <4>1. thread'["submit"] = thread["submit"]
                BY <1>2, <2>6, LoadingType, SetThread, ViewTypes
            <4> QED BY <1>1, <3>1, <4>1, FormKept DEF ClientInv
        <3>4. t \in {"poll", "refresh", "load"} BY <1>2
        <3> QED BY <1>1, <1>2, <2>1, <2>6, <3>1, <3>2, <3>3, <3>4, AnswerAsks
    <2>7. \/ /\ thread[t].saw.detail = moments[k].status
             /\ view' = GiveUp(t, v) /\ End(t) /\ UNCHANGED owner
          \/ /\ view' = v /\ Set(t, Loading(t, FALSE))
             /\ owner' = [owner EXCEPT !.detail = t]
        BY <1>3, <1>9
    <2> QED BY <2>5, <2>6, <2>7
<1> QED BY <1>3, <1>6, <1>8, <1>9


(* A request for the detail is answered.                                   *)
LEMMA DetailAnsweredStep ==
    ASSUME ClientInv, NEW t \in Loaders, DetailAnswered(t)
    PROVE  ClientInv'
<1>1. /\ moments' = moments /\ unheard' = unheard /\ visit' = visit
      /\ crossed' = crossed /\ replaced' = replaced /\ mishaps' = mishaps
      /\ owner' = owner /\ thread[t].pc = "detail" /\ End(t)
    BY DEF DetailAnswered, Environment
<1>2. /\ ClientTypeOK /\ t \in Threads /\ view \in View /\ NotLost
      /\ replaced' \in BOOLEAN /\ "submit" \in Threads
      /\ ThreadOK(t) /\ thread[t] \in Thread
      /\ view.token # 0 => view.detail.is = "NEEDS_REVIEW"
    <2>1. ClientTypeOK /\ NotLost /\ t \in Threads BY DEF ClientInv, Loaders, Threads
    <2> QED BY <1>1, <2>1, ThreadTypes, ViewTypes DEF ClientInv, ClientTypeOK, ThreadsOK
<1>3. PICK k \in Answers(t) :
          view' =
            CASE ~Visiting -> view
              [] Visiting /\ owner.detail # t -> Finally(t, view)
              [] Visiting /\ owner.detail = t /\ NotFound(k) ->
                     Finally(t, [view EXCEPT !.notFound = TRUE])
              [] OTHER ->
                     Finally(t, WithDetail([view EXCEPT !.loadError = FALSE], k,
                                           thread[t].replace))
    BY DEF DetailAnswered
<1>4. /\ t # "submit" => thread'["submit"] = thread["submit"]
      /\ t = "submit" => thread'["submit"].pc \notin {"post", "posted"}
    BY <1>1, <1>2, NoThreadType, SetThread DEF End
<1>5. ~crossed /\ Visiting /\ ~view.notFound /\ ~view.loadError =>
          \/ Served \/ view.status.is = "none"
          \/ \E u \in Threads : thread[u].pc = "detail" /\ owner.detail = u
    BY <1>2 DEF NotLost
<1>6. CASE ~Visiting
    <2>1. view' = view BY <1>3, <1>6
    <2>2. t = "submit" => crossed BY <1>1, <1>2, <1>6 DEF NotLost
    <2>3. FormFits' BY <1>1, <1>4, <2>1, FormKept DEF ClientInv
    <2> QED BY <1>1, <1>2, <1>6, <2>1, <2>2, <2>3, AnswerEnds
<1>7. CASE Visiting /\ owner.detail # t
    <2>1. view' = Finally(t, view) BY <1>3, <1>7
    <2>2. Alike(view, view') /\ view'.submitting = (view.submitting /\ t # "submit")
        BY <1>2, <2>1, FinallyAlike
    <2>3. /\ view' \in View /\ view'.status = view.status /\ view'.detail = view.detail
          /\ view'.token = view.token /\ view'.notFound = view.notFound
          /\ view'.draft = view.draft /\ view'.original = view.original
          /\ view'.submitError = view.submitError /\ view'.loadError = view.loadError
          /\ t # "submit" => view'.submitting = view.submitting
          /\ t = "submit" => ~view'.submitting
        BY <1>2, <2>2 DEF Alike, View
    <2>4. FormFits' BY <1>1, <1>4, <2>3, FormKept DEF ClientInv
    <2>5. ~crossed /\ Visiting /\ ~view'.notFound /\ ~view'.loadError =>
              \/ Served' \/ view'.status.is = "none"
              \/ \E u \in Threads \ {t} : thread[u].pc = "detail" /\ owner.detail = u
        BY <1>5, <1>7, <2>3 DEF Served
    <2> QED BY <1>1, <1>2, <1>7, <2>3, <2>4, <2>5, AnswerEnds
<1>8. CASE Visiting /\ owner.detail = t /\ NotFound(k)
    <2> DEFINE v == [view EXCEPT !.notFound = TRUE]
    <2>1. /\ v \in View /\ v.detail = view.detail /\ v.token = view.token
          /\ v.draft = view.draft /\ v.original = view.original
          /\ v.submitting = view.submitting /\ v.submitError = view.submitError
          /\ v.status = view.status /\ v.notFound /\ v.submitting \in BOOLEAN
        BY <1>2 DEF View
    <2>2. view' = Finally(t, v) BY <1>3, <1>8
    <2> HIDE DEF v
    <2>3. Alike(v, view') /\ view'.submitting = (v.submitting /\ t # "submit")
        BY <1>2, <2>1, <2>2, FinallyAlike
    <2>4. /\ view' \in View /\ view'.status = view.status /\ view'.detail = view.detail
          /\ view'.token = view.token /\ view'.notFound
          /\ view'.draft = view.draft /\ view'.original = view.original
          /\ view'.submitError = view.submitError
          /\ t # "submit" => view'.submitting = view.submitting
          /\ t = "submit" => ~view'.submitting
        BY <2>1, <2>3 DEF Alike
    <2>5. FormFits' BY <1>1, <1>4, <2>4, FormKept DEF ClientInv
    <2> QED BY <1>1, <1>2, <1>8, <2>4, <2>5, AnswerEnds
<1>9. CASE Visiting /\ owner.detail = t /\ ~NotFound(k)
    <2> DEFINE v == [view EXCEPT !.loadError = FALSE]
               w == WithDetail(v, k, thread[t].replace)
    <2>1. /\ v \in View /\ v.draft = view.draft /\ v.original = view.original
          /\ v.submitting = view.submitting /\ v.submitError = view.submitError
          /\ v.status = view.status
        BY <1>2 DEF View
    <2>2. view' = Finally(t, w) BY <1>3, <1>9
    <2>3. /\ k \in 1 .. Last /\ ShownAt(k).at = k /\ ShownAt(k).is # "none"
          /\ k <= Last /\ TokenOf(moments[k]) <= Server.version /\ view.detail.at <= k
        BY <1>1, <1>2, <1>9, AnswerOfNow DEF Asking
    <2>4. thread[t].replace \in BOOLEAN BY <1>2 DEF Thread
    <2> HIDE DEF v
    <2>5. /\ w \in View /\ w.detail = ShownAt(k) /\ w.token = TokenOf(moments[k])
          /\ w.token # 0 <=> w.detail.is = "NEEDS_REVIEW"
          /\ w.status = v.status /\ w.submitting = v.submitting
          /\ w.submitError = v.submitError
          /\ moments[k].data = 0 => w.original = v.original /\ w.draft = v.draft
          /\ moments[k].data # 0 => /\ w.original = moments[k].data
                                    /\ w.draft \in {v.draft, moments[k].data}
          /\ w.draft # v.draft => thread[t].replace \/ v.draft = v.original
        BY <2>1, <2>3, <2>4, WithDetailShows DEF ClientInv
    <2> HIDE DEF w
    <2>6. Alike(w, view') /\ view'.submitting = (w.submitting /\ t # "submit")
        BY <1>2, <2>2, <2>5, FinallyAlike
    <2>7. /\ view' \in View /\ view'.status = view.status /\ view'.detail = ShownAt(k)
          /\ view'.token = TokenOf(moments[k])
          /\ view'.token # 0 <=> view'.detail.is = "NEEDS_REVIEW"
          /\ view'.submitError = view.submitError
          /\ t # "submit" => view'.submitting = view.submitting
          /\ t = "submit" => ~view'.submitting
          /\ view'.draft = w.draft /\ view'.original = w.original
        <3>1. w.submitting \in BOOLEAN BY <2>5 DEF View
        <3> QED BY <2>1, <2>5, <2>6, <3>1 DEF Alike
    <2>8. FormFits'
        <3>1. view'.draft # view.draft /\ Posting => view.draft = view.original
            <4>1. thread[t].replace => t = "submit" BY <1>1, <1>2 DEF ThreadOK
            <4>2. t = "submit" => ~Posting BY <1>1 DEF Posting
            <4> QED BY <2>1, <2>5, <2>7, <4>1, <4>2
        <3>2. /\ moments[k].data = 0 =>
                     view'.original = view.original /\ view'.draft = view.draft
              /\ moments[k].data # 0 =>
                     view'.original = moments[k].data
                     /\ view'.draft \in {view.draft, moments[k].data}
            BY <2>1, <2>5, <2>7
        <3>3. \/ thread'["submit"] = thread["submit"]
              \/ thread'["submit"].pc \notin {"post", "posted"}
            BY <1>4
        <3>4. view'.detail.at = k BY <2>3, <2>7
        <3> QED BY <1>1, <2>3, <2>7, <3>1, <3>2, <3>3, <3>4, FormShown DEF ClientInv
    <2>9. /\ view'.detail.at <= Last /\ Served' /\ view'.token <= Server.version
          /\ view'.detail.is = "NEEDS_REVIEW" => view'.token # 0
        BY <2>3, <2>7 DEF Served
    <2> QED BY <1>1, <1>2, <1>9, <2>7, <2>8, <2>9, AnswerEnds
<1> QED BY <1>6, <1>7, <1>8, <1>9

(* What a reload brings, of a status or a detail, leaves the form fitting; *)
(* a draft it replaces under a submission is remembered.                   *)
LEMMA ReloadBrings ==
    ASSUME ClientInv, thread["load"].pc = "pair", Current("load", {"status", "detail"}),
           NEW k \in Answers("load"), NEW v \in View,
           v.detail = view.detail, v.token = view.token, v.draft = view.draft,
           v.original = view.original, v.submitting = view.submitting,
           v.submitError = view.submitError,
           v.status = view.status \/ v.status.at <= Last,
           view' = v \/ view' = WithDetail(v, k, TRUE),
           moments' = moments, crossed' = crossed, ReplacesDraft,
           thread'["submit"] = thread["submit"]
    PROVE  /\ view' \in View
           /\ view'.token # 0 => view'.detail.is = "NEEDS_REVIEW"
           /\ view'.status = v.status
           /\ \/ view'.detail = view.detail /\ view'.token = view.token
              \/ /\ view'.detail.at <= Last /\ Served'
                 /\ view'.token <= Server.version
                 /\ view'.detail.is = "NEEDS_REVIEW" => view'.token # 0
           /\ view'.submitting = view.submitting /\ view'.submitError = view.submitError
           /\ view'.notFound = v.notFound /\ view'.loadError = v.loadError
           /\ view' = WithDetail(v, k, TRUE) => Served'
           /\ replaced' \in BOOLEAN /\ FormFits'
<1>1. /\ ClientTypeOK /\ "load" \in Threads /\ owner.status = "load"
      /\ owner.detail = "load" /\ replaced \in BOOLEAN
      /\ view.token # 0 => view.detail.is = "NEEDS_REVIEW"
    BY DEF ClientInv, ClientTypeOK, Current, Threads
<1>2. replaced' \in BOOLEAN /\ (replaced => replaced')
      /\ (view'.draft # view.draft /\ Posting => replaced')
      /\ (view'.draft = view.draft => replaced' = replaced)
    BY <1>1 DEF ReplacesDraft, Posting
<1>3. CASE view' = v /\ v # WithDetail(v, k, TRUE)
    <2>1. FormFits' BY <1>2, <1>3, FormKept DEF ClientInv
    <2> QED BY <1>1, <1>2, <1>3, <2>1
<1>4. CASE view' = WithDetail(v, k, TRUE)
    <2> DEFINE w == WithDetail(v, k, TRUE)
    <2>1. /\ k \in 1 .. Last /\ ShownAt(k).at = k /\ ShownAt(k).is # "none"
          /\ k <= Last /\ TokenOf(moments[k]) <= Server.version /\ view.detail.at <= k
        BY <1>1, AnswerOfNow DEF Asking
    <2>2. /\ w \in View /\ w.detail = ShownAt(k) /\ w.token = TokenOf(moments[k])
          /\ w.token # 0 <=> w.detail.is = "NEEDS_REVIEW"
          /\ w.status = v.status /\ w.submitting = v.submitting
          /\ w.notFound = v.notFound /\ w.loadError = v.loadError
          /\ w.submitError = v.submitError
          /\ moments[k].data = 0 => w.original = v.original /\ w.draft = v.draft
          /\ moments[k].data # 0 => /\ w.original = moments[k].data
                                    /\ w.draft \in {v.draft, moments[k].data}
        BY <2>1, WithDetailShows DEF ClientInv
    <2>3. view' = w BY <1>4
    <2> HIDE DEF w
    <2>4. FormFits'
        <3>1. /\ moments[k].data = 0 =>
                     view'.original = view.original /\ view'.draft = view.draft
              /\ moments[k].data # 0 =>
                     view'.original = moments[k].data
                     /\ view'.draft \in {view.draft, moments[k].data}
            BY <2>2, <2>3
        <3>2. view'.detail.at = k /\ view'.token = TokenOf(moments[k]) BY <2>1, <2>2, <2>3
        <3> QED BY <1>2, <2>1, <3>1, <3>2, FormShown DEF ClientInv
    <2>5. Served' BY <2>1, <2>2, <2>3 DEF Served
    <2>6. view'.detail.at <= Last /\ view'.token <= Server.version BY <2>1, <2>2, <2>3
    <2> QED BY <1>2, <2>2, <2>3, <2>4, <2>5, <2>6
<1> QED BY <1>3, <1>4

(* The two requests of a reload are answered.                              *)
LEMMA PairAnsweredStep ==
    ASSUME ClientInv, PairAnswered
    PROVE  ClientInv'
<1>1. /\ moments' = moments /\ unheard' = unheard /\ visit' = visit
      /\ crossed' = crossed /\ mishaps' = mishaps
      /\ thread["load"].pc = "pair" /\ ReplacesDraft
    BY DEF PairAnswered
<1>2. /\ ClientTypeOK /\ "load" \in Threads /\ "load" \in Loaders /\ view \in View
      /\ NotLost /\ "submit" \in Threads /\ replaced \in BOOLEAN
      /\ view.token # 0 => view.detail.is = "NEEDS_REVIEW"
    <2>1. ClientTypeOK /\ NotLost BY DEF ClientInv
    <2> QED BY <2>1 DEF ClientTypeOK, Loaders, Threads
<1>3. ASSUME NEW r \in Thread, Set("load", r) PROVE thread'["submit"] = thread["submit"]
    BY <1>2, <1>3, SetThread
<1>4. CASE /\ ~Current("load", {"status", "detail"})
           /\ End("load") /\ UNCHANGED <<view, owner>>
    <2>1. view' = view /\ owner' = owner /\ replaced' = replaced /\ End("load")
        BY <1>1, <1>2, <1>4 DEF ReplacesDraft
    <2>2. FormFits'
        <3>1. thread'["submit"] = thread["submit"] BY <1>3, <2>1, NoThreadType DEF End
        <3> QED BY <1>1, <2>1, <3>1, FormKept DEF ClientInv
    <2>3. ~crossed /\ Visiting /\ ~view'.notFound /\ ~view'.loadError =>
              \/ Served' \/ view'.status.is = "none"
              \/ \E u \in Threads \ {"load"} : thread[u].pc = "detail" /\ owner.detail = u
        <3>1. \A u \in Threads : thread[u].pc = "detail" => u # "load" BY <1>1
        <3> QED BY <1>2, <2>1, <3>1 DEF NotLost, Served
    <2> QED BY <1>1, <1>2, <2>1, <2>2, <2>3, AnswerEnds
<1>5. ASSUME Current("load", {"status", "detail"}),
             NEW k \in Answers("load"), NEW l \in Answers("load"),
             LET v == [view EXCEPT !.notFound = NotFound(k) \/ NotFound(l),
                                   !.loadError = FALSE]
                 w == IF NotFound(k) THEN v
                      ELSE [v EXCEPT !.status = ShownAt(k)]
                 again == /\ ~NotFound(k) /\ ~NotFound(l)
                          /\ moments[k].status # moments[l].status
             IN  /\ view' = IF NotFound(l) THEN w ELSE WithDetail(w, l, TRUE)
                 /\ IF again
                    THEN /\ Set("load", Loading("load", FALSE))
                         /\ owner' = [owner EXCEPT !.detail = "load"]
                    ELSE End("load") /\ UNCHANGED owner
      PROVE  ClientInv'
    <2> DEFINE v == [view EXCEPT !.notFound = NotFound(k) \/ NotFound(l),
                                 !.loadError = FALSE]
               w == IF NotFound(k) THEN v ELSE [v EXCEPT !.status = ShownAt(k)]
    <2>1. /\ view' = w \/ view' = WithDetail(w, l, TRUE)
          /\ ~NotFound(l) => view' = WithDetail(w, l, TRUE)
        BY <1>5
    <2>2. \/ Set("load", Loading("load", FALSE)) /\ owner' = [owner EXCEPT !.detail = "load"]
          \/ End("load") /\ owner' = owner
        BY <1>5
    <2>3. owner.status = "load" /\ owner.detail = "load" /\ Visiting
        BY <1>5 DEF Current
    <2>4. ShownAt(k) \in Shown /\ ShownAt(k).at <= Last
        BY <1>1, <1>2, <1>5, <2>3, AnswerOfNow DEF Asking
    <2>5. /\ v \in View /\ v.detail = view.detail /\ v.token = view.token
          /\ v.draft = view.draft /\ v.original = view.original
          /\ v.submitting = view.submitting /\ v.submitError = view.submitError
          /\ v.status = view.status /\ v.notFound = (NotFound(k) \/ NotFound(l))
        <3>1. (NotFound(k) \/ NotFound(l)) \in BOOLEAN OBVIOUS
        <3> QED BY <1>2, <3>1 DEF View
    <2> HIDE DEF v
    <2>6. /\ w \in View /\ w.detail = view.detail /\ w.token = view.token
          /\ w.draft = view.draft /\ w.original = view.original
          /\ w.submitting = view.submitting /\ w.submitError = view.submitError
          /\ w.status = view.status \/ w.status.at <= Last
          /\ w.notFound = (NotFound(k) \/ NotFound(l))
        <3>1. CASE NotFound(k) BY <2>5, <3>1
        <3>2. CASE ~NotFound(k)
            <4> DEFINE x == [v EXCEPT !.status = ShownAt(k)]
            <4>1. /\ x \in View /\ x.detail = v.detail /\ x.token = v.token
                  /\ x.draft = v.draft /\ x.original = v.original
                  /\ x.submitting = v.submitting /\ x.submitError = v.submitError
                  /\ x.status = ShownAt(k) /\ x.notFound = v.notFound
                BY <2>4, <2>5 DEF View
            <4>2. w = x BY <3>2
            <4> HIDE DEF x
            <4> QED BY <2>4, <2>5, <4>1, <4>2
        <3> QED BY <3>1, <3>2
    <2> HIDE DEF w
    <2>7. thread'["submit"] = thread["submit"]
        BY <1>2, <1>3, <2>2, NoThreadType, LoadingType DEF End
    <2>8. /\ view' \in View
          /\ view'.token # 0 => view'.detail.is = "NEEDS_REVIEW"
          /\ view'.status = w.status
          /\ \/ view'.detail = view.detail /\ view'.token = view.token
             \/ /\ view'.detail.at <= Last /\ Served'
                /\ view'.token <= Server.version
                /\ view'.detail.is = "NEEDS_REVIEW" => view'.token # 0
          /\ view'.submitting = view.submitting /\ view'.submitError = view.submitError
          /\ view'.notFound = w.notFound
          /\ view' = WithDetail(w, l, TRUE) => Served'
          /\ replaced' \in BOOLEAN /\ FormFits'
        BY <1>1, <1>5, <2>1, <2>6, <2>7, ReloadBrings
    <2>9. view'.notFound \/ Served' BY <2>1, <2>6, <2>8
    <2>10. view'.status = view.status \/ view'.status.at <= Last BY <2>6, <2>8
    <2>11. CASE End("load") /\ owner' = owner
        BY <1>1, <1>2, <2>3, <2>8, <2>9, <2>10, <2>11, AnswerEnds
    <2>12. CASE Set("load", Loading("load", FALSE)) /\ owner' = [owner EXCEPT !.detail = "load"]
        <3>1. view'.status.at <= Last BY <2>10 DEF ClientInv, PageOK
        <3> QED BY <1>1, <2>3, <2>8, <2>12, <3>1, AnswerAsks
    <2> QED BY <2>2, <2>11, <2>12
<1> QED BY <1>4, <1>5 DEF PairAnswered

(* A request of a reload fails, or both do.                                *)
LEMMA PairFailsStep ==
    ASSUME ClientInv, PairFails
    PROVE  ClientInv'
<1>1. /\ moments' = moments /\ unheard' = unheard /\ visit' = visit
      /\ crossed' = crossed /\ Fault /\ owner' = owner
      /\ thread["load"].pc = "pair" /\ ReplacesDraft /\ End("load")
      /\ Current("load", {"status", "detail"})
    BY DEF PairFails
<1>2. /\ ClientTypeOK /\ "load" \in Threads /\ "load" \in Loaders /\ view \in View
      /\ "submit" \in Threads /\ "load" # "submit"
    <2>1. ClientTypeOK BY DEF ClientInv
    <2> QED BY <2>1 DEF ClientTypeOK, Loaders, Threads
<1>3. thread'["submit"] = thread["submit"]
    BY <1>1, <1>2, NoThreadType, SetThread DEF End
<1>4. owner.status = "load" /\ owner.detail = "load" /\ Visiting BY <1>1 DEF Current
<1>5. ASSUME NEW k \in Answers("load"), NEW v \in View,
             v.detail = view.detail, v.token = view.token, v.draft = view.draft,
             v.original = view.original, v.submitting = view.submitting,
             v.submitError = view.submitError, v.loadError,
             v.status = view.status \/ v.status.at <= Last,
             view' = v \/ view' = WithDetail(v, k, TRUE)
      PROVE  ClientInv'
    <2>1. /\ view' \in View
          /\ view'.token # 0 => view'.detail.is = "NEEDS_REVIEW"
          /\ view'.status = v.status
          /\ \/ view'.detail = view.detail /\ view'.token = view.token
             \/ /\ view'.detail.at <= Last /\ Served'
                /\ view'.token <= Server.version
                /\ view'.detail.is = "NEEDS_REVIEW" => view'.token # 0
          /\ view'.submitting = view.submitting /\ view'.submitError = view.submitError
          /\ view'.loadError = v.loadError
          /\ replaced' \in BOOLEAN /\ FormFits'
        BY <1>1, <1>3, <1>5, ReloadBrings
    <2>2. view'.status = view.status \/ view'.status.at <= Last BY <1>5, <2>1
    <2>3. view'.loadError BY <1>5, <2>1
    <2> QED BY <1>1, <1>2, <1>4, <2>1, <2>2, <2>3, AnswerEnds
<1>6. PICK k \in Answers("load") :
          LET v == [view EXCEPT !.loadError = TRUE, !.notFound = NotFound(k)]
          IN  view' \in {[view EXCEPT !.loadError = TRUE, !.notFound = FALSE],
                         IF NotFound(k) THEN v ELSE [v EXCEPT !.status = ShownAt(k)],
                         IF NotFound(k) THEN v ELSE WithDetail(v, k, TRUE)}
    BY DEF PairFails
<1> DEFINE v == [view EXCEPT !.loadError = TRUE, !.notFound = NotFound(k)]
           f == [view EXCEPT !.loadError = TRUE, !.notFound = FALSE]
           x == [v EXCEPT !.status = ShownAt(k)]
<1>7. ShownAt(k) \in Shown /\ ShownAt(k).at <= Last
    BY <1>1, <1>2, <1>4, AnswerOfNow DEF Asking
<1>8. /\ v \in View /\ v.detail = view.detail /\ v.token = view.token
      /\ v.draft = view.draft /\ v.original = view.original
      /\ v.submitting = view.submitting /\ v.submitError = view.submitError
      /\ v.status = view.status /\ v.loadError
    <2>1. NotFound(k) \in BOOLEAN BY DEF NotFound
    <2> QED BY <1>2, <2>1 DEF View
<1>9. /\ f \in View /\ f.detail = view.detail /\ f.token = view.token
      /\ f.draft = view.draft /\ f.original = view.original
      /\ f.submitting = view.submitting /\ f.submitError = view.submitError
      /\ f.status = view.status /\ f.loadError
    BY <1>2 DEF View
<1>10. view' \in {f, v, x, WithDetail(v, k, TRUE)} BY <1>6
<1> HIDE DEF v, f
<1>11. /\ x \in View /\ x.detail = view.detail /\ x.token = view.token
       /\ x.draft = view.draft /\ x.original = view.original
       /\ x.submitting = view.submitting /\ x.submitError = view.submitError
       /\ x.status.at <= Last /\ x.loadError
    BY <1>7, <1>8 DEF View
<1> HIDE DEF x
<1> QED BY <1>5, <1>8, <1>9, <1>10, <1>11


-------------------------------------------------------------------------------
(* The theorems.                                                           *)

(* The page opens in order.                                                *)
LEMMA ClientInit ==
    ASSUME Init
    PROVE  ClientInv
<1>1. PICK s \in {"busy", "NEEDS_REVIEW", "FAILED"} :
          moments = <<[status |-> s, version |-> 1,
                       data |-> IF s = "NEEDS_REVIEW" THEN 1 ELSE 0]>>
    BY DEF Init
<1> DEFINE m == [status |-> s, version |-> 1, data |-> IF s = "NEEDS_REVIEW" THEN 1 ELSE 0]
<1>2. m \in Moment /\ m.version = 1 /\ (m.status = "NEEDS_REVIEW" => m.data # 0)
    BY ClientAssumption DEF Moment, ServerStatus
<1> HIDE DEF m
<1>3. moments = <<m>> BY <1>1 DEF m
<1>4. moments \in Seq(Moment) /\ Len(moments) = 1 /\ moments[1] = m BY <1>2, <1>3
<1>5. HistoryFine(moments)
    <2>1. 1 \in 1 .. MaxMoments BY ClientAssumption
    <2>2. \A k \in 1 .. Len(moments) : k = 1 BY <1>4
    <2> HIDE <1>3
    <2> QED BY <1>2, <1>4, <2>1, <2>2 DEF HistoryFine
<1>6. Server = m /\ Last = 1 BY <1>4 DEF Server, Last
<1>7. /\ thread = [t \in Threads |-> IF t = "load" THEN Opened(1) ELSE NoThread]
      /\ owner = [status |-> "load", detail |-> "load"] /\ view = NewView
      /\ unheard = FALSE /\ visit = 1 /\ crossed = FALSE
      /\ replaced = FALSE /\ mishaps = 0
    BY DEF Init
<1>8. /\ Nothing \in Shown /\ Nothing.at = 0 /\ Nothing.is = "none"
      /\ 0 \in 0 .. MaxMoments /\ 1 \in 0 .. MaxMoments /\ 0 \in 0 .. MaxData
      /\ 0 \in 0 .. RetryLimit
    BY ClientAssumption DEF Nothing, Shown
<1>9. /\ view \in View /\ view.token = 0 /\ view.status = Nothing /\ view.detail = Nothing
      /\ ~view.submitting
    BY <1>7, <1>8 DEF NewView, View
<1>10. /\ Opened(1) \in Thread /\ Opened(1).pc = "pair" /\ Opened(1).since = 1
       /\ ~Opened(1).old
       /\ NoThread \in Thread /\ NoThread.pc = "idle" /\ ~NoThread.old
    BY <1>8, OpenedType, NoThreadType
<1>11. /\ thread \in [Threads -> Thread] /\ thread["load"] = Opened(1)
       /\ \A t \in Threads : t # "load" => thread[t] = NoThread
       /\ thread["submit"] = NoThread /\ thread["retry"] = NoThread
       /\ thread["poll"] = NoThread /\ thread["refresh"] = NoThread
    BY <1>7, <1>10 DEF Threads
<1>12. ClientTypeOK
    <2>1. owner \in [status : Threads \cup {"none"}, detail : Threads \cup {"none"}]
        BY <1>7 DEF Threads
    <2>2. visit \in -MaxVisits .. MaxVisits /\ mishaps \in 0 .. MaxMishaps
        BY <1>7, ClientAssumption
    <2>3. Len(moments) \in 1 .. MaxMoments BY <1>4, ClientAssumption
    <2> QED BY <1>4, <1>7, <1>9, <1>11, <2>1, <2>2, <2>3 DEF ClientTypeOK
<1>13. ThreadsOK
    <2> SUFFICES ASSUME NEW t \in Threads PROVE ThreadOK(t) BY DEF ThreadsOK
    <2>1. CASE t = "load"
        BY <1>6, <1>8, <1>9, <1>10, <1>11, <2>1 DEF ThreadOK, Asking
    <2>2. CASE t # "load" BY <1>10, <1>11, <2>2 DEF ThreadOK, Asking
    <2> QED BY <2>1, <2>2
<1>14. SubmitOK BY <1>10, <1>11 DEF SubmitOK, Posting
<1>15. PageOK BY <1>2, <1>6, <1>7, <1>8, <1>9, ClientAssumption DEF PageOK
<1>16. FormFits BY <1>9, <1>10, <1>11 DEF FormFits, TokenFits, PostFits, AnswerFits
<1>17. NotLost
    <2>1. Visiting BY <1>7 DEF Visiting
    <2> QED BY <1>8, <1>9, <1>10, <1>11, <2>1 DEF NotLost
<1> QED BY <1>5, <1>12, <1>13, <1>14, <1>15, <1>16, <1>17 DEF ClientInv, HistoryOK

(* Every step keeps the page in order.                                     *)
LEMMA ClientStep ==
    ASSUME ClientInv, [Next]_vars
    PROVE  ClientInv'
<1>1. CASE Process \/ Vanish \/ OtherTab BY <1>1, WorldStep
<1>2. CASE Tick BY <1>2, TickStep
<1>3. CASE Edit BY <1>3, EditStep
<1>4. CASE Submit BY <1>4, SubmitStep
<1>5. CASE Retry BY <1>5, RetryStep
<1>6. CASE Reload BY <1>6, ReloadStep
<1>7. CASE Leave BY <1>7, LeaveStep
<1>8. CASE Return BY <1>8, ReturnStep
<1>9. CASE ServerReviews BY <1>9, ServerReviewsStep
<1>10. CASE ServerRetries BY <1>10, ServerRetriesStep
<1>11. CASE PairAnswered BY <1>11, PairAnsweredStep
<1>12. CASE PairFails BY <1>12, PairFailsStep
<1>13. CASE SubmitAnswered BY <1>13, SubmitAnsweredStep
<1>14. CASE RetryAnswered BY <1>14, RetryAnsweredStep
<1>15. CASE \E t \in Pollers : StatusAnswered(t) \/ StatusFails(t)
    BY <1>15, StatusAnsweredStep, StatusFailsStep
<1>16. CASE \E t \in Loaders : DetailAnswered(t) \/ DetailFails(t)
    BY <1>16, DetailAnsweredStep, DetailFailsStep
<1>17. CASE UNCHANGED vars
    BY <1>17 DEF vars, ClientInv, ClientTypeOK, HistoryOK, ThreadsOK, ThreadOK, SubmitOK,
                 Posting, PageOK, FormFits, TokenFits, PostFits, AnswerFits, Shows,
                 NotLost, Served, Visiting, Server, Last
<1> QED
    BY <1>1, <1>2, <1>3, <1>4, <1>5, <1>6, <1>7, <1>8, <1>9, <1>10, <1>11, <1>12, <1>13,
       <1>14, <1>15, <1>16, <1>17
    DEF Next

(* The page is always in order.                                            *)
LEMMA ClientInvariant == Spec => []ClientInv
<1>1. Init => ClientInv BY ClientInit
<1>2. ClientInv /\ [Next]_vars => ClientInv' BY ClientStep
<1> QED BY <1>1, <1>2, PTL DEF Spec

(* The page's state has its types: what it shows, what it has asked for    *)
(* and who may still answer; and it holds a token only of an invoice it    *)
(* shows in review.                                                        *)
THEOREM ClientTypes == Spec => []ClientTypeOK
<1>1. ClientInv => ClientTypeOK BY DEF ClientInv
<1> QED BY <1>1, ClientInvariant, PTL

(* A correction the server is about to accept was confirmed against the    *)
(* data it replaces, however refreshes, reloads after errors, other tabs   *)
(* and the row's own progress overlapped, unless a submission outlived a   *)
(* visit or a reload replaced the draft under it.                          *)
THEOREM ChangesAreConfirmed == Spec => []ConfirmedAgainstServer
<1>1. ClientInv => ConfirmedAgainstServer
    BY DEF ClientInv, FormFits, PostFits, ConfirmedAgainstServer, Accepts
<1> QED BY <1>1, ClientInvariant, PTL

(* With nothing under way, the page shows a consistent invoice with its    *)
(* token, or polls, or tells the user.                                     *)
THEOREM NoDeadEndIsSilent == Spec => []NoSilentDeadEnd
<1>1. ASSUME ClientInv PROVE NoSilentDeadEnd
    <2>1. SUFFICES ASSUME Visiting, ~crossed, \A t \in Threads : thread[t].pc = "idle",
                          ~view.notFound, ~view.loadError, ~view.submitError, ~ShouldPoll
                   PROVE  /\ view.status.is = view.detail.is
                          /\ view.detail.is = "NEEDS_REVIEW" => view.token # 0
                          /\ ~view.submitting
        BY DEF NoSilentDeadEnd
    <2>2. NotLost BY <1>1 DEF ClientInv
    <2>3. \A t \in Threads : thread[t].pc # "detail" BY <2>1
    <2>4. view.detail.is = "NEEDS_REVIEW" => view.token # 0 BY <2>1, <2>2 DEF NotLost
    <2>5. ~view.submitting BY <2>1, <2>2 DEF NotLost, Threads
    <2>6. /\ view.status.is # "none"
          /\ view.detail.is = "none" \/ view.detail.is = view.status.is
        BY <2>1 DEF ShouldPoll
    <2>7. view.detail.is # "none" BY <2>1, <2>2, <2>3, <2>6 DEF NotLost, Served
    <2> QED BY <2>4, <2>5, <2>6, <2>7
<1>2. ClientInv => NoSilentDeadEnd BY <1>1
<1> QED BY <1>2, ClientInvariant, PTL


(* What a step within a visit does to the view: nothing earlier is shown,  *)
(* and changes of the user's are replaced by the user or on demand.        *)
Onward ==
    /\ view'.status.at >= view.status.at /\ view'.detail.at >= view.detail.at
    /\ view.draft # view.original /\ view'.draft # view.draft =>
           \/ Edit
           \/ thread'["load"] # thread["load"]
           \/ thread'["submit"] # thread["submit"]

(* A step that keeps what is shown and the draft goes onward.              *)
LEMMA StillOnward ==
    ASSUME ClientInv, view'.status = view.status, view'.detail = view.detail,
           view'.draft = view.draft \/ Edit
    PROVE  Onward
<1>1. view.status.at \in Nat /\ view.detail.at \in Nat BY ViewTypes DEF ClientInv
<1> QED BY <1>1 DEF Onward

(* The steps of the server and of the user go onward.                      *)
LEMMA UserOnward ==
    ASSUME ClientInv,
           \/ Process \/ Vanish \/ OtherTab \/ Tick \/ Edit \/ Submit \/ Retry \/ Reload
           \/ Return \/ ServerReviews \/ ServerRetries \/ RetryAnswered
    PROVE  Onward
<1>1. view \in View BY ViewTypes DEF ClientInv
<1>2. ASSUME NEW v \in View, v.status = view.status, v.detail = view.detail,
             v.draft = view.draft, view' = Tried(v)
      PROVE  Onward
    <2>1. view'.status = view.status /\ view'.detail = view.detail /\ view'.draft = view.draft
        BY <1>2 DEF Tried, View
    <2> QED BY <2>1, StillOnward
<1>3. CASE view' = view BY <1>3, StillOnward
<1>4. CASE Tick BY <1>1, <1>2, <1>4 DEF Tick
<1>5. CASE Edit
    <2>1. view'.status = view.status /\ view'.detail = view.detail
        BY <1>1, <1>5 DEF Edit, View
    <2> QED BY <1>5, <2>1, StillOnward
<1>6. CASE Submit
    <2>1. view'.status = view.status /\ view'.detail = view.detail /\ view'.draft = view.draft
        BY <1>1, <1>6 DEF Submit, View
    <2> QED BY <2>1, StillOnward
<1>7. CASE RetryAnswered
    <2> DEFINE v == [view EXCEPT !.override = TRUE, !.tries = 0, !.retryGaveUp = FALSE]
    <2>1. view' = Tried(v) \/ view' = view BY <1>7 DEF RetryAnswered
    <2>2. 0 \in 0 .. RetryLimit BY ClientAssumption
    <2>3. v \in View /\ v.status = view.status /\ v.detail = view.detail /\ v.draft = view.draft
        BY <1>1, <2>2 DEF View
    <2> HIDE DEF v
    <2> QED BY <1>2, <1>3, <2>1, <2>3
<1>8. CASE Process \/ Vanish \/ OtherTab \/ Retry \/ Reload \/ Return \/ ServerReviews
           \/ ServerRetries
    <2>1. view' = view
        BY <1>8 DEF Process, Vanish, OtherTab, Client, Retry, Reload, Environment, Return,
                    ServerReviews, ServerRetries
    <2> QED BY <1>3, <2>1
<1> QED BY <1>4, <1>5, <1>6, <1>7, <1>8

(* So do the answers to requests for the status, and their failures.       *)
LEMMA StatusOnward ==
    ASSUME ClientInv, NEW t \in Pollers, StatusAnswered(t) \/ StatusFails(t)
    PROVE  Onward
<1>1. view \in View /\ t \in Threads /\ t \in {"poll", "refresh"}
      /\ view.status.at \in Nat /\ view.detail.at \in Nat
    BY ViewTypes DEF ClientInv, Pollers, Threads
<1>2. ASSUME NEW v \in View, v.detail = view.detail, v.draft = view.draft,
             view' = v \/ view' = GiveUp(t, v),
             v.status = view.status \/ v.status.at >= view.status.at
      PROVE  Onward
    <2>1. Alike(v, v) /\ Alike(v, GiveUp(t, v))
        BY <1>1, FinallyAlike DEF Alike
    <2>2. view'.status = v.status /\ view'.detail = view.detail /\ view'.draft = view.draft
        BY <1>2, <2>1 DEF Alike
    <2> QED BY <1>1, <1>2, <2>2 DEF Onward
<1>3. CASE StatusFails(t)
    <2> DEFINE v == [view EXCEPT !.loadError = TRUE]
    <2>1. v \in View /\ v.detail = view.detail /\ v.draft = view.draft /\ v.status = view.status
        BY <1>1 DEF View
    <2>2. view' = GiveUp(t, v) BY <1>3 DEF StatusFails
    <2> HIDE DEF v
    <2> QED BY <1>2, <2>1, <2>2
<1>4. CASE StatusAnswered(t)
    <2>1. thread[t].pc = "status" BY <1>4 DEF StatusAnswered
    <2>2. PICK k \in Answers(t) :
             \/ view' = view
             \/ view' = GiveUp(t, [view EXCEPT !.notFound = TRUE])
             \/ /\ owner.status = t
                /\ view' = StatusOf(t, k) \/ view' = GiveUp(t, StatusOf(t, k))
        BY <1>4 DEF StatusAnswered, Current
    <2>3. CASE view' = view BY <1>1, <1>2, <2>3
    <2>4. CASE view' = GiveUp(t, [view EXCEPT !.notFound = TRUE])
        <3> DEFINE v == [view EXCEPT !.notFound = TRUE]
        <3>1. v \in View /\ v.detail = view.detail /\ v.draft = view.draft
              /\ v.status = view.status
            BY <1>1 DEF View
        <3>2. view' = GiveUp(t, v) BY <2>4
        <3> HIDE DEF v
        <3> QED BY <1>2, <3>1, <3>2
    <2>5. CASE /\ owner.status = t
               /\ view' = StatusOf(t, k) \/ view' = GiveUp(t, StatusOf(t, k))
        <3> DEFINE v == StatusOf(t, k)
        <3>1. ShownAt(k) \in Shown /\ ShownAt(k).at = k /\ view.status.at <= k /\ k \in Nat
            BY <1>1, <2>1, <2>5, AnswerOfNow DEF Asking
        <3>2. v \in View /\ v.detail = view.detail /\ v.draft = view.draft
              /\ v.status = ShownAt(k)
            BY <1>1, <3>1, StatusOfShows
        <3>3. v.status.at >= view.status.at BY <1>1, <3>1, <3>2
        <3>4. view' = v \/ view' = GiveUp(t, v) BY <2>5
        <3> HIDE DEF v
        <3> QED BY <1>2, <3>2, <3>3, <3>4
    <2> QED BY <2>2, <2>3, <2>4, <2>5
<1> QED BY <1>3, <1>4

(* So do the answers to requests for the detail, and their failures.       *)
LEMMA DetailOnward ==
    ASSUME ClientInv, NEW t \in Loaders, DetailAnswered(t) \/ DetailFails(t)
    PROVE  Onward
<1>1. /\ view \in View /\ t \in Threads /\ thread[t].pc = "detail" /\ End(t)
      /\ view.status.at \in Nat /\ view.detail.at \in Nat
      /\ ThreadOK(t) /\ thread[t] \in Thread /\ "submit" \in Threads
    BY ViewTypes, ThreadTypes
    DEF ClientInv, Loaders, Threads, DetailAnswered, DetailFails, ThreadsOK
<1>2. ASSUME NEW v \in View, v.status = view.status, v.detail = view.detail,
             v.draft = view.draft, view' = v \/ view' = Finally(t, v)
      PROVE  Onward
    <2>1. view'.status = view.status /\ view'.detail = view.detail /\ view'.draft = view.draft
        BY <1>1, <1>2, FinallyAlike DEF Alike
    <2> QED BY <2>1, StillOnward
<1>3. CASE DetailFails(t)
    <2> DEFINE v == [view EXCEPT !.loadError = TRUE]
    <2>1. v \in View /\ v.detail = view.detail /\ v.draft = view.draft /\ v.status = view.status
        BY <1>1 DEF View
    <2>2. view' = Finally(t, v) BY <1>3 DEF DetailFails
    <2> HIDE DEF v
    <2> QED BY <1>2, <2>1, <2>2
<1>4. CASE DetailAnswered(t)
    <2>1. PICK k \in Answers(t) :
             \/ view' \in {view, Finally(t, view)}
             \/ view' = Finally(t, [view EXCEPT !.notFound = TRUE])
             \/ /\ owner.detail = t
                /\ view' = Finally(t, WithDetail([view EXCEPT !.loadError = FALSE], k,
                                                 thread[t].replace))
        BY <1>4 DEF DetailAnswered
    <2>2. CASE view' \in {view, Finally(t, view)} BY <1>1, <1>2, <2>2
    <2>3. CASE view' = Finally(t, [view EXCEPT !.notFound = TRUE])
        <3> DEFINE v == [view EXCEPT !.notFound = TRUE]
        <3>1. v \in View /\ v.detail = view.detail /\ v.draft = view.draft
              /\ v.status = view.status
            BY <1>1 DEF View
        <3>2. view' = Finally(t, v) BY <2>3
        <3> HIDE DEF v
        <3> QED BY <1>2, <3>1, <3>2
    <2>4. CASE /\ owner.detail = t
               /\ view' = Finally(t, WithDetail([view EXCEPT !.loadError = FALSE], k,
                                                thread[t].replace))
        <3> DEFINE v == [view EXCEPT !.loadError = FALSE]
                   w == WithDetail(v, k, thread[t].replace)
        <3>1. v \in View /\ v.draft = view.draft /\ v.original = view.original
              /\ v.status = view.status
            BY <1>1 DEF View
        <3>2. view' = Finally(t, w) BY <2>4
        <3>3. k \in 1 .. Last /\ k \in Nat /\ ShownAt(k).at = k /\ view.detail.at <= k
            BY <1>1, <2>4, AnswerOfNow DEF Asking
        <3>4. thread[t].replace \in BOOLEAN BY <1>1 DEF Thread
        <3> HIDE DEF v
        <3>5. /\ w \in View /\ w.detail = ShownAt(k) /\ w.status = v.status
              /\ w.draft # v.draft => thread[t].replace \/ v.draft = v.original
            BY <3>1, <3>3, <3>4, WithDetailShows DEF ClientInv
        <3> HIDE DEF w
        <3>6. /\ view'.status = view.status /\ view'.detail = ShownAt(k)
              /\ view'.draft = w.draft
            BY <1>1, <3>1, <3>2, <3>5, FinallyAlike DEF Alike
        <3>7. thread[t].replace => thread'["submit"] # thread["submit"]
            <4>1. thread[t].replace => t = "submit" BY <1>1 DEF ThreadOK
            <4>2. ClientTypeOK BY DEF ClientInv
            <4>3. thread'[t].pc = "idle" BY <1>1, <4>2, NoThreadType, SetThread DEF End
            <4> QED BY <1>1, <4>1, <4>3
        <3> QED BY <1>1, <3>1, <3>3, <3>5, <3>6, <3>7 DEF Onward
    <2> QED BY <2>1, <2>2, <2>3, <2>4
<1> QED BY <1>3, <1>4

(* So do the answers to a reload, and its failures: they change its thread *)
(* and may replace the draft.                                              *)
LEMMA PairOnward ==
    ASSUME ClientInv, PairAnswered \/ PairFails
    PROVE  Onward
<1>1. /\ view \in View /\ "load" \in Threads /\ thread["load"].pc = "pair"
      /\ view.status.at \in Nat /\ view.detail.at \in Nat /\ ClientTypeOK
    BY ViewTypes DEF ClientInv, Threads, PairAnswered, PairFails
<1>2. thread'["load"] # thread["load"]
    <2>1. End("load") \/ Set("load", Loading("load", FALSE))
        BY DEF PairAnswered, PairFails
    <2>2. thread'["load"].pc \in {"idle", "detail"}
        BY <1>1, <2>1, NoThreadType, LoadingType, SetThread DEF End
    <2> QED BY <1>1, <2>2
<1>3. CASE view' = view BY <1>3, StillOnward
<1>4. ASSUME owner.status = "load", owner.detail = "load", NEW k \in Answers("load"),
             NEW l \in Answers("load"), NEW v \in View, v.detail = view.detail,
             v.status = view.status \/ v.status = ShownAt(k),
             view' = v \/ view' = WithDetail(v, l, TRUE)
      PROVE  Onward
    <2>1. /\ k \in 1 .. Last /\ k \in Nat /\ ShownAt(k).at = k /\ view.status.at <= k
          /\ l \in 1 .. Last /\ l \in Nat /\ ShownAt(l).at = l /\ view.detail.at <= l
        BY <1>1, <1>4, AnswerOfNow DEF Asking
    <2>2. /\ WithDetail(v, l, TRUE).status = v.status
          /\ WithDetail(v, l, TRUE).detail = ShownAt(l)
        BY <1>4, <2>1, WithDetailShows DEF ClientInv
    <2>3. view'.status = v.status /\ view'.detail \in {view.detail, ShownAt(l)}
        BY <1>4, <2>2
    <2> QED BY <1>1, <1>2, <1>4, <2>1, <2>3 DEF Onward
<1>5. ASSUME NEW k, NEW v \in View, ShownAt(k) \in Shown
      PROVE  /\ [v EXCEPT !.status = ShownAt(k)] \in View
             /\ [v EXCEPT !.status = ShownAt(k)].status = ShownAt(k)
             /\ [v EXCEPT !.status = ShownAt(k)].detail = v.detail
    BY <1>5 DEF View
<1>6. CASE PairAnswered /\ view' # view
    <2>1. PICK k \in Answers("load"), l \in Answers("load") :
              LET v == [view EXCEPT !.notFound = NotFound(k) \/ NotFound(l),
                                    !.loadError = FALSE]
                  w == IF NotFound(k) THEN v ELSE [v EXCEPT !.status = ShownAt(k)]
              IN  /\ owner.status = "load" /\ owner.detail = "load"
                  /\ view' = IF NotFound(l) THEN w ELSE WithDetail(w, l, TRUE)
        BY <1>6 DEF PairAnswered, Current
    <2> DEFINE v == [view EXCEPT !.notFound = NotFound(k) \/ NotFound(l),
                                 !.loadError = FALSE]
               w == IF NotFound(k) THEN v ELSE [v EXCEPT !.status = ShownAt(k)]
    <2>2. view' = w \/ view' = WithDetail(w, l, TRUE) BY <2>1
    <2>3. ShownAt(k) \in Shown BY <1>1, <2>1, AnswerOfNow DEF Asking
    <2>4. v \in View /\ v.status = view.status /\ v.detail = view.detail
        <3>1. (NotFound(k) \/ NotFound(l)) \in BOOLEAN OBVIOUS
        <3> QED BY <1>1, <3>1 DEF View
    <2> HIDE DEF v
    <2>5. w \in View /\ w.detail = view.detail
          /\ (w.status = view.status \/ w.status = ShownAt(k))
        BY <1>5, <2>3, <2>4
    <2> HIDE DEF w
    <2> QED BY <1>4, <2>1, <2>2, <2>5
<1>7. CASE PairFails
    <2>1. owner.status = "load" /\ owner.detail = "load" BY <1>7 DEF PairFails, Current
    <2>2. PICK k \in Answers("load") :
              LET v == [view EXCEPT !.loadError = TRUE, !.notFound = NotFound(k)]
              IN  view' \in {[view EXCEPT !.loadError = TRUE, !.notFound = FALSE],
                             IF NotFound(k) THEN v ELSE [v EXCEPT !.status = ShownAt(k)],
                             IF NotFound(k) THEN v ELSE WithDetail(v, k, TRUE)}
        BY <1>7 DEF PairFails
    <2> DEFINE v == [view EXCEPT !.loadError = TRUE, !.notFound = NotFound(k)]
               f == [view EXCEPT !.loadError = TRUE, !.notFound = FALSE]
               x == [v EXCEPT !.status = ShownAt(k)]
    <2>3. view' \in {f, v, x, WithDetail(v, k, TRUE)} BY <2>2
    <2>4. ShownAt(k) \in Shown BY <1>1, <2>1, AnswerOfNow DEF Asking
    <2>5. v \in View /\ v.status = view.status /\ v.detail = view.detail
        <3>1. NotFound(k) \in BOOLEAN BY DEF NotFound
        <3> QED BY <1>1, <3>1 DEF View
    <2>6. f \in View /\ f.status = view.status /\ f.detail = view.detail BY <1>1 DEF View
    <2> HIDE DEF v, f
    <2>7. x \in View /\ x.status = ShownAt(k) /\ x.detail = view.detail
        BY <1>5, <2>4, <2>5
    <2> HIDE DEF x
    <2> QED BY <1>4, <2>1, <2>3, <2>5, <2>6, <2>7
<1> QED BY <1>3, <1>6, <1>7

(* The answer to a submission keeps the draft.                             *)
LEMMA SubmitAnsweredKeeps ==
    ASSUME ClientInv, SubmitAnswered
    PROVE  view'.draft = view.draft
<1>1. view \in View BY ViewTypes DEF ClientInv
<1> QED BY <1>1 DEF SubmitAnswered, Submitted, View

(* Within a visit every step but the answer to a submission goes onward,   *)
(* and that one keeps the draft.                                           *)
LEMMA NextOnward ==
    ASSUME ClientInv, Next, visit' = visit
    PROVE  \/ Onward
           \/ SubmitAnswered /\ view'.draft = view.draft
<1>1. ~Leave
    <2>1. ClientTypeOK BY DEF ClientInv
    <2>2. visit \in Int BY <2>1, ClientAssumption DEF ClientTypeOK
    <2> SUFFICES ASSUME Leave PROVE FALSE OBVIOUS
    <2>3. visit > 0 /\ visit' = -visit BY DEF Leave, Visiting
    <2> QED BY <2>2, <2>3
<1>2. \/ Onward \/ SubmitAnswered \/ PairAnswered \/ PairFails
      \/ \E t \in Pollers : StatusAnswered(t) \/ StatusFails(t)
      \/ \E t \in Loaders : DetailAnswered(t) \/ DetailFails(t)
    BY <1>1, UserOnward DEF Next
<1> QED BY <1>2, SubmitAnsweredKeeps, PairOnward, StatusOnward, DetailOnward

(* No answer takes the page back to an earlier state of the row than it    *)
(* shows, however many requests overlap.                                   *)
THEOREM PageGoesForward == Spec => NeverGoesBack
<1>1. ASSUME ClientInv, [Next]_vars
      PROVE  [ (visit' = visit /\ ~SubmitAnswered)
                   => /\ view'.status.at >= view.status.at
                      /\ view'.detail.at >= view.detail.at ]_vars
    <2>1. CASE UNCHANGED vars BY <2>1
    <2>2. CASE Next BY <1>1, <2>2, NextOnward DEF Onward
    <2> QED BY <1>1, <2>1, <2>2
<1>2. ClientInv /\ [Next]_vars =>
          [ (visit' = visit /\ ~SubmitAnswered)
                   => /\ view'.status.at >= view.status.at
                      /\ view'.detail.at >= view.detail.at ]_vars
    BY <1>1
<1> QED BY <1>2, ClientInvariant, PTL DEF Spec, NeverGoesBack

(* What the user has typed is replaced only by the user, by a reload after *)
(* an error, or after a submission: never by the timer or by a retry.      *)
THEOREM TypingIsKept == Spec => EditsSurvive
<1>1. ASSUME ClientInv, [Next]_vars
      PROVE  [ (visit' = visit /\ view.draft # view.original /\ view'.draft # view.draft)
                   => \/ Edit
                      \/ thread'["load"] # thread["load"]
                      \/ thread'["submit"] # thread["submit"] ]_vars
    <2>1. CASE UNCHANGED vars BY <2>1
    <2>2. CASE Next BY <1>1, <2>2, NextOnward DEF Onward
    <2> QED BY <1>1, <2>1, <2>2
<1>2. ClientInv /\ [Next]_vars =>
          [ (visit' = visit /\ view.draft # view.original /\ view'.draft # view.draft)
                   => \/ Edit
                      \/ thread'["load"] # thread["load"]
                      \/ thread'["submit"] # thread["submit"] ]_vars
    BY <1>1
<1> QED BY <1>2, ClientInvariant, PTL DEF Spec, EditsSurvive
=============================================================================
