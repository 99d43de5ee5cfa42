---------------------------- MODULE ExtractionProofs ----------------------------
(***************************************************************************)
(* What the two extraction stages satisfy for every PDF, every number of   *)
(* attempts, pages, crashes and provider identities.  The text stage needs *)
(* to know what its thread has still to say; the data stage what its       *)
(* records say of the answer it is about to accept.                        *)
(***************************************************************************)
EXTENDS Extraction, SequenceTheorems, WellFoundedInduction, TLAPS

Event == Answer \cup {"exit"}

(* Outside the native step there is no thread and nothing heard of one.    *)
NativeAtRest ==
    /\ pc # "native" => thread = "none" /\ events = <<>> /\ ~settled /\ answer = "none"
    /\ pc # "ocr" => command = "none" /\ seen = <<>>
    /\ pc # "done" => status = "EXTRACTING_TEXT"

(* What the thread may still say: nothing before it answers, two things at *)
(* most after its answer; what it says is what the PDF deserves, or comes  *)
(* after trouble; and a thread that has spoken has been heard or will be.  *)
NativeKnows ==
    pc = "native" =>
        /\ thread # "none"
        /\ thread = "running" => events = <<>>
        /\ thread = "ending" => Len(events) <= 1
        /\ thread # "running" /\ ~settled => events # <<>>
        /\ \A i \in DOMAIN events : events[i] \in {pdf.parse, "retry", "exit"}
        /\ events # <<>> /\ ~settled /\ Head(events) \in {"retry", "exit"} =>
               attempt \in troubled
        /\ settled => answer \in {pdf.parse, "retry"}
        /\ settled /\ answer = "retry" => attempt \in troubled

Harmless(page) == page \notin {"huge", "damaged"}

(* OCR is for pages without text; those recognised are the first ones, and *)
(* no obstacle was among them or is being recognised.                      *)
OcrKnows ==
    pc = "ocr" =>
        /\ pdf.parse = "pages" /\ pdf.pages # <<>> /\ ~HasText
        /\ Len(seen) <= Len(pdf.pages)
        /\ \A i \in DOMAIN seen : seen[i] = pdf.pages[i] /\ Harmless(seen[i])
        /\ command = "none" <=> Len(seen) = Len(pdf.pages)
        /\ command = "tesseract" => Harmless(CurrentPage)

(* The inductive invariant of the text stage; sequences as such are easier *)
(* to reason about than functions on an interval.                          *)
TextIInv ==
    /\ JobTypeOK
    /\ pdf \in Pdf
    /\ pc \in {"waiting", "native", "ocr", "done"}
    /\ thread \in {"none", "running", "ending", "over"}
    /\ events \in Seq(Event) /\ Len(events) <= 3
    /\ settled \in BOOLEAN
    /\ answer \in Answer
    /\ command \in {"none", "pdftocairo", "tesseract"}
    /\ seen \in Seq(Page) /\ Len(seen) <= MaxPages
    /\ troubled \subseteq 1 .. Attempts
    /\ NativeAtRest /\ NativeKnows /\ OcrKnows

-------------------------------------------------------------------------------
(* Sequences of bounded length, as the type invariants write them.         *)

(* A short sequence is a function on a short interval,                     *)
LEMMA BoundedSeq ==
    ASSUME NEW S, NEW n \in Nat, NEW s \in Seq(S), Len(s) <= n
    PROVE  s \in UNION {[1 .. i -> S] : i \in 0 .. n}
<1>1. Len(s) \in 0 .. n /\ s \in [1 .. Len(s) -> S]
  BY LenProperties
<1> QED
  BY <1>1

(* and the other way round.                                                *)
LEMMA IntervalSeq ==
    ASSUME NEW S, NEW n \in Nat, NEW s \in UNION {[1 .. i -> S] : i \in 0 .. n}
    PROVE  s \in Seq(S) /\ Len(s) <= n
<1>1. PICK i \in 0 .. n : s \in [1 .. i -> S]
  OBVIOUS
<1>2. s \in Seq(S)
  BY <1>1, SeqDef
<1>3. Len(s) = i
  BY <1>1, <1>2, LenProperties
<1> QED
  BY <1>1, <1>2, <1>3

(* The pages of a PDF are a sequence, empty when it cannot be read.        *)
LEMMA PdfPages ==
    ASSUME NEW p \in Pdf
    PROVE  /\ p.parse \in Refusal \cup {"pages"}
           /\ p.pages \in Seq(Page) /\ Len(p.pages) <= MaxPages
           /\ p.parse # "pages" => p.pages = <<>>
<1>1. CASE p \in [parse : Refusal, pages : {<<>>}]
  <2>1. p.pages = <<>> /\ p.parse \in Refusal
    BY <1>1
  <2>2. p.pages \in Seq(Page) /\ Len(p.pages) = 0
    BY <2>1, EmptySeq
  <2> QED
    BY <2>1, <2>2, PagesAssumption
<1>2. CASE p \in [parse : {"pages"}, pages : UNION {[1 .. n -> Page] : n \in 0 .. MaxPages}]
  BY <1>2, PagesAssumption, IntervalSeq
<1> QED
  BY <1>1, <1>2 DEF Pdf

(* A job that has ended keeps a PDF without pages.                         *)
LEMMA NoPdfIsPdf == NoPdf \in Pdf
<1>1. <<>> \in UNION {[1 .. n -> Page] : n \in 0 .. MaxPages}
  BY EmptySeq, PagesAssumption, BoundedSeq
<1> QED
  BY <1>1 DEF NoPdf, Pdf

(* The inductive invariant implies the type invariant of the stage.        *)
LEMMA TextIInvTypes == TextIInv => TextTypeOK
<1> SUFFICES ASSUME TextIInv PROVE TextTypeOK
  OBVIOUS
<1>1. events \in UNION {[1 .. n -> Answer \cup {"exit"}] : n \in 0 .. 3}
  BY BoundedSeq DEF TextIInv, Event
<1>2. seen \in UNION {[1 .. n -> Page] : n \in 0 .. MaxPages}
  BY BoundedSeq, PagesAssumption DEF TextIInv
<1> QED
  BY <1>1, <1>2 DEF TextIInv, TextTypeOK

-------------------------------------------------------------------------------
(* The job.                                                                *)

(* Whatever an attempt comes to, the job stays well-typed.                 *)
LEMMA FailTypes ==
    ASSUME JobTypeOK, status # "FAILED", NEW c \in FailureCode, Fail(c)
    PROVE  JobTypeOK'
BY DEF JobTypeOK, Fail, WorkStatus, FailureCode

(* The row goes on to a status after text extraction.                      *)
LEMMA AdvanceTypes ==
    ASSUME JobTypeOK, status # "FAILED",
           NEW s \in {"EXTRACTING_DATA", "DATA_READY"}, Advance(s)
    PROVE  JobTypeOK'
BY JobAssumption DEF JobTypeOK, Advance, WorkStatus, FailureCode

(* Another attempt is one of those that the job has.                       *)
LEMMA TryAgainTypes ==
    ASSUME JobTypeOK, status # "FAILED", NEW c \in FailureCode, TryAgain(c)
    PROVE  JobTypeOK'
<1>1. CASE attempt < Attempts
  BY <1>1, JobAssumption DEF TryAgain, JobTypeOK
<1>2. CASE ~(attempt < Attempts)
  BY <1>2, FailTypes DEF TryAgain
<1> QED
  BY <1>1, <1>2

-------------------------------------------------------------------------------
(* The text stage.                                                         *)

(* After a reset nothing is left to know.                                  *)
LEMMA ResetKeeps ==
    ASSUME TextIInv, JobTypeOK', NEW at \in {"waiting", "done"}, Reset(at),
           at = "waiting" => status' = "EXTRACTING_TEXT",
           troubled' \subseteq 1 .. Attempts
    PROVE  TextIInv'
<1>1. pdf' \in Pdf
  BY NoPdfIsPdf DEF Reset, TextIInv
<1>2. events' \in Seq(Event) /\ Len(events') <= 3 /\ seen' \in Seq(Page) /\ Len(seen') <= MaxPages
  BY EmptySeq, PagesAssumption DEF Reset
<1> QED
  BY <1>1, <1>2 DEF Reset, TextIInv, NativeAtRest, NativeKnows, OcrKnows, Answer

(* A verdict ends the stage,                                               *)
LEMMA ConcludeKeeps ==
    ASSUME TextIInv, status = "EXTRACTING_TEXT", NEW verdict \in FailureCode \cup {"ready"}, Conclude(verdict)
    PROVE  TextIInv'
<1>1. JobTypeOK'
  BY FailTypes, AdvanceTypes DEF Conclude, TextIInv
<1> QED
  BY <1>1, ResetKeeps DEF Conclude

(* and an error the attempt.                                               *)
LEMMA ThrowKeeps ==
    ASSUME TextIInv, status = "EXTRACTING_TEXT", Throw,
           troubled' \subseteq 1 .. Attempts
    PROVE  TextIInv'
<1>1. JobTypeOK'
  BY TryAgainTypes DEF Throw, TextIInv, FailureCode
<1>2. attempt < Attempts => status' = "EXTRACTING_TEXT"
  BY DEF Throw, TryAgain
<1>3. CASE attempt < Attempts
  <2>1. Reset("waiting")
    BY <1>3 DEF Throw
  <2> QED
    BY <1>1, <1>2, <1>3, <2>1, ResetKeeps
<1>4. CASE ~(attempt < Attempts)
  <2>1. Reset("done")
    BY <1>4 DEF Throw
  <2> QED
    BY <1>1, <2>1, ResetKeeps
<1> QED
  BY <1>3, <1>4

(* An attempt that is interfered with is one of the attempts.              *)
LEMMA TroubleTypes ==
    ASSUME TextIInv, Trouble
    PROVE  troubled' \subseteq 1 .. Attempts /\ attempt \in troubled'
BY DEF Trouble, TextIInv, JobTypeOK

(* The start of an attempt.                                                *)
LEMMA StartTextKeeps == ASSUME TextIInv, StartText PROVE TextIInv'
<1>1. CASE live /\ Throw
  BY <1>1, ThrowKeeps, TroubleTypes DEF StartText, Working, TextIInv
<1>2. CASE ~live
  BY <1>2, ResetKeeps DEF StartText, Working, TextIInv, jobVars, JobTypeOK
<1>3. CASE live /\ pc' = "native"
  <2>1. pc = "waiting" /\ status = "EXTRACTING_TEXT" /\ pc' = "native" /\ thread' = "running"
        /\ UNCHANGED <<jobVars, pdf, events, settled, answer, command, seen, troubled>>
    BY <1>3 DEF StartText, Working, Throw, Reset
  <2> QED
    BY <2>1, EmptySeq
       DEF jobVars, TextIInv, JobTypeOK, NativeAtRest, NativeKnows, OcrKnows, HasText, CurrentPage
<1> QED
  BY <1>1, <1>2, <1>3 DEF StartText

(* The thread speaks: nothing else changes.                                *)
LEMMA RaiseKeeps ==
    ASSUME TextIInv, Working("native"), NEW es \in Seq(Event), NEW next, Raise(es, next),
           troubled \subseteq troubled', troubled' \subseteq 1 .. Attempts,
           next \in {"ending", "over"}, Len(events) + Len(es) <= 3,
           next = "ending" => Len(events) + Len(es) <= 1,
           ~settled => es # <<>>,
           \A i \in DOMAIN es : es[i] \in {pdf.parse, "retry", "exit"},
           ~settled /\ events = <<>> /\ Head(es) \in {"retry", "exit"} => attempt \in troubled'
    PROVE  TextIInv'
<1>1. /\ events' \in Seq(Event)
      /\ Len(events') = Len(events) + Len(es)
      /\ \A i \in 1 .. Len(events) + Len(es) :
             events'[i] = IF i <= Len(events) THEN events[i] ELSE es[i - Len(events)]
  BY ConcatProperties DEF Raise, TextIInv
<1>2. Len(events) \in Nat /\ Len(es) \in Nat /\ DOMAIN es = 1 .. Len(es)
      /\ DOMAIN events = 1 .. Len(events) /\ DOMAIN events' = 1 .. Len(events')
  BY <1>1, LenProperties DEF TextIInv
<1>3. UNCHANGED <<status, code, attempt, live, crashes, pdf, pc, settled, answer, command, seen>>
      /\ thread' = next
  BY DEF Raise, jobVars
<1>4. \A i \in DOMAIN events' : events'[i] \in {pdf.parse, "retry", "exit"}
  <2>1. \A i \in 1 .. Len(events) : events[i] \in {pdf.parse, "retry", "exit"}
    BY <1>2 DEF NativeKnows, TextIInv, Working
  <2> SUFFICES ASSUME NEW i \in 1 .. Len(events) + Len(es)
               PROVE  events'[i] \in {pdf.parse, "retry", "exit"}
    BY <1>1, <1>2
  <2>2. CASE i <= Len(events)
    BY <1>1, <1>2, <2>1, <2>2
  <2>3. CASE ~(i <= Len(events))
    <3>1. i - Len(events) \in DOMAIN es
      BY <1>2, <2>3
    <3> QED
      BY <1>1, <2>3, <3>1
  <2> QED
    BY <2>2, <2>3
<1>5. ~settled => events' # <<>>
  BY <1>1, <1>2, EmptySeq
<1>6. ~settled => Head(events') = IF events = <<>> THEN Head(es) ELSE Head(events)
  <2>1. CASE events = <<>>
    BY <2>1, <1>1, <1>2, EmptySeq
  <2>2. CASE events # <<>>
    BY <2>2, <1>1, <1>2, EmptySeq DEF TextIInv
  <2> QED
    BY <2>1, <2>2
<1>7. NativeKnows'
  BY <1>1, <1>2, <1>3, <1>4, <1>5, <1>6 DEF NativeKnows, TextIInv, Working
<1>8. NativeAtRest' /\ OcrKnows'
  BY <1>3 DEF NativeAtRest, OcrKnows, TextIInv, Working
<1> QED
  BY <1>1, <1>2, <1>3, <1>7, <1>8 DEF TextIInv, JobTypeOK

(* What a thread says is an event.                                         *)
LEMMA EventTypes ==
    ASSUME TextIInv
    PROVE  /\ {pdf.parse, "retry", "exit"} \subseteq Event
           /\ \A e \in Event : <<e>> \in Seq(Event) /\ Len(<<e>>) = 1 /\ <<e>>[1] = e
           /\ \A d, e \in Event : /\ <<d, e>> \in Seq(Event) /\ Len(<<d, e>>) = 2
                                  /\ <<d, e>>[1] = d /\ <<d, e>>[2] = e
           /\ events = <<>> => Len(events) = 0
BY PdfPages, EmptySeq DEF TextIInv, Event, Answer

(* The thread answers with what its PDF deserves.                          *)
LEMMA ThreadAnswersKeeps == ASSUME TextIInv, ThreadAnswers PROVE TextIInv'
<1>1. events = <<>> /\ Len(events) = 0 /\ UNCHANGED troubled
  BY EventTypes DEF ThreadAnswers, Working, TextIInv, NativeKnows
<1>2. CASE pdf.parse = "pdf_resource_limit"
  <2> DEFINE es == <<"pdf_resource_limit", "exit">>
  <2>1. Raise(es, "over")
    BY <1>2 DEF ThreadAnswers
  <2>2. es \in Seq(Event) /\ Len(es) = 2 /\ es # <<>> /\ Head(es) = "pdf_resource_limit"
        /\ \A i \in DOMAIN es : es[i] \in {pdf.parse, "retry", "exit"}
    BY <1>2, EventTypes
  <2> HIDE DEF es
  <2>3. Working("native") /\ troubled' = troubled /\ troubled \subseteq 1 .. Attempts
    BY <1>1 DEF ThreadAnswers, TextIInv
  <2>4. Head(es) \notin {"retry", "exit"}
    BY <2>2
  <2>5. Len(events) + Len(es) <= 3
    BY <1>1, <2>2
  <2> QED
    BY <2>1, <2>2, <2>3, <2>4, <2>5, RaiseKeeps
<1>3. CASE pdf.parse # "pdf_resource_limit"
  <2> DEFINE es == <<pdf.parse>>
  <2>1. Raise(es, "ending")
    BY <1>3 DEF ThreadAnswers
  <2>2. es \in Seq(Event) /\ Len(es) = 1 /\ es # <<>> /\ Head(es) = pdf.parse
        /\ \A i \in DOMAIN es : es[i] \in {pdf.parse, "retry", "exit"}
    BY EventTypes
  <2>3. pdf.parse \notin {"retry", "exit"}
    BY PdfPages DEF TextIInv, Refusal
  <2>4. Working("native") /\ troubled' = troubled /\ troubled \subseteq 1 .. Attempts
    BY <1>1 DEF ThreadAnswers, TextIInv
  <2> HIDE DEF es
  <2>5. Head(es) \notin {"retry", "exit"}
    BY <2>2, <2>3
  <2>6. Len(events) + Len(es) <= 1
    BY <1>1, <2>2
  <2>7. Len(events) + Len(es) <= 3
    BY <1>1, <2>2
  <2> QED
    BY <2>1, <2>2, <2>4, <2>5, <2>6, <2>7, RaiseKeeps
<1> QED
  BY <1>2, <1>3

(* A thread that exits, by itself or terminated.                           *)
LEMMA ExitKeeps ==
    ASSUME TextIInv, Working("native"), Raise(<<"exit">>, "over"), UNCHANGED troubled,
           thread = "ending" \/ (settled /\ thread # "over")
    PROVE  TextIInv'
<1> DEFINE es == <<"exit">>
<1>1. es \in Seq(Event) /\ Len(es) = 1 /\ es # <<>>
      /\ \A i \in DOMAIN es : es[i] \in {pdf.parse, "retry", "exit"}
  BY EventTypes
<1>2. Len(events) <= 1 /\ (~settled => events # <<>>)
  BY EventTypes DEF TextIInv, NativeKnows, Working
<1> HIDE DEF es
<1>3. Raise(es, "over")
  BY DEF es
<1>4. Len(events) \in Nat /\ troubled' = troubled /\ troubled \subseteq 1 .. Attempts
  BY LenProperties DEF TextIInv
<1>5. Len(events) + Len(es) <= 3
  BY <1>1, <1>2, <1>4
<1> QED
  BY <1>1, <1>2, <1>3, <1>4, <1>5, RaiseKeeps

(* The parser is destroyed and the thread exits.                           *)
LEMMA ThreadEndsKeeps == ASSUME TextIInv, ThreadEnds PROVE TextIInv'
BY ExitKeeps DEF ThreadEnds

(* A settled job has its thread terminated.                                *)
LEMMA TerminateKeeps == ASSUME TextIInv, Terminate PROVE TextIInv'
BY ExitKeeps DEF Terminate

(* What a thread has said when something goes wrong with it.               *)
LEMMA TroubleKeeps ==
    ASSUME TextIInv, Working("native"), thread \in {"running", "ending"},
           IF thread = "running" THEN Trouble ELSE UNCHANGED troubled,
           NEW es \in Seq(Event), NEW next \in {"ending", "over"}, Raise(es, next),
           Len(es) \in 1 .. 2, next = "ending" => thread = "running" /\ Len(es) = 1,
           \A i \in DOMAIN es : es[i] \in {pdf.parse, "retry", "exit"}
    PROVE  TextIInv'
<1>1. /\ thread = "running" => events = <<>>
      /\ thread = "ending" => Len(events) <= 1 /\ (~settled => events # <<>>)
  BY DEF TextIInv, NativeKnows, Working
<1>2. troubled \subseteq 1 .. Attempts
  BY DEF TextIInv
<1>3. /\ troubled \subseteq troubled' /\ troubled' \subseteq 1 .. Attempts
      /\ thread = "running" => attempt \in troubled'
  BY <1>2, TroubleTypes DEF Trouble
<1> DEFINE heard == Len(events)
           said == Len(es)
<1>4. /\ heard \in 0 .. 1 /\ (next = "ending" => heard = 0)
      /\ said \in 1 .. 2 /\ (next = "ending" => said = 1)
  <2>1. heard \in Nat
    BY LenProperties DEF TextIInv
  <2>2. thread = "running" => heard = 0
    BY <1>1, EventTypes
  <2>3. thread = "ending" => heard <= 1
    BY <1>1
  <2> HIDE DEF heard
  <2> QED
    BY <2>1, <2>2, <2>3
<1>5. heard + said <= 3 /\ (next = "ending" => heard + said <= 1)
  <2> HIDE DEF heard, said
  <2> QED
    BY <1>4
<1>6. ~settled /\ events = <<>> => attempt \in troubled'
  BY <1>1, <1>3
<1>7. es # <<>>
  BY EmptySeq
<1> QED
  BY <1>3, <1>5, <1>6, <1>7, RaiseKeeps

(* A thread that fails before its answer has been interfered with.         *)
LEMMA ThreadFailsKeeps == ASSUME TextIInv, ThreadFails PROVE TextIInv'
<1> DEFINE retry == <<"retry">>
           exit == <<"exit">>
           both == <<"retry", "exit">>
<1>1. /\ retry \in Seq(Event) /\ Len(retry) = 1
      /\ \A i \in DOMAIN retry : retry[i] \in {pdf.parse, "retry", "exit"}
  BY DEF Event, Answer
<1>2. /\ exit \in Seq(Event) /\ Len(exit) = 1
      /\ \A i \in DOMAIN exit : exit[i] \in {pdf.parse, "retry", "exit"}
  BY DEF Event, Answer
<1>3. /\ both \in Seq(Event) /\ Len(both) = 2
      /\ \A i \in DOMAIN both : both[i] \in {pdf.parse, "retry", "exit"}
  BY DEF Event, Answer
<1>4. Working("native") /\ thread \in {"running", "ending"}
      /\ IF thread = "running" THEN Trouble ELSE UNCHANGED troubled
  BY DEF ThreadFails
<1>5. \/ thread = "running" /\ Raise(retry, "ending")
      \/ thread = "running" /\ Raise(exit, "over")
      \/ Raise(both, "over")
  BY DEF ThreadFails
<1> HIDE DEF retry, exit, both
<1>6. CASE thread = "running" /\ Raise(retry, "ending")
  BY <1>1, <1>4, <1>6, TroubleKeeps
<1>7. CASE thread = "running" /\ Raise(exit, "over")
  BY <1>2, <1>4, <1>7, TroubleKeeps
<1>8. CASE Raise(both, "over")
  BY <1>3, <1>4, <1>8, TroubleKeeps
<1> QED
  BY <1>5, <1>6, <1>7, <1>8

(* The first event is the answer, the others are heard and forgotten.      *)
LEMMA ListenerKeeps == ASSUME TextIInv, Listener PROVE TextIInv'
<1>1. /\ Head(events) \in Event /\ events' \in Seq(Event)
      /\ Len(events') = Len(events) - 1
      /\ \A i \in 1 .. Len(events') : events'[i] = events[i + 1]
  BY HeadTailProperties DEF Listener, TextIInv
<1>2. Len(events) \in Nat /\ DOMAIN events = 1 .. Len(events)
      /\ DOMAIN events' = 1 .. Len(events') /\ Len(events') \in Nat
  BY <1>1, LenProperties DEF TextIInv
<1>3. Head(events) = events[1] /\ 1 \in DOMAIN events
  BY <1>1, <1>2, EmptySeq DEF Listener, TextIInv
<1>4. /\ UNCHANGED <<status, code, attempt, live, crashes, pdf, pc, thread, command, seen, troubled>>
      /\ settled' /\ settled' \in BOOLEAN /\ pc = "native" /\ thread # "running"
      /\ answer' = IF settled THEN answer ELSE IF Head(events) = "exit" THEN "retry" ELSE Head(events)
  BY DEF Listener, jobVars, Working, TextIInv, NativeKnows
<1>5. /\ answer' \in {pdf.parse, "retry"}
      /\ answer' = "retry" => attempt \in troubled
  BY <1>3, <1>4 DEF Listener, TextIInv, NativeKnows
<1>6. answer' \in Answer
  BY <1>5, PdfPages DEF TextIInv, Answer
<1>7. \A i \in DOMAIN events' : events'[i] \in {pdf.parse, "retry", "exit"}
  BY <1>1, <1>2, <1>4 DEF TextIInv, NativeKnows
<1>8. NativeKnows'
  BY <1>1, <1>2, <1>4, <1>5, <1>7 DEF TextIInv, NativeKnows
<1> QED
  BY <1>1, <1>2, <1>4, <1>6, <1>8 DEF TextIInv, JobTypeOK, NativeAtRest, OcrKnows

(* A timer that fires interferes with the attempt.                         *)
LEMMA NativeTimeoutKeeps == ASSUME TextIInv, NativeTimeout PROVE TextIInv'
<1>1. /\ UNCHANGED <<status, code, attempt, live, crashes, pdf, pc, thread, events, command, seen>>
      /\ settled' /\ settled' \in BOOLEAN /\ answer' = "retry" /\ pc = "native"
  BY DEF NativeTimeout, Undisturbed, Working, jobVars
<1> QED
  BY <1>1, TroubleTypes
     DEF NativeTimeout, TextIInv, JobTypeOK, NativeAtRest, NativeKnows, OcrKnows, Answer

(* The thread has gone: its answer ends the stage, or OCR begins.          *)
LEMMA NativeAnswersKeeps == ASSUME TextIInv, NativeAnswers PROVE TextIInv'
<1>1. status = "EXTRACTING_TEXT" /\ pc = "native" /\ settled
      /\ answer \in {pdf.parse, "retry"} /\ events = <<>>
  BY DEF NativeAnswers, Working, TextIInv, NativeKnows
<1>2. CASE answer = "retry"
  BY <1>1, <1>2, ThrowKeeps DEF NativeAnswers, TextIInv, Refusal
<1>3. CASE answer \in Refusal
  BY <1>1, <1>3, ConcludeKeeps DEF NativeAnswers, Refusal, FailureCode
<1>4. CASE answer = "pages" /\ pdf.pages = <<>>
  BY <1>1, <1>4, ConcludeKeeps DEF NativeAnswers, Refusal, FailureCode
<1>5. CASE answer = "pages" /\ pdf.pages # <<>> /\ HasText
  BY <1>1, <1>5, ConcludeKeeps DEF NativeAnswers, Refusal, FailureCode
<1>6. CASE answer = "pages" /\ pdf.pages # <<>> /\ ~HasText
  <2>1. /\ pc' = "ocr" /\ command' = "pdftocairo"
        /\ thread' = "none" /\ ~settled' /\ settled' \in BOOLEAN /\ answer' = "none"
        /\ UNCHANGED <<status, code, attempt, live, crashes, pdf, events, seen, troubled>>
    BY <1>6 DEF NativeAnswers, Refusal, jobVars
  <2>2. pdf.parse = "pages" /\ Len(pdf.pages) \in Nat \ {0} /\ seen = <<>> /\ Len(seen) = 0
        /\ DOMAIN seen = {}
    BY <1>1, <1>6, PdfPages, EmptySeq DEF TextIInv, NativeAtRest
  <2>3. OcrKnows'
    BY <1>6, <2>1, <2>2 DEF OcrKnows, HasText, Harmless
  <2> QED
    BY <1>1, <2>1, <2>3 DEF TextIInv, JobTypeOK, NativeAtRest, NativeKnows, Answer
<1> QED
  BY <1>1, <1>2, <1>3, <1>4, <1>5, <1>6, PdfPages DEF TextIInv

-------------------------------------------------------------------------------
(* OCR.                                                                    *)

(* The page at work exists as long as a command runs.                      *)
LEMMA OcrFacts ==
    ASSUME TextIInv, Working("ocr")
    PROVE  /\ pdf.pages \in Seq(Page) /\ Len(pdf.pages) \in Nat /\ Len(pdf.pages) <= MaxPages
           /\ DOMAIN pdf.pages = 1 .. Len(pdf.pages)
           /\ Len(seen) \in Nat /\ DOMAIN seen = 1 .. Len(seen)
           /\ Len(seen) <= Len(pdf.pages)
           /\ command # "none" => Len(seen) + 1 \in DOMAIN pdf.pages
           /\ \A i \in DOMAIN seen : seen[i] = pdf.pages[i] /\ Harmless(seen[i])
<1>1. pdf.pages \in Seq(Page) /\ Len(pdf.pages) <= MaxPages
  BY PdfPages DEF TextIInv
<1>2. Len(pdf.pages) \in Nat /\ DOMAIN pdf.pages = 1 .. Len(pdf.pages)
      /\ Len(seen) \in Nat /\ DOMAIN seen = 1 .. Len(seen)
  BY <1>1, LenProperties DEF TextIInv
<1>3. /\ Len(seen) <= Len(pdf.pages)
      /\ command # "none" => Len(seen) # Len(pdf.pages)
      /\ \A i \in DOMAIN seen : seen[i] = pdf.pages[i] /\ Harmless(seen[i])
  BY DEF TextIInv, OcrKnows, Working
<1> QED
  BY <1>1, <1>2, <1>3

(* A page is rendered only when it is no obstacle.                         *)
LEMMA RenderKeeps == ASSUME TextIInv, Render PROVE TextIInv'
<1>1. Working("ocr") /\ command = "pdftocairo" /\ status = "EXTRACTING_TEXT"
  BY DEF Render, Running, Working
<1>2. CASE Conclude("pdf_resource_limit") \/ Conclude("pdf_unreadable")
  BY <1>1, <1>2, ConcludeKeeps DEF FailureCode
<1>3. CASE /\ CurrentPage \notin {"huge", "damaged"} /\ command' = "tesseract"
           /\ UNCHANGED <<jobVars, pdf, pc, thread, events, settled, answer, seen, troubled>>
  BY <1>1, <1>3
     DEF jobVars, TextIInv, JobTypeOK, NativeAtRest, NativeKnows, OcrKnows, HasText,
         CurrentPage, Harmless, Working
<1> QED
  BY <1>2, <1>3 DEF Render

(* A recognised page is the next one of the PDF.                           *)
LEMMA RecogniseKeeps == ASSUME TextIInv, Recognise PROVE TextIInv'
<1>1. Working("ocr") /\ command = "tesseract" /\ status = "EXTRACTING_TEXT" /\ pc = "ocr"
  BY DEF Recognise, Running, Working
<1>2. UNCHANGED <<status, code, attempt, live, crashes, pdf, pc, thread, events, settled,
                  answer, troubled>>
  BY DEF Recognise, jobVars
<1> DEFINE page == pdf.pages[Len(seen) + 1]
<1>3. page \in Page /\ Harmless(page)
  BY <1>1, OcrFacts, ElementOfSeq DEF TextIInv, OcrKnows, CurrentPage
<1>4. seen' = Append(seen, page)
  BY DEF Recognise, CurrentPage
<1> HIDE DEF page
<1>5. /\ seen' \in Seq(Page) /\ Len(seen') = Len(seen) + 1
      /\ \A i \in 1 .. Len(seen) : seen'[i] = seen[i]
      /\ seen'[Len(seen) + 1] = page
  BY <1>3, <1>4, AppendProperties DEF TextIInv
<1>6. DOMAIN seen' = 1 .. Len(seen) + 1
  BY <1>5, LenProperties
<1>7. Len(seen') <= Len(pdf.pages) /\ Len(seen') <= MaxPages
  BY <1>1, <1>5, OcrFacts, PagesAssumption
<1>8. \A i \in DOMAIN seen' : seen'[i] = pdf.pages[i] /\ Harmless(seen'[i])
  BY <1>1, <1>3, <1>5, <1>6, OcrFacts DEF page
<1>9. command' = IF Len(seen') < Len(pdf.pages) THEN "pdftocairo" ELSE "none"
  BY DEF Recognise
<1>10. command' = "none" <=> Len(seen') = Len(pdf.pages)
  BY <1>1, <1>5, <1>7, <1>9, OcrFacts
<1>11. OcrKnows'
  BY <1>1, <1>2, <1>7, <1>8, <1>9, <1>10 DEF OcrKnows, HasText, TextIInv
<1> QED
  BY <1>1, <1>2, <1>5, <1>7, <1>9, <1>11
     DEF TextIInv, JobTypeOK, NativeAtRest, NativeKnows

(* A failing command ends the attempt.                                     *)
LEMMA CommandFailsKeeps == ASSUME TextIInv, CommandFails \/ Unreadable PROVE TextIInv'
BY ThrowKeeps, TroubleTypes DEF CommandFails, Unreadable, Running, Working

(* The judgement of the pages ends the stage.                              *)
LEMMA JudgePagesKeeps == ASSUME TextIInv, JudgePages PROVE TextIInv'
<1>1. status = "EXTRACTING_TEXT"
  BY DEF JudgePages, Running, Working
<1>2. \E verdict \in {"ocr_text_too_sparse", "ocr_confidence_too_low", "text_too_long", "ready"} :
          Conclude(verdict)
  BY DEF JudgePages
<1> QED
  BY <1>1, <1>2, ConcludeKeeps DEF FailureCode

(* The process dies, or the row disappears.                                *)
LEMMA TextDiesKeeps == ASSUME TextIInv, TextDies PROVE TextIInv'
<1>1. JobTypeOK' /\ status' = "EXTRACTING_TEXT"
  BY JobAssumption DEF TextDies, Die, TextIInv, JobTypeOK
<1> QED
  BY <1>1, ResetKeeps DEF TextDies, TextIInv

(* A row that disappears leaves the work on it alone.                      *)
LEMMA TextDisappearsKeeps == ASSUME TextIInv, TextDisappears PROVE TextIInv'
BY DEF TextDisappears, Disappear, textVars, TextIInv, JobTypeOK, NativeAtRest, NativeKnows,
       OcrKnows, HasText, CurrentPage

(* Every step of the text stage keeps its invariant,                       *)
LEMMA TextKeeps == ASSUME TextIInv, TextNext PROVE TextIInv'
BY StartTextKeeps, ListenerKeeps, NativeTimeoutKeeps, TerminateKeeps, NativeAnswersKeeps,
   CommandFailsKeeps, JudgePagesKeeps, ThreadAnswersKeeps, ThreadEndsKeeps, ThreadFailsKeeps,
   RenderKeeps, RecogniseKeeps, TextDiesKeeps, TextDisappearsKeeps
   DEF TextNext, TextTimely

(* and so does the data stage, which leaves the job well-typed.            *)
LEMMA TextKeptByData ==
    ASSUME TextIInv, status = "EXTRACTING_DATA", JobTypeOK', UNCHANGED textVars
    PROVE  TextIInv'
BY DEF textVars, TextIInv, NativeAtRest, NativeKnows, OcrKnows

(* A claimed invoice knows nothing yet.                                    *)
LEMMA TextStarts == TextInit => TextIInv
<1> SUFFICES ASSUME TextInit PROVE TextIInv
  OBVIOUS
<1>1. JobTypeOK
  BY JobAssumption DEF TextInit, JobInit, JobTypeOK, WorkStatus
<1>2. <<>> \in Seq(Event) /\ <<>> \in Seq(Page) /\ Len(<<>>) = 0
  BY EmptySeq
<1>3. NativeAtRest /\ NativeKnows /\ OcrKnows
  BY DEF TextInit, JobInit, NativeAtRest, NativeKnows, OcrKnows
<1>4. events \in Seq(Event) /\ Len(events) <= 3 /\ seen \in Seq(Page) /\ Len(seen) <= MaxPages
  BY <1>2, PagesAssumption DEF TextInit
<1>5. settled \in BOOLEAN /\ answer \in Answer
  BY DEF TextInit, Answer
<1> QED
  BY <1>1, <1>3, <1>4, <1>5 DEF TextInit, TextIInv

-------------------------------------------------------------------------------
(* The data stage.                                                         *)

(* The provider is asked, and its answer recorded and judged, only while   *)
(* no answer of this identity is usable and accepted by the schema.        *)
AskingKnows ==
    step \in {"ask", "record", "judge"} =>
        \A i \in DOMAIN records :
            Parsed(i) /\ records[i].by = identity => i <= outdated

(* The last record is the one being judged, and then accepted, unless a    *)
(* new lifecycle has removed it.                                           *)
LastKnows ==
    /\ step = "judge" /\ records # <<>> =>
           /\ records[Len(records)].by = identity
           /\ outdated < Len(records)
    /\ step = "accept" /\ live =>
           /\ records # <<>>
           /\ Parsed(Len(records))
           /\ records[Len(records)].data = reply.content
           /\ records[Len(records)].by = identity
           /\ outdated < Len(records)

(* Until the provider is switched back, its records are the last ones.     *)
SwitchesKnow ==
    /\ switches = 0 => \A i \in DOMAIN records : records[i].by = identity
    /\ switches <= 1 => \A i, j \in DOMAIN records :
                            i < j /\ records[i].by = identity => records[j].by = identity

(* The inductive invariant of the data stage.                              *)
DataIInv ==
    /\ identity \in Identities
    /\ switches \in 0 .. MaxSwitches
    /\ step \in {"waiting", "ask", "record", "judge", "accept", "done"}
    /\ prompt \in {"first", "repair"}
    /\ reply \in Reply
    /\ records \in Seq(Record)
    /\ outdated \in Nat /\ (live => outdated <= Len(records))
    /\ status # "EXTRACTING_DATA" => step \in {"waiting", "done"}
    /\ AskingKnows /\ LastKnows /\ SwitchesKnow
    /\ ReadsWhatWasAccepted

(* The inductive invariant implies the type invariant of the stage.        *)
LEMMA DataIInvTypes == DataIInv => DataTypeOK
BY LenProperties DEF DataIInv, DataTypeOK

(* A bounded set of numbers has a last one, so that Latest finds it.       *)
LEMMA LatestIsLast ==
    ASSUME NEW n \in Nat, NEW S \in SUBSET (1 .. n)
    PROVE  Latest(S) \in S \cup {0} /\ \A j \in S \cup {0} : j <= Latest(S)
<1> DEFINE T == {n - i : i \in S \cup {0}}
           less == OpToRel(<, Nat)
<1>1. T \subseteq Nat /\ T # {}
  OBVIOUS
<1>2. PICK x \in T : \A y \in T : <<y, x>> \notin less
  BY <1>1, NatLessThanWellFounded, WFMin
<1>3. \A y \in T : ~(y < x)
  BY <1>1, <1>2 DEF OpToRel
<1>4. PICK i \in S \cup {0} : x = n - i
  OBVIOUS
<1>5. \A j \in S \cup {0} : j <= i
  <2> SUFFICES ASSUME NEW j \in S \cup {0} PROVE j <= i
    OBVIOUS
  <2>1. n - j \in T /\ i \in Nat /\ j \in Nat
    OBVIOUS
  <2>2. ~(n - j < n - i)
    BY <2>1, <1>3, <1>4
  <2> QED
    BY <2>1, <2>2
<1> HIDE DEF T, less
<1>6. \E m \in S \cup {0} : \A j \in S : j <= m
  BY <1>5
<1>7. Latest(S) \in S \cup {0} /\ \A j \in S : j <= Latest(S)
  BY <1>6 DEF Latest
<1>8. \A z \in S \cup {0} : 0 <= z
  OBVIOUS
<1> QED
  BY <1>7, <1>8

(* So Reusable and Read are the last of the records they look for.         *)
LEMMA ReusableIsLast ==
    ASSUME DataIInv
    PROVE  /\ Reusable # 0 =>
                  /\ Reusable \in DOMAIN records
                  /\ Parsed(Reusable) /\ records[Reusable].by = identity
           /\ \A i \in DOMAIN records : Parsed(i) /\ records[i].by = identity => i <= Reusable
<1>1. DOMAIN records = 1 .. Len(records) /\ Len(records) \in Nat
  BY LenProperties DEF DataIInv
<1> QED
  BY <1>1, LatestIsLast DEF Reusable

(* Read is the one usable record that no usable record follows.            *)
LEMMA ReadIsLast ==
    ASSUME DataIInv, NEW i \in DOMAIN records, Parsed(i),
           \A j \in DOMAIN records : Parsed(j) => j <= i
    PROVE  Read = i
<1>1. DOMAIN records = 1 .. Len(records) /\ Len(records) \in Nat
  BY LenProperties DEF DataIInv
<1> DEFINE S == {j \in DOMAIN records : Parsed(j)}
<1>2. Read \in S \cup {0} /\ \A j \in S \cup {0} : j <= Read
  BY <1>1, LatestIsLast DEF Read
<1>3. i <= Read /\ Read # 0
  BY <1>1, <1>2
<1> QED
  BY <1>1, <1>2, <1>3

(* The data steps: of the job, they leave DATA_READY to an accepted        *)
(* answer; an answer that is not accepted leaves the records to be read.   *)
LEMMA FinishKeeps ==
    ASSUME DataIInv, JobTypeOK', Finish, UNCHANGED <<records, live>>,
           status' # "DATA_READY"
    PROVE  DataIInv'
BY DEF DataIInv, Finish, Go, NoReply, Reply, Content, AskingKnows, LastKnows, SwitchesKnow,
       Parsed, ReadsWhatWasAccepted

(* The attempt is repeated, with nothing kept but the records.             *)
LEMMA AgainKeeps ==
    ASSUME DataIInv, JobTypeOK, status = "EXTRACTING_DATA", Again, UNCHANGED records
    PROVE  DataIInv' /\ JobTypeOK'
<1>1. JobTypeOK'
  BY TryAgainTypes DEF Again, FailureCode
<1>2. status' \in {"EXTRACTING_DATA", "FAILED"} /\ (status' = "FAILED" => step' = "done")
  BY DEF Again, TryAgain, Fail, Go
<1>3. /\ step' \in {"waiting", "done"} /\ prompt' = "first" /\ reply' = NoReply
      /\ UNCHANGED <<identity, switches, records, outdated, live>>
  BY DEF Again, Go, TryAgain, Fail
<1> QED
  BY <1>1, <1>2, <1>3
     DEF DataIInv, NoReply, Reply, Content, AskingKnows, LastKnows, SwitchesKnow,
         Parsed, ReadsWhatWasAccepted

(* A request that fails for good, or an answer refused for good.           *)
LEMMA RefuseKeeps ==
    ASSUME DataIInv, JobTypeOK, status = "EXTRACTING_DATA",
           NEW c \in FailureCode, Fail(c), Finish, UNCHANGED records
    PROVE  DataIInv' /\ JobTypeOK'
<1>1. JobTypeOK'
  BY FailTypes
<1>2. status' # "DATA_READY" /\ UNCHANGED live
  BY DEF Fail
<1> QED
  BY <1>1, <1>2, FinishKeeps

(* What is decided on a usable record of this identity is what validation  *)
(* and generation will read: no later record is usable.                    *)
LEMMA DecideKeeps ==
    ASSUME DataIInv, JobTypeOK, status = "EXTRACTING_DATA",
           NEW i \in DOMAIN records,
           live => Parsed(i) /\ records[i].by = identity /\ outdated < i,
           live => \A j \in DOMAIN records : Parsed(j) /\ records[j].by = identity => j <= i,
           NEW content \in Content,
           live => content = records[i].data, Decide(content), UNCHANGED records
    PROVE  DataIInv' /\ JobTypeOK'
<1>1. CASE content = "blank"
  <2>1. Fail("llm_no_usable_data") /\ Finish /\ "llm_no_usable_data" \in FailureCode
    BY <1>1 DEF Decide, FailureCode
  <2> QED
    BY <2>1, RefuseKeeps
<1>2. CASE content # "blank"
  <2>1. Advance("DATA_READY") /\ Finish
    BY <1>2 DEF Decide
  <2>2. JobTypeOK'
    BY <2>1, AdvanceTypes
  <2>3. CASE ~live
    BY <2>1, <2>2, <2>3, FinishKeeps DEF Advance
  <2>4. CASE live
    <3>2. DOMAIN records = 1 .. Len(records) /\ Len(records) \in Nat
      BY LenProperties DEF DataIInv
    <3>1. Parsed(i) /\ records[i].data = "invoice" /\ records[i].by = identity
      <4>1. records[i] \in Record
        BY <3>2, LenProperties DEF DataIInv
      <4>2. records[i].data \in {"none", "invoice", "blank"}
        BY <4>1 DEF Record
      <4> QED
        BY <1>2, <2>4, <4>2 DEF Parsed
    <3>3. switches <= 1 => \A j \in DOMAIN records : Parsed(j) => j <= i
      <4> SUFFICES ASSUME switches <= 1, NEW j \in DOMAIN records, Parsed(j) PROVE j <= i
        OBVIOUS
      <4>1. CASE i < j
        <5>1. records[j].by = identity
          BY <3>1, <4>1 DEF DataIInv, SwitchesKnow
        <5> QED
          BY <2>4, <5>1
      <4> QED
        BY <3>2, <4>1
    <3>4. switches <= 1 => Read = i
      BY <3>1, <3>3, ReadIsLast
    <3>5. outdated < i
      BY <2>4
    <3>6. Read' = Read /\ UNCHANGED <<identity, switches, records, outdated, live>>
      BY <2>1 DEF Finish, Go, Read, Parsed, Advance
    <3>7. ReadsWhatWasAccepted'
      BY <3>1, <3>4, <3>5, <3>6 DEF ReadsWhatWasAccepted
    <3>8. step' = "done" /\ prompt' = "first" /\ reply' = NoReply
      BY <2>1 DEF Finish, Go
    <3> QED
      BY <2>2, <3>6, <3>7, <3>8
         DEF DataIInv, NoReply, Reply, Content, AskingKnows, LastKnows, SwitchesKnow, Parsed
  <2> QED
    BY <2>3, <2>4
<1> QED
  BY <1>1, <1>2

(* The start of an attempt: a usable answer is taken from the records.     *)
LEMMA StartDataKeeps ==
    ASSUME DataIInv, JobTypeOK, StartData PROVE DataIInv' /\ JobTypeOK'
<1>1. status = "EXTRACTING_DATA" /\ step = "waiting" /\ UNCHANGED records
  BY DEF StartData, At
<1>2. CASE ~live /\ Finish /\ UNCHANGED jobVars
  <2>1. JobTypeOK' /\ status' # "DATA_READY" /\ live' = live
    BY <1>1, <1>2 DEF jobVars, JobTypeOK
  <2> QED
    BY <1>1, <1>2, <2>1, FinishKeeps
<1>3. CASE live /\ Reusable > outdated /\ Decide(records[Reusable].data)
  <2> DEFINE i == Reusable
  <2>1. i # 0
    BY <1>3 DEF DataIInv
  <2>2. /\ i \in DOMAIN records /\ Parsed(i) /\ records[i].by = identity
        /\ \A j \in DOMAIN records : Parsed(j) /\ records[j].by = identity => j <= i
    BY <2>1, ReusableIsLast
  <2>3. live /\ outdated < i /\ Decide(records[i].data)
    BY <1>3, <2>2, LenProperties DEF DataIInv
  <2> HIDE DEF i
  <2>4. records[i] \in Record
    BY <2>2, LenProperties DEF DataIInv
  <2>5. records[i].data \in Content
    BY <2>2, <2>4 DEF Record, Content, Parsed
  <2> QED
    BY <1>1, <2>2, <2>3, <2>5, DecideKeeps
<1>4. CASE Reusable <= outdated /\ Go("ask", "first") /\ UNCHANGED <<jobVars, reply>>
  <2>1. JobTypeOK' /\ status' = status /\ live' = live
    BY <1>4 DEF jobVars, JobTypeOK
  <2>2. \A i \in DOMAIN records : Parsed(i) /\ records[i].by = identity => i <= outdated
    <3>1. DOMAIN records = 1 .. Len(records) /\ Len(records) \in Nat /\ outdated \in Nat
      BY LenProperties DEF DataIInv
    <3>2. Reusable \in Nat
      BY <3>1, ReusableIsLast
    <3> QED
      BY <1>4, <3>1, <3>2, ReusableIsLast
  <2>3. step' = "ask" /\ prompt' = "first"
        /\ UNCHANGED <<identity, switches, reply, records, outdated>>
    BY <1>1, <1>4 DEF Go
  <2> QED
    BY <1>1, <2>1, <2>2, <2>3
       DEF DataIInv, AskingKnows, LastKnows, SwitchesKnow, Parsed, ReadsWhatWasAccepted
<1> QED
  BY <1>2, <1>3, <1>4 DEF StartData

(* The call.                                                               *)
LEMMA AskKeeps ==
    ASSUME DataIInv, JobTypeOK, Ask PROVE DataIInv' /\ JobTypeOK'
<1>1. status = "EXTRACTING_DATA" /\ step = "ask" /\ UNCHANGED records
  BY DEF Ask, At
<1>2. CASE Again
  BY <1>1, <1>2, AgainKeeps
<1>3. CASE Fail("llm_provider_error") /\ Finish
  <2>1. "llm_provider_error" \in FailureCode
    BY DEF FailureCode
  <2> QED
    BY <1>1, <1>3, <2>1, RefuseKeeps
<1>4. CASE \E r \in Reply : reply' = r /\ Go("record", prompt) /\ UNCHANGED jobVars
  <2>1. JobTypeOK' /\ status' = status /\ reply' \in Reply /\ step' = "record"
        /\ UNCHANGED <<identity, switches, prompt, records, outdated, live>>
    BY <1>1, <1>4 DEF jobVars, JobTypeOK, Go
  <2> QED
    BY <1>1, <2>1
       DEF DataIInv, AskingKnows, LastKnows, SwitchesKnow, Parsed, ReadsWhatWasAccepted
<1> QED
  BY <1>2, <1>3, <1>4 DEF Ask

(* The answer is recorded under the next number, not yet judged.           *)
LEMMA RecordReplyKeeps ==
    ASSUME DataIInv, JobTypeOK, RecordReply PROVE DataIInv' /\ JobTypeOK'
<1>1. status = "EXTRACTING_DATA" /\ step = "record" /\ JobTypeOK'
      /\ status' = status /\ live' = live
  BY DEF RecordReply, At, jobVars, JobTypeOK
<1>2. CASE ~live
  BY <1>1, <1>2, FinishKeeps DEF RecordReply
<1>3. CASE live
  <2>1. /\ step' = "judge" /\ UNCHANGED <<identity, switches, prompt, reply, outdated>>
        /\ records' = Append(records, NewRecord)
    BY <1>3 DEF RecordReply, Go
  <2>2. NewRecord \in Record
    BY DEF DataIInv, NewRecord, Record
  <2> DEFINE n == Len(records)
  <2>3. /\ records' \in Seq(Record) /\ Len(records') = n + 1 /\ n \in Nat
        /\ DOMAIN records = 1 .. n /\ DOMAIN records' = 1 .. n + 1
        /\ \A i \in 1 .. n : records'[i] = records[i]
        /\ records'[n + 1] = NewRecord
    BY <2>1, <2>2, AppendProperties, LenProperties DEF DataIInv
  <2> HIDE DEF n
  <2>4. NewRecord.data = "none" /\ NewRecord.by = identity
    BY DEF NewRecord
  <2>5. SwitchesKnow'
    <3>1. switches' = 0 => \A i \in DOMAIN records' : records'[i].by = identity'
      BY <2>1, <2>3, <2>4 DEF DataIInv, SwitchesKnow
    <3>2. ASSUME switches' <= 1, NEW i \in 1 .. n + 1, NEW j \in 1 .. n + 1,
                 i < j, records'[i].by = identity'
          PROVE  records'[j].by = identity'
      <4>1. CASE j = n + 1
        BY <2>1, <2>3, <2>4, <4>1
      <4>2. CASE j \in 1 .. n
        <5>1. i \in 1 .. n
          BY <2>3, <3>2, <4>2
        <5> QED
          BY <2>1, <2>3, <3>2, <4>2, <5>1 DEF DataIInv, SwitchesKnow
      <4> QED
        BY <2>3, <4>1, <4>2
    <3> QED
      BY <2>3, <3>1, <3>2 DEF SwitchesKnow
  <2>6. AskingKnows'
    <3>1. \A i \in DOMAIN records : Parsed(i) /\ records[i].by = identity => i <= outdated
      BY <1>1 DEF DataIInv, AskingKnows
    <3>2. ASSUME NEW i \in 1 .. n + 1
          PROVE  records'[i].data # "none" /\ records'[i].by = identity => i <= outdated
      <4>1. CASE i = n + 1
        BY <2>3, <2>4, <4>1
      <4>2. CASE i \in 1 .. n
        BY <2>3, <3>1, <4>2 DEF Parsed
      <4> QED
        BY <2>3, <4>1, <4>2
    <3> QED
      BY <2>1, <2>3, <3>2 DEF AskingKnows, Parsed
  <2>7. records' # <<>>
    BY <2>3, EmptySeq
  <2>8. outdated < n + 1
    BY <1>3, <2>3 DEF DataIInv, n
  <2>9. LastKnows'
    BY <2>1, <2>3, <2>4, <2>7, <2>8 DEF LastKnows
  <2>10. ReadsWhatWasAccepted'
    BY <1>1 DEF ReadsWhatWasAccepted
  <2> QED
    BY <1>1, <2>1, <2>3, <2>5, <2>6, <2>8, <2>9, <2>10 DEF DataIInv
<1> QED
  BY <1>2, <1>3

(* The last record is judged,                                              *)
LEMMA JudgeRecord ==
    ASSUME DataIInv, records # <<>>, step = "judge",
           records' = [records EXCEPT ![Len(records)].data =
                          IF Parses(reply.content) THEN reply.content ELSE @],
           identity' = identity, switches' = switches
    PROVE  LET n == Len(records)
           IN  /\ n \in Nat \ {0} /\ records' \in Seq(Record) /\ Len(records') = n
               /\ DOMAIN records = 1 .. n /\ DOMAIN records' = 1 .. n
               /\ \A i \in 1 .. n : /\ i # n => records'[i] = records[i]
                                    /\ records'[i].by = records[i].by
               /\ records'[n].data = IF Parses(reply.content) THEN reply.content
                                     ELSE records[n].data
               /\ records[n].by = identity /\ outdated < n
               /\ SwitchesKnow'
<1> DEFINE n == Len(records)
<1>1. n \in Nat \ {0} /\ DOMAIN records = 1 .. n /\ records \in [1 .. n -> Record]
  BY LenProperties, EmptySeq DEF DataIInv
<1>2. records[n].by = identity /\ outdated < n
  BY DEF DataIInv, LastKnows
<1> DEFINE d == IF Parses(reply.content) THEN reply.content ELSE records[n].data
<1>3. records' = [records EXCEPT ![n].data = d]
  OBVIOUS
<1>4. records \in Seq(Record)
  BY DEF DataIInv
<1>9. d \in {"none", "invoice", "blank"}
  <2>1. records[n] \in Record
    BY <1>1
  <2>2. records[n].data \in {"none", "invoice", "blank"}
    BY <2>1 DEF Record
  <2> QED
    BY <2>2 DEF Parses
<1> HIDE DEF n, d
<1>5. /\ records' \in [1 .. n -> Record]
      /\ \A i \in 1 .. n : /\ i # n => records'[i] = records[i]
                           /\ records'[i].by = records[i].by
      /\ records'[n].data = d
  <2>1. \A i \in 1 .. n : i # n => records'[i] = records[i]
    BY <1>1, <1>3
  <2>2. records[n] \in Record /\ n \in 1 .. n
    BY <1>1
  <2>3. records'[n] = [records[n] EXCEPT !.data = d]
    BY <1>1, <1>3, <2>2
  <2>4. records'[n] \in Record /\ records'[n].data = d /\ records'[n].by = records[n].by
    BY <1>9, <2>2, <2>3, ZenonT(60) DEF Record
  <2>5. records' \in [1 .. n -> Record]
    BY <1>1, <1>3, <2>3, <2>4
  <2>6. \A i \in 1 .. n : records'[i].by = records[i].by
    BY <2>1, <2>4
  <2> QED
    BY <2>1, <2>4, <2>5, <2>6
<1>6. records' \in Seq(Record)
  BY <1>1, <1>5, SeqDef
<1>7. Len(records') = n /\ DOMAIN records' = 1 .. n
  BY <1>1, <1>5, <1>6, LenProperties
<1>8. SwitchesKnow'
  BY <1>1, <1>5, <1>7 DEF DataIInv, SwitchesKnow
<1> QED
  BY <1>1, <1>2, <1>5, <1>6, <1>7, <1>8 DEF n, d

(* and the answer taken, refused, or asked for again.                      *)
LEMMA JudgeKeeps ==
    ASSUME DataIInv, JobTypeOK, Judge PROVE DataIInv' /\ JobTypeOK'
<1>1. status = "EXTRACTING_DATA" /\ step = "judge"
  BY DEF Judge, At
<1>2. Len(records) = 0 <=> records = <<>>
  BY EmptySeq, LenProperties DEF DataIInv
<1>3. CASE records = <<>>
  BY <1>1, <1>2, <1>3, AgainKeeps DEF Judge, Current
<1>4. CASE records # <<>>
  <2> DEFINE n == Len(records)
  <2>1. /\ records' = [records EXCEPT ![n].data =
                          IF Parses(reply.content) THEN reply.content ELSE @]
        /\ \/ /\ Parses(reply.content)
              /\ Go("accept", "first") /\ UNCHANGED <<jobVars, reply>>
           \/ \E c \in FailureCode : Fail(c) /\ Finish
           \/ /\ ~Parses(reply.content) /\ reply' = NoReply
              /\ Go("ask", "repair") /\ UNCHANGED jobVars
    BY <1>2, <1>4 DEF Judge, Current, FailureCode
  <2>2. UNCHANGED <<identity, switches, outdated, live>>
    BY <2>1 DEF Go, Finish, Fail, jobVars
  <2>3. /\ n \in Nat \ {0} /\ records' \in Seq(Record) /\ Len(records') = n
        /\ DOMAIN records = 1 .. n /\ DOMAIN records' = 1 .. n
        /\ \A i \in 1 .. n : /\ i # n => records'[i] = records[i]
                             /\ records'[i].by = records[i].by
        /\ records'[n].data = IF Parses(reply.content) THEN reply.content
                              ELSE records[n].data
        /\ records[n].by = identity /\ outdated < n
        /\ SwitchesKnow'
    BY <1>1, <1>4, <2>1, <2>2, JudgeRecord
  <2> HIDE DEF n
  <2>4. CASE /\ Parses(reply.content)
             /\ Go("accept", "first") /\ UNCHANGED <<jobVars, reply>>
    <3>1. /\ step' = "accept" /\ prompt' = "first" /\ reply' = reply
          /\ status' = status /\ JobTypeOK'
      BY <2>4 DEF Go, jobVars, JobTypeOK
    <3>2. records' # <<>>
      BY <2>3, EmptySeq
    <3>3. LastKnows'
      BY <2>2, <2>3, <2>4, <3>1, <3>2 DEF LastKnows, Parsed, Parses
    <3> QED
      BY <1>1, <2>2, <2>3, <3>1, <3>3 DEF DataIInv, AskingKnows, ReadsWhatWasAccepted
  <2>5. CASE \E c \in FailureCode : Fail(c) /\ Finish
    <3>1. /\ step' = "done" /\ prompt' = "first" /\ reply' = NoReply
          /\ status' # "DATA_READY" /\ JobTypeOK'
      BY <1>1, <2>5, FailTypes DEF Go, Finish, Fail
    <3> QED
      BY <2>2, <2>3, <3>1
         DEF DataIInv, NoReply, Reply, Content, AskingKnows, LastKnows, ReadsWhatWasAccepted
  <2>6. CASE /\ ~Parses(reply.content) /\ reply' = NoReply
             /\ Go("ask", "repair") /\ UNCHANGED jobVars
    <3>1. /\ step' = "ask" /\ prompt' = "repair"
          /\ status' = status /\ JobTypeOK'
      BY <2>6 DEF Go, jobVars, JobTypeOK
    <3>2. AskingKnows'
      <4>1. \A i \in 1 .. n : Parsed(i) /\ records[i].by = identity => i <= outdated
        BY <1>1, <2>3 DEF DataIInv, AskingKnows
      <4>2. ASSUME NEW i \in 1 .. n
            PROVE  records'[i].data # "none" /\ records'[i].by = identity => i <= outdated
        <5>1. CASE i = n
          BY <2>3, <2>6, <4>1, <5>1 DEF Parsed
        <5>2. CASE i # n
          BY <2>3, <4>1, <5>2 DEF Parsed
        <5> QED
          BY <5>1, <5>2
      <4> QED
        BY <2>2, <2>3, <4>2 DEF AskingKnows, Parsed
    <3> QED
      BY <1>1, <2>2, <2>3, <2>6, <3>1, <3>2
         DEF DataIInv, NoReply, Reply, Content, LastKnows, ReadsWhatWasAccepted
  <2> QED
    BY <2>1, <2>4, <2>5, <2>6
<1> QED
  BY <1>3, <1>4

(* An answer that has been judged usable is decided on.                    *)
LEMMA AcceptKeeps ==
    ASSUME DataIInv, JobTypeOK, Accept PROVE DataIInv' /\ JobTypeOK'
<1>1. status = "EXTRACTING_DATA" /\ step = "accept" /\ UNCHANGED records
      /\ Decide(reply.content)
  BY DEF Accept, At
<1>2. reply.content \in Content
  BY DEF DataIInv, Reply
<1>3. CASE live
  <2> DEFINE n == Len(records)
  <2>1. /\ n \in Nat \ {0} /\ DOMAIN records = 1 .. n
    BY <1>1, <1>3, LenProperties, EmptySeq DEF DataIInv, LastKnows
  <2>2. Parsed(n) /\ records[n].data = reply.content /\ records[n].by = identity
        /\ outdated < n
    BY <1>1, <1>3 DEF DataIInv, LastKnows
  <2> HIDE DEF n
  <2>3. n \in DOMAIN records /\ \A j \in DOMAIN records : j <= n
    BY <2>1
  <2> QED
    BY <1>1, <1>2, <2>2, <2>3, DecideKeeps
<1>4. CASE ~live
  <2>1. \/ Advance("DATA_READY") /\ Finish
        \/ Fail("llm_no_usable_data") /\ Finish
    BY <1>1 DEF Decide
  <2>2. JobTypeOK' /\ status' = status /\ live' = live
    BY <1>4, <2>1 DEF Advance, Fail, JobTypeOK
  <2> QED
    BY <1>1, <2>1, <2>2, FinishKeeps
<1> QED
  BY <1>3, <1>4

(* A restart, which may be under another identity or schema.               *)
LEMMA DataDiesKeeps ==
    ASSUME DataIInv, JobTypeOK, DataDies PROVE DataIInv' /\ JobTypeOK'
<1>1. JobTypeOK' /\ status' = "EXTRACTING_DATA"
  BY JobAssumption DEF DataDies, Die, JobTypeOK
<1>2. PICK i \in Identities :
          /\ identity' = i
          /\ switches' = IF i = identity THEN switches ELSE switches + 1
          /\ switches' <= MaxSwitches
  BY DEF DataDies
<1>3. step' = "waiting" /\ prompt' = "first" /\ reply' = NoReply /\ UNCHANGED records
  BY DEF DataDies
<1>4. switches' \in 0 .. MaxSwitches
  BY <1>2, DataAssumption DEF DataIInv
<1>5. SwitchesKnow'
  BY <1>2, <1>3, DataAssumption DEF DataIInv, SwitchesKnow
<1>6. outdated' \in Nat /\ outdated' <= Len(records')
  BY <1>3, LenProperties DEF DataIInv, DataDies
<1> QED
  BY <1>1, <1>2, <1>3, <1>4, <1>5, <1>6
     DEF DataIInv, NoReply, Reply, Content, AskingKnows, LastKnows, ReadsWhatWasAccepted

(* The row is gone, and with a new lifecycle its records.                  *)
LEMMA DataDisappearsKeeps ==
    ASSUME DataIInv, JobTypeOK, DataDisappears PROVE DataIInv' /\ JobTypeOK'
<1>1. JobTypeOK' /\ status' = "EXTRACTING_DATA" /\ ~live'
  BY DEF DataDisappears, Disappear, JobTypeOK
<1>2. UNCHANGED <<identity, switches, step, prompt, reply, outdated>>
  BY DEF DataDisappears
<1>3. CASE records' = records
  BY <1>1, <1>2, <1>3
     DEF DataIInv, AskingKnows, LastKnows, SwitchesKnow, Parsed, ReadsWhatWasAccepted
<1>4. CASE records' = <<>>
  <2>1. records' \in Seq(Record) /\ DOMAIN records' = {}
    BY <1>4, EmptySeq
  <2> QED
    BY <1>1, <1>2, <1>4, <2>1
       DEF DataIInv, AskingKnows, LastKnows, SwitchesKnow, ReadsWhatWasAccepted
<1> QED
  BY <1>3, <1>4 DEF DataDisappears

(* Every step of the data stage keeps its invariant.                       *)
LEMMA DataKeeps == ASSUME DataIInv, JobTypeOK, DataNext PROVE DataIInv' /\ JobTypeOK'
BY StartDataKeeps, AskKeeps, RecordReplyKeeps, JudgeKeeps, AcceptKeeps, DataDiesKeeps,
   DataDisappearsKeeps DEF DataNext, DataSteps

(* An invoice has no record before its data stage.                         *)
LEMMA DataStarts == JobInit /\ DataInit => DataIInv
<1> SUFFICES ASSUME JobInit, DataInit PROVE DataIInv
  OBVIOUS
<1>1. records = <<>> /\ records \in Seq(Record) /\ DOMAIN records = {}
  BY EmptySeq DEF DataInit
<1>2. AskingKnows /\ LastKnows /\ SwitchesKnow /\ ReadsWhatWasAccepted
  BY <1>1 DEF DataInit, JobInit, AskingKnows, LastKnows, SwitchesKnow, ReadsWhatWasAccepted
<1> QED
  BY <1>1, <1>2, DataAssumption
     DEF DataInit, JobInit, DataIInv, NoReply, Reply, Content

-------------------------------------------------------------------------------
(* Both stages.                                                            *)

(* Only the text stage works on an invoice in text extraction, and it has  *)
(* no data to offer.                                                       *)
LEMMA TextStatus ==
    ASSUME TextNext
    PROVE  status = "EXTRACTING_TEXT"
           /\ status' \in {"EXTRACTING_TEXT", "EXTRACTING_DATA", "FAILED"}
           /\ (live' => live)
BY DEF TextNext, TextTimely, StartText, Listener, NativeTimeout, Undisturbed, Terminate,
       NativeAnswers, CommandFails, JudgePages, ThreadAnswers, ThreadEnds, ThreadFails,
       Render, Recognise, Unreadable, TextDies, TextDisappears, Working, Running, Raise,
       Conclude, Throw, TryAgain, Fail, Advance, Die, Disappear, jobVars

(* Only the data stage works on an invoice in data extraction.             *)
LEMMA DataStatus ==
    ASSUME DataNext
    PROVE  status = "EXTRACTING_DATA"
           /\ status' \in {"EXTRACTING_DATA", "DATA_READY", "FAILED"}
BY DEF DataNext, DataSteps, StartData, Ask, RecordReply, Judge, Accept, DataDies,
       DataDisappears, At, Again, Decide, TryAgain, Fail, Advance, Die, Disappear, jobVars

(* The text stage leaves the records, and what is known of them, alone.    *)
LEMMA DataKeptByText ==
    ASSUME DataIInv, TextNext, UNCHANGED dataVars PROVE DataIInv'
<1>1. status = "EXTRACTING_TEXT" /\ status' # "DATA_READY" /\ (live' => live)
  BY TextStatus
<1> QED
  BY <1>1 DEF dataVars, DataIInv, AskingKnows, LastKnows, SwitchesKnow, Parsed,
              ReadsWhatWasAccepted

(* The inductive invariant: what the text stage knows of its thread and    *)
(* its pages, and the data stage of its records.                           *)
IInv == TextIInv /\ DataIInv

(* It holds at the start                                                   *)
LEMMA InitIInv == Init => IInv
BY TextStarts, DataStarts DEF Init, TextInit, IInv

(* and is kept by every step.                                              *)
LEMMA NextIInv == IInv /\ [Next]_allVars => IInv'
<1> SUFFICES ASSUME IInv, [Next]_allVars PROVE IInv'
  OBVIOUS
<1>1. TextIInv /\ DataIInv /\ JobTypeOK
  BY DEF IInv, TextIInv
<1>2. CASE TextNext /\ UNCHANGED dataVars
  BY <1>1, <1>2, TextKeeps, DataKeptByText DEF IInv
<1>3. CASE DataNext /\ UNCHANGED textVars
  BY <1>1, <1>3, DataKeeps, DataStatus, TextKeptByData DEF IInv
<1>4. CASE UNCHANGED allVars
  <2>1. UNCHANGED <<jobVars, textVars, dataVars>>
    BY <1>4 DEF allVars
  <2>2. TextIInv'
    BY <1>1, <2>1 DEF jobVars, textVars, TextIInv, JobTypeOK, NativeAtRest, NativeKnows,
                      OcrKnows, HasText, CurrentPage
  <2>3. DataIInv'
    BY <1>1, <2>1 DEF jobVars, dataVars, DataIInv, AskingKnows, LastKnows, SwitchesKnow,
                      Parsed, ReadsWhatWasAccepted, Read
  <2> QED
    BY <2>2, <2>3 DEF IInv
<1> QED
  BY <1>2, <1>3, <1>4 DEF Next

(* So it holds throughout.                                                 *)
LEMMA AlwaysIInv == Spec => []IInv
BY InitIInv, NextIInv, PTL DEF Spec

(* The variables of both stages keep to their types, whatever the PDF, the *)
(* threads, the commands, the provider and the restarts do.                *)
THEOREM ExtractionTypes == Spec => []ExtractionTypeOK
<1>1. IInv => ExtractionTypeOK
  BY TextIInvTypes, DataIInvTypes DEF IInv, ExtractionTypeOK
<1> QED
  BY <1>1, AlwaysIInv, PTL

(* No retry and no restart under the same provider identity pays for an    *)
(* answer that was judged usable before, as long as the schema accepts it. *)
THEOREM UsableAnswersAreReused == Spec => []NeverPaysTwice
<1>1. IInv => NeverPaysTwice
  <2> SUFFICES ASSUME IInv, At("ask") PROVE Reusable <= outdated
    BY DEF NeverPaysTwice
  <2> QED
    BY ReusableIsLast DEF IInv, DataIInv, AskingKnows, At
<1> QED
  BY <1>1, AlwaysIInv, PTL

(* Validation and generation look up the very answer that the data stage   *)
(* accepted, unless the provider was switched away and back.               *)
THEOREM AcceptedAnswerIsRead == Spec => []ReadsWhatWasAccepted
<1>1. IInv => ReadsWhatWasAccepted
  BY DEF IInv, DataIInv
<1> QED
  BY <1>1, AlwaysIInv, PTL

-------------------------------------------------------------------------------
(* The verdict.                                                            *)

(* A bad page after harmless ones is the first obstacle of its PDF.        *)
LEMMA ObstacleIsFirst ==
    ASSUME NEW p \in Seq(Page), NEW k \in 1 .. Len(p), ~Harmless(p[k]),
           \A i \in 1 .. k - 1 : Harmless(p[i])
    PROVE  FirstObstacle(p) = IF p[k] = "huge" THEN "pdf_resource_limit" ELSE "pdf_unreadable"
<1> DEFINE bad == {i \in DOMAIN p : p[i] \in {"huge", "damaged"}}
           first == CHOOSE i \in bad : \A j \in bad : i <= j
<1>1. DOMAIN p = 1 .. Len(p) /\ Len(p) \in Nat
  BY LenProperties
<1>2. k \in bad /\ bad \subseteq 1 .. Len(p)
  BY <1>1 DEF Harmless
<1>3. \A j \in bad : k <= j
  BY <1>1 DEF Harmless
<1>4. \E i \in bad : \A j \in bad : i <= j
  BY <1>2, <1>3
<1>5. FirstObstacle(p) = IF bad = {} THEN "none"
                         ELSE IF p[first] = "huge"
                              THEN "pdf_resource_limit" ELSE "pdf_unreadable"
  BY DEF FirstObstacle
<1> HIDE DEF bad
<1>6. first \in bad /\ \A j \in bad : first <= j
  BY <1>4
<1> HIDE DEF first
<1>7. first = k
  BY <1>1, <1>2, <1>3, <1>6
<1> QED
  BY <1>2, <1>5, <1>7

(* The verdict on pages that have neither text nor an obstacle.            *)
LEMMA HarmlessVerdict ==
    ASSUME TextIInv, pdf.parse = "pages", pdf.pages # <<>>, ~HasText,
           \A i \in DOMAIN pdf.pages : Harmless(pdf.pages[i])
    PROVE  Verdict(pdf) = Quality(pdf.pages)
BY DEF Verdict, FirstObstacle, Harmless, HasText

(* What the stage concludes is the verdict, as VerdictIsDeserved says of a *)
(* step.                                                                   *)
Deserved ==
    /\ Working(pc) /\ status' = "EXTRACTING_DATA" => Verdict(pdf) = "ready"
    /\ Working(pc) /\ status' = "FAILED" =>
           code' \in {Verdict(pdf), "text_extraction_retries_exhausted"}

(* A step that concludes the verdict is deserved,                          *)
LEMMA ConcludeDeserved ==
    ASSUME status = "EXTRACTING_TEXT", Conclude(Verdict(pdf)) PROVE Deserved
BY DEF Deserved, Conclude, Fail, Advance

(* so is one that ends the attempt with an error,                          *)
LEMMA ThrowDeserved ==
    ASSUME status = "EXTRACTING_TEXT", Throw PROVE Deserved
BY DEF Deserved, Throw, TryAgain, Fail

(* and one that leaves the status alone.                                   *)
LEMMA QuietDeserved ==
    ASSUME UNCHANGED status PROVE Deserved
BY DEF Deserved, Working

(* The native answer is about the whole file.                              *)
LEMMA NativeAnswersDeserved == ASSUME TextIInv, NativeAnswers PROVE Deserved
<1>1. status = "EXTRACTING_TEXT" /\ pc = "native" /\ settled
      /\ answer \in {pdf.parse, "retry"}
  BY DEF NativeAnswers, Working, TextIInv, NativeKnows
<1>2. CASE Throw
  BY <1>1, <1>2, ThrowDeserved
<1>3. CASE answer \in Refusal /\ Conclude(answer)
  <2>1. Verdict(pdf) = answer
    BY <1>1, <1>3 DEF Verdict, Refusal
  <2> QED
    BY <1>1, <1>3, <2>1, ConcludeDeserved
<1>4. CASE answer = "pages" /\ pdf.pages = <<>> /\ Conclude("pdf_no_pages")
  <2>1. Verdict(pdf) = "pdf_no_pages"
    BY <1>1, <1>4 DEF Verdict
  <2> QED
    BY <1>1, <1>4, <2>1, ConcludeDeserved
<1>5. CASE answer = "pages" /\ pdf.pages # <<>> /\ HasText /\ Conclude("ready")
  <2>1. Verdict(pdf) = "ready"
    BY <1>1, <1>5 DEF Verdict, HasText
  <2> QED
    BY <1>1, <1>5, <2>1, ConcludeDeserved
<1>6. CASE UNCHANGED jobVars
  BY <1>6, QuietDeserved DEF jobVars
<1>7. pdf.pages = <<>> => ~HasText
  BY EmptySeq DEF HasText
<1> QED
  BY <1>2, <1>3, <1>4, <1>5, <1>6, <1>7 DEF NativeAnswers

(* A page that cannot be rendered is the first obstacle.                   *)
LEMMA RenderDeserved == ASSUME TextIInv, Render PROVE Deserved
<1>1. status = "EXTRACTING_TEXT" /\ pc = "ocr" /\ command = "pdftocairo"
  BY DEF Render, Running, Working
<1>2. CASE UNCHANGED jobVars
  BY <1>2, QuietDeserved DEF jobVars
<1>3. CASE CurrentPage \in {"huge", "damaged"}
  <2> DEFINE p == pdf.pages
             k == Len(seen) + 1
  <2>1. /\ pdf.parse = "pages" /\ p # <<>> /\ ~HasText
        /\ Len(seen) <= Len(p) /\ Len(seen) # Len(p)
        /\ \A i \in DOMAIN seen : seen[i] = p[i] /\ Harmless(seen[i])
    BY <1>1 DEF TextIInv, OcrKnows
  <2>2. p \in Seq(Page) /\ Len(p) \in Nat /\ DOMAIN p = 1 .. Len(p)
    BY PdfPages, LenProperties DEF TextIInv
  <2>3. Len(seen) \in Nat /\ DOMAIN seen = 1 .. Len(seen)
    BY LenProperties DEF TextIInv
  <2>4. k \in 1 .. Len(p) /\ 1 .. k - 1 = DOMAIN seen /\ p[k] = CurrentPage
    BY <2>1, <2>2, <2>3 DEF CurrentPage
  <2> HIDE DEF p, k
  <2>5. ~Harmless(p[k]) /\ \A i \in 1 .. k - 1 : Harmless(p[i])
    BY <1>3, <2>1, <2>4 DEF Harmless
  <2>6. FirstObstacle(p) = IF CurrentPage = "huge" THEN "pdf_resource_limit" ELSE "pdf_unreadable"
    BY <2>2, <2>4, <2>5, ObstacleIsFirst
  <2>7. Verdict(pdf) = FirstObstacle(p)
    BY <2>1, <2>6 DEF Verdict, HasText, p
  <2> QED
    BY <1>1, <1>3, <2>6, <2>7, ConcludeDeserved DEF Render
<1> QED
  BY <1>2, <1>3 DEF Render

(* When every page has been recognised, their quality decides.             *)
LEMMA JudgePagesDeserved == ASSUME TextIInv, JudgePages PROVE Deserved
<1>1. status = "EXTRACTING_TEXT" /\ pc = "ocr" /\ command = "none"
  BY DEF JudgePages, Running, Working
<1> DEFINE p == pdf.pages
<1>2. /\ pdf.parse = "pages" /\ p # <<>> /\ ~HasText
      /\ Len(seen) = Len(p)
      /\ \A i \in DOMAIN seen : seen[i] = p[i] /\ Harmless(seen[i])
  BY <1>1 DEF TextIInv, OcrKnows
<1>3. p \in Seq(Page) /\ DOMAIN p = 1 .. Len(p) /\ DOMAIN seen = 1 .. Len(seen)
  BY PdfPages, LenProperties DEF TextIInv
<1>4. DOMAIN seen = DOMAIN p
  BY <1>2, <1>3
<1>5. Verdict(pdf) = Quality(p)
  BY <1>2, <1>4, HarmlessVerdict
<1> DEFINE content == {p[i] : i \in DOMAIN p} \ {"blank"}
<1>6. Quality(p) = CASE content = {} -> "ocr_text_too_sparse"
                     [] "blurred" \in content -> "ocr_confidence_too_low"
                     [] "blurred" \notin content /\ "long" \in content -> "text_too_long"
                     [] OTHER -> "ready"
  BY DEF Quality
<1> DEFINE index == {i \in DOMAIN seen : seen[i] # "blank"}
<1>7. /\ index = {} <=> content = {}
      /\ (\E i \in index : seen[i] = "blurred") <=> "blurred" \in content
      /\ (\E i \in index : seen[i] = "long") <=> "long" \in content
  BY <1>2, <1>4, SMTT(30)
<1>8. \/ index = {} /\ Conclude("ocr_text_too_sparse")
      \/ /\ \E i \in index : seen[i] = "blurred"
         /\ Conclude("ocr_confidence_too_low")
      \/ /\ index # {} /\ \A i \in index : seen[i] # "blurred"
         /\ Conclude(IF \E i \in index : seen[i] = "long"
                     THEN "text_too_long" ELSE "ready")
  BY DEF JudgePages
<1> HIDE DEF index, content, p
<1>9. CASE index = {} /\ Conclude("ocr_text_too_sparse")
  <2>1. Quality(p) = "ocr_text_too_sparse"
    BY <1>6, <1>7, <1>9
  <2> QED
    BY <1>1, <1>5, <1>9, <2>1, ConcludeDeserved
<1>10. CASE /\ \E i \in index : seen[i] = "blurred"
            /\ Conclude("ocr_confidence_too_low")
  <2>1. Quality(p) = "ocr_confidence_too_low"
    BY <1>6, <1>7, <1>10
  <2> QED
    BY <1>1, <1>5, <1>10, <2>1, ConcludeDeserved
<1>11. CASE /\ index # {} /\ \A i \in index : seen[i] # "blurred"
            /\ Conclude(IF \E i \in index : seen[i] = "long"
                        THEN "text_too_long" ELSE "ready")
  <2>1. Quality(p) = IF \E i \in index : seen[i] = "long" THEN "text_too_long" ELSE "ready"
    BY <1>6, <1>7, <1>11
  <2> QED
    BY <1>1, <1>5, <1>11, <2>1, ConcludeDeserved
<1> QED
  BY <1>8, <1>9, <1>10, <1>11

(* A step of the text stage concludes what the PDF deserves.               *)
LEMMA TextDeserved == ASSUME TextIInv, TextNext PROVE Deserved
<1>1. status = "EXTRACTING_TEXT"
  BY TextStatus
<1>2. \/ Throw \/ UNCHANGED status
      \/ NativeAnswers \/ Render \/ JudgePages
  BY DEF TextNext, TextTimely, StartText, Listener, NativeTimeout, Undisturbed, Terminate,
         CommandFails, ThreadAnswers, ThreadEnds, ThreadFails, Recognise, Unreadable,
         TextDies, TextDisappears, Raise, Die, Disappear, jobVars
<1> QED
  BY <1>1, <1>2, ThrowDeserved, QuietDeserved, NativeAnswersDeserved, RenderDeserved,
     JudgePagesDeserved

(* An invoice goes on to data extraction only with a PDF that deserves it, *)
(* and fails only with the code of what is wrong with its PDF or because   *)
(* its retries are exhausted, in whatever order events arrive.             *)
THEOREM VerdictDeserved == Spec => VerdictIsDeserved
<1>1. IInv /\ [Next]_allVars => [Deserved]_vars
  <2> SUFFICES ASSUME IInv, [Next]_allVars PROVE Deserved \/ UNCHANGED vars
    OBVIOUS
  <2>1. CASE TextNext
    BY <2>1, TextDeserved DEF IInv
  <2>2. CASE DataNext
    BY <2>2, DataStatus DEF Deserved, Working
  <2>3. CASE UNCHANGED allVars
    BY <2>3 DEF allVars, vars
  <2> QED
    BY <2>1, <2>2, <2>3 DEF Next
<1> QED
  BY <1>1, AlwaysIInv, PTL DEF Spec, VerdictIsDeserved, Deserved

(* A step that starts another attempt at the text.                         *)
RetryStep == attempt' # attempt /\ status' = "EXTRACTING_TEXT" => attempt \in troubled'

(* The text is extracted again only when something outside the PDF went    *)
(* wrong in the attempt before: what the thread answered is never lost to  *)
(* its own exit, a late error or the timer.                                *)
THEOREM RetriesNeedReasons == Spec => RetriesNeedTrouble
<1>1. IInv /\ [Next]_allVars => [RetryStep]_vars
  <2> SUFFICES ASSUME IInv, [Next]_allVars PROVE RetryStep \/ UNCHANGED vars
    OBVIOUS
  <2>1. CASE TextNext
    <3>1. CASE NativeAnswers
      <4>1. CASE answer = "retry"
        <5>1. Throw /\ UNCHANGED troubled
          BY <3>1, <4>1 DEF NativeAnswers, Refusal
        <5>2. attempt \in troubled
          BY <3>1, <4>1 DEF NativeAnswers, Working, IInv, TextIInv, NativeKnows
        <5> QED
          BY <5>1, <5>2 DEF RetryStep
      <4>2. CASE answer # "retry"
        <5>1. (\E v : Conclude(v)) \/ UNCHANGED jobVars
          BY <3>1, <4>2 DEF NativeAnswers
        <5> QED
          BY <5>1 DEF Conclude, Fail, Advance, RetryStep, jobVars
      <4> QED
        BY <4>1, <4>2
    <3>2. CASE ~NativeAnswers
      <4>1. Trouble \/ (\E v : Conclude(v)) \/ UNCHANGED attempt
        BY <2>1, <3>2 DEF TextNext, TextTimely, StartText, Listener, NativeTimeout,
           Undisturbed, Terminate, CommandFails, JudgePages, ThreadAnswers, ThreadEnds,
           ThreadFails, Render, Recognise, Unreadable, TextDies, TextDisappears, Raise,
           Die, Disappear, jobVars
      <4> QED
        BY <4>1 DEF Trouble, Conclude, Fail, Advance, RetryStep
    <3> QED
      BY <3>1, <3>2
  <2>2. CASE DataNext
    BY <2>2, DataStatus DEF RetryStep
  <2>3. CASE UNCHANGED allVars
    BY <2>3 DEF allVars, vars
  <2> QED
    BY <2>1, <2>2, <2>3 DEF Next
<1> QED
  BY <1>1, AlwaysIInv, PTL DEF Spec, RetriesNeedTrouble, RetryStep

(* A step that leaves the native parser behind.                            *)
LeavesParser ==
    Working("native") /\ (pc' # "native" \/ attempt' # attempt)
        => thread = "over" \/ crashes' # crashes

(* The job goes on to OCR, to data extraction, to its failure or to its    *)
(* next attempt only when its parser thread is gone, or with the process.  *)
THEOREM ParserGoneFirst == Spec => ParserGone
<1>1. IInv /\ [Next]_allVars => [LeavesParser]_vars
  <2> SUFFICES ASSUME IInv, [Next]_allVars PROVE LeavesParser \/ UNCHANGED vars
    OBVIOUS
  <2>1. CASE TextNext
    <3> SUFFICES ASSUME Working("native"), thread # "over", crashes' = crashes
                 PROVE  UNCHANGED <<pc, attempt>>
      BY DEF LeavesParser, Working
    <3>1. ~TextDies
      BY DEF TextDies, Die, IInv, TextIInv, JobTypeOK
    <3> QED
      BY <2>1, <3>1
         DEF TextNext, TextTimely, StartText, Listener, NativeTimeout, Undisturbed, Terminate,
             NativeAnswers, CommandFails, JudgePages, ThreadAnswers, ThreadEnds, ThreadFails,
             Render, Recognise, Unreadable, TextDisappears, Working, Running, Raise,
             Disappear, jobVars, textVars
  <2>2. CASE DataNext
    BY <2>2, DataStatus DEF LeavesParser, Working
  <2>3. CASE UNCHANGED allVars
    BY <2>3 DEF allVars, vars
  <2> QED
    BY <2>1, <2>2, <2>3 DEF Next
<1> QED
  BY <1>1, AlwaysIInv, PTL DEF Spec, ParserGone, LeavesParser
=============================================================================
