---------------------------- MODULE InvoiceRules ----------------------------
(***************************************************************************)
(* What becomes of the data of one invoice: validated, mapped, judged by   *)
(* KoSIT, corrected by a reviewer on the review page, and validated again. *)
(* Queues, retries and concurrent requests are the business of the modules *)
(* StagePipeline and ReviewPipeline; here each decision is one step.       *)
(***************************************************************************)
EXTENDS XRechnungMapping, ReviewDraft

CONSTANTS Extracted,   \* invoices as the extraction may have read them
          Corrected,   \* invoices as an earlier correction may have left them
          Inputs,      \* what a reviewer may enter, per field
          MaxEdits,    \* bounds the changes of all drafts together
          MaxRows      \* bounds the line items, and the VAT breakdowns

VARIABLES stored,        \* the data the server has, Null when it is unreadable
          status,
          findings,      \* the failed ones
          document,      \* Null or the generated document and KoSIT's verdict
          decider,       \* who put the invoice where it is
          draft,         \* the reviewer's draft, Null when no page is open
          restructured,  \* the lists to which rows were added, or from which removed
          edits

\* Stored data is what the schema accepts, with VAT IDs in one form.
IsStored(data) ==
  /\ data \in InvoiceType
  /\ SchemaAccepts(data)
  /\ \A name \in Parties : data[name].vatId # Null => ~data[name].vatId.loose

\* Data has been stored, a reviewer enters what a field of the page can hold.
ASSUME RulesAssumption ==
  /\ \A data \in Extracted \cup Corrected : IsStored(data)
  /\ \A f \in TopLevelFields \cup PartyFields \cup LineItemFields \cup VatBreakdownFields :
       \A value \in Inputs[f] : FitsField(f, value)
  /\ MaxEdits \in Nat

vars == <<stored, status, findings, document, decider, draft, restructured, edits>>

Page == <<draft, restructured, edits>>

\* Data without or with an earlier correction, or no longer readable.
Init ==
  /\ \/ /\ stored \in Extracted \cup {Null}
        /\ status = "VALIDATING"
        /\ findings = {}
     \/ /\ stored \in Corrected
        /\ findings = ValidateExtractedInvoice(stored)
        /\ status = ReviewRoutingStatus(findings)
     \/ /\ stored = Null
        /\ status = "GENERATING"
        /\ findings = {}
  /\ document = Null
  /\ decider = "validation"
  /\ draft = Null
  /\ restructured = {}
  /\ edits = 0

-----------------------------------------------------------------------------
(* validation.processor.ts                                                 *)

Validate ==
  /\ status = "VALIDATING"
  /\ findings' = ValidateExtractedInvoice(stored)
  /\ status' = ReviewRoutingStatus(findings')
  /\ decider' = "validation"
  /\ UNCHANGED <<stored, document, Page>>

-----------------------------------------------------------------------------
(* generation.processor.ts                                                 *)

MappingRules ==
  {"mapping.schema", "mapping.generation_failed", "mapping.invoice_header", "mapping.currency",
   "mapping.amount_precision", "mapping.party_address", "mapping.party_country_code",
   "mapping.electronic_address", "mapping.electronic_address_scheme", "mapping.seller_tax_id",
   "mapping.line_item", "mapping.line_unit", "mapping.line_vat_category",
   "mapping.vat_breakdown", "mapping.vat_breakdown_category"}
KositRules == {"kosit.rule", "kosit.unspecified"}

\* rejectGeneration replaces the findings of the mapper only.
RejectGeneration(rejection) ==
  /\ status = "GENERATING"
  /\ findings' = {f \in findings : f.rule \notin MappingRules} \cup rejection
  /\ status' = "NEEDS_REVIEW"
  /\ decider' = "generation"
  /\ UNCHANGED <<stored, document, Page>>

RejectUnreadable ==
  /\ stored = Null
  /\ RejectGeneration({Error("mapping.schema", <<>>)})

RejectMapping ==
  /\ stored # Null
  /\ MappingFindings(stored) # {}
  /\ RejectGeneration(MappingFindings(stored))

IsMapped == stored # Null /\ MappingFindings(stored) = {}

\* The XML library finds the mapped invoice against its own schema.
RejectRendering ==
  /\ IsMapped
  /\ RejectGeneration({Error("mapping.generation_failed", <<>>)})

\* kosit-report.ts: messages of a report, by whether they name a rule, and level.
KositMessages == [code : {"rule", "unspecified"}, level : {"error", "warning", "other"}]

KositFinding(message) ==
  [rule |-> IF message.code = "rule" THEN "kosit.rule" ELSE "kosit.unspecified",
   field |-> <<>>,
   severity |-> CASE message.level = "error" -> "ERROR"
                  [] message.level = "warning" -> "WARNING"
                  [] OTHER -> "INFO"]

\* A bug: the findings are the messages, none when there are none.
KositMessageFindings(messages) == {KositFinding(m) : m \in messages}

\* A report may reject without a message.
KositRejectionFindings(messages) ==
  IF messages = {}
  THEN {Error("kosit.unspecified", <<>>)}
  ELSE {KositFinding(m) : m \in messages}

CompleteGeneration(valid, rejection) ==
  /\ status = "GENERATING"
  /\ IsMapped
  /\ document' = [content |-> Document(stored), isValid |-> valid]
  /\ findings' = {f \in findings : f.rule \notin KositRules} \cup rejection
  /\ status' = IF valid THEN "READY" ELSE "NEEDS_REVIEW"
  /\ decider' = "generation"
  /\ UNCHANGED <<stored, Page>>

Accept == CompleteGeneration(TRUE, {})

RejectByKosit ==
  \E messages \in {{}} \cup {{m} : m \in KositMessages} :
    CompleteGeneration(FALSE, KositRejectionFindings(messages))

-----------------------------------------------------------------------------
(* The review page.                                                        *)

Open ==
  /\ status = "NEEDS_REVIEW"
  /\ stored # Null
  /\ draft = Null
  /\ draft' = stored
  /\ restructured' = {}
  /\ UNCHANGED <<stored, status, findings, document, decider, edits>>

Change(next, lists) ==
  /\ edits < MaxEdits
  /\ edits' = edits + 1
  /\ draft' = next
  /\ restructured' = restructured \cup lists
  /\ UNCHANGED <<stored, status, findings, document, decider>>

Edit ==
  /\ draft # Null
  /\ \E path \in Paths(draft) : \E value \in Inputs[FieldOf(path)] \ {At(draft, path)} :
       Change(Update(draft, path, value), {})

AddRow ==
  /\ draft # Null
  /\ \/ /\ Len(draft.lineItems) < MaxRows
        /\ Change(AddLineItem(draft), {"lineItems"})
     \/ /\ Len(draft.vatBreakdown) < MaxRows
        /\ Change(AddVatBreakdown(draft), {"vatBreakdown"})

RemoveRow ==
  /\ draft # Null
  /\ \/ \E i \in DOMAIN draft.lineItems : Change(RemoveLineItem(draft, i), {"lineItems"})
     \/ \E i \in DOMAIN draft.vatBreakdown :
          Change(RemoveVatBreakdown(draft, i), {"vatBreakdown"})

\* The page sends a draft without blocking issues that its own copy of the
\* schema accepts; the server parses, validates and stores it, and a document
\* of earlier data goes.  The page then loads the invoice anew.
Submit ==
  /\ draft # Null
  /\ BlockingIssues(draft) = {}
  /\ SchemaAccepts(draft)
  /\ stored' = Parse(draft)
  /\ findings' = ValidateExtractedInvoice(stored')
  /\ status' = ReviewRoutingStatus(findings')
  /\ document' = Null
  /\ decider' = "validation"
  /\ draft' = Null
  /\ restructured' = {}
  /\ UNCHANGED edits

\* review.service.ts enqueueGeneration: a correction whose job cannot be
\* published returns to review, with the findings it has.
EnqueueFails ==
  /\ status = "GENERATING"
  /\ stored # Null
  /\ decider = "validation"
  /\ status' = "NEEDS_REVIEW"
  /\ decider' = "queue"
  /\ UNCHANGED <<stored, findings, document, Page>>

Next ==
  \/ Validate
  \/ RejectUnreadable \/ RejectMapping \/ RejectRendering
  \/ Accept \/ RejectByKosit
  \/ Open \/ Edit \/ AddRow \/ RemoveRow \/ Submit \/ EnqueueFails

Spec == Init /\ [][Next]_vars

-----------------------------------------------------------------------------
(* The steps the page shows (web lib/pipeline/stages.ts), for an invoice   *)
(* that has not failed: 0 uploaded, 1 text, 2 data, 3 checked, 4 generated.*)

StopsAtGenerationStage(shown) == \E f \in shown : f.rule \in MappingRules \cup KositRules

ActiveIndex(state, shown) ==
  CASE state = "VALIDATING" -> 3
    [] state = "NEEDS_REVIEW" -> IF StopsAtGenerationStage(shown) THEN 4 ELSE 3
    [] state = "GENERATING" -> 4
    [] state = "READY" -> 5

ResolvePipeline(state, shown) ==
  LET active == ActiveIndex(state, shown)
  IN  [i \in 0 .. 4 |->
         IF i < active THEN "done"
         ELSE IF i > active THEN "pending"
         ELSE IF state = "NEEDS_REVIEW" THEN "stopped" ELSE "active"]

-----------------------------------------------------------------------------
(* Properties.                                                             *)

\* The values of the variables: what is stored always satisfies the schema,
\* a draft may not; only an invoice in review has one.
RulesTypeOK ==
  /\ stored = Null \/ IsStored(stored)
  /\ draft # Null => draft \in InvoiceType /\ status = "NEEDS_REVIEW"
  /\ status \in {"VALIDATING", "NEEDS_REVIEW", "GENERATING", "READY"}
  /\ \A f \in findings : f.severity \in {"ERROR", "WARNING", "INFO"}
  /\ decider \in {"validation", "generation", "queue"}
  /\ restructured \subseteq {"lineItems", "vatBreakdown"}
  /\ edits \in 0 .. MaxEdits

\* The rules by which the mapper refuses what the validation lets pass:
\* the last two are warnings there, or not looked at.
KnownGaps ==
  {"mapping.line_unit", "mapping.line_vat_category", "mapping.seller_tax_id",
   "mapping.party_country_code", "mapping.electronic_address_scheme"}

\* Validation and mapper agree: an invoice that was sent to generation is
\* refused by the mapper for one of the known gaps, and for nothing else
\* (completeness.ts, arithmetic.ts against xrechnung-mapper.ts).
MapsWhatValidationPasses ==
  status = "GENERATING" /\ stored # Null
    => {f.rule : f \in MappingFindings(stored)} \subseteq KnownGaps

\* The rule under which the server finds what the page has an issue with.  A
\* point meant for thousands is one no rule names: in an amount, it makes a
\* third place of cents.
AnticipatedRule(code) ==
  IF code = "thousandsSeparator" THEN "format.monetary_precision" ELSE MirroredRule[code]

\* Every issue the page finds in a draft is found by the server too, at the same
\* field, and as an error when the page does not let the draft through: the
\* page never refuses what the server would take.  One warning is the page's
\* own: a unit price may have any number of places, and 1.234 may be meant
\* (draft.ts against formats.ts and completeness.ts).
PageAgreesWithServer ==
  draft # Null /\ SchemaAccepts(draft) =>
    \A issue \in DraftIssues(draft) :
      \/ issue.code = "thousandsSeparator" /\ issue.path \in UnitPricePaths(draft)
      \/ \E f \in ValidateExtractedInvoice(Parse(draft)) :
           /\ f.rule = AnticipatedRule(issue.code)
           /\ f.field = issue.path
           /\ issue.blocking => f.severity = "ERROR"

\* Rules that read a field besides the one their finding names, and the
\* decisions that a validation does not repeat.
ReadsOtherFields ==
  {"arithmetic.line_net", "arithmetic.line_sum", "arithmetic.vat_base_sum",
   "arithmetic.vat_amount", "arithmetic.vat_total", "arithmetic.gross",
   "mandatory.seller_tax_id", "mandatory.payment_terms", "mandatory.vat_category",
   "mandatory.vat_category_reason", "mandatory.vat_category_seller_vat_id",
   "mandatory.vat_category_buyer_identity"}
  \cup MappingRules \cup KositRules

\* A finding that the confirmation shows as "not edited" is still there after
\* the submission, unless its rule reads other fields, or it is about a whole
\* list: a row without values that was added or removed counts as no change,
\* and may settle it nevertheless (confirm-panel.tsx, draft.ts:406-423).
UntouchedFindingsRemain ==
  draft # Null /\ SchemaAccepts(draft) =>
    \A f \in Untouched(DropStaleCollectionFindings(findings, restructured),
                       DiffDraft(stored, draft)) :
      \/ f.rule \in ReadsOtherFields
      \/ \E list \in restructured : f.field = <<list>>
      \/ f \in ValidateExtractedInvoice(Parse(draft))

\* An invoice in review is shown as stopped at the step that sent it there,
\* whatever KoSIT's messages and their levels; and it has a finding that says
\* why, an error when it was not KoSIT's, unless its correction could not be
\* published (stages.ts:82-89, generation.processor.ts:44-60).
StopsAreExplained ==
  status = "NEEDS_REVIEW" =>
    LET shown == ResolvePipeline(status, findings)
    IN  /\ IF decider = "generation"
           THEN shown[4] = "stopped" /\ shown[3] = "done"
           ELSE shown[3] = "stopped" /\ shown[4] = "pending"
        /\ \/ Errors(findings) # {}
           \/ decider = "generation" /\ {f \in findings : f.rule \in KositRules} # {}
           \/ decider = "queue"

\* The same number, in whatever form it was written.
SameNumber(v, w) ==
  v.coefficient * PowerOfTen[w.scale] = w.coefficient * PowerOfTen[v.scale]

\* A line takes the category of the breakdown with its rate, in whatever form
\* the two rates were written (canonicalDecimalKey, xrechnung-mapper.ts:204-248):
\* the document never shows two categories for one rate, and the mapper does not
\* refuse a line whose rate has one category that fits.
LinesShareTheirBreakdown ==
  /\ document # Null =>
       \A i \in DOMAIN document.content.lines, j \in DOMAIN document.content.subtotals :
         LET line == document.content.lines[i]
             subtotal == document.content.subtotals[j]
         IN  SameNumber(line.percent, subtotal.percent) => line.category = subtotal.category
  /\ status = "GENERATING" /\ stored # Null =>
       \A i \in DOMAIN stored.lineItems :
         LET rate == stored.lineItems[i].vatRate
             categories == {entry.category :
                              entry \in {e \in Range(stored.vatBreakdown) :
                                           e.rate # Null /\ SameNumber(rate, e.rate)}}
         IN  rate # Null /\ Cardinality(categories) = 1
               => Error("mapping.line_vat_category", <<"lineItems", i, "vatRate">>)
                    \notin MappingFindings(stored)

Times(v, w) == Dec(v.coefficient * w.coefficient, v.scale + w.scale)
Percent(v, w) == Dec(v.coefficient * w.coefficient, v.scale + w.scale + 2)

\* A number in units of its last place, if it had that many places.
InUnits(value, places) == value.coefficient * PowerOfTen[places - value.scale]

\* The exact sum of the numbers is within 1.5 cents per number, and one for the
\* sum, of the amount in cents: all in units of the last place any number has.
SumsTo(numbers, cents) ==
  LET places == Max({2} \cup {numbers[i].scale : i \in DOMAIN numbers})
      cent == PowerOfTen[places - 2]
      exact == MapThenSumSet(LAMBDA i : InUnits(numbers[i], places), DOMAIN numbers)
  IN  2 * Abs(exact - cent * cents) <= (3 * Len(numbers) + 2) * cent

\* The tolerances of one cent, and the rounding of each row, do not add up to
\* more than they should: the totals of a document are within 1.5 cents per row,
\* and one for the sum, of the exact amounts, and what is payable is exact
\* (arithmetic.ts, decimal.ts:27-40).
TotalsReflectTheRows ==
  document # Null =>
    LET content == document.content
        lines == content.lines
        subtotals == content.subtotals
    IN  /\ SumsTo([i \in DOMAIN lines |-> Times(lines[i].quantity, lines[i].price)],
                  content.net)
        /\ SumsTo([i \in DOMAIN subtotals |->
                      Percent(subtotals[i].base, subtotals[i].percent)],
                  content.tax)
        /\ content.payable = content.net + content.tax

=============================================================================
