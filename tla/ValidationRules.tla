-------------------------- MODULE ValidationRules --------------------------
(***************************************************************************)
(* The rules an invoice is validated by (validation/).  A rule is a set of *)
(* failed findings: a rule that passes, or that does not apply, adds none. *)
(***************************************************************************)
EXTENDS InvoiceData, FiniteSetsExt

Error(rule, field) == [rule |-> rule, field |-> field, severity |-> "ERROR"]
Warning(rule, field) == [rule |-> rule, field |-> field, severity |-> "WARNING"]
Unless(passed, finding) == IF passed THEN {} ELSE {finding}

IsCalendarDate(date) == date # Impossible

-----------------------------------------------------------------------------
(* rules/formats.ts: precision of amounts.                                 *)

MonetaryPaths(data) ==
  {<<"netTotal">>, <<"vatTotal">>, <<"grossTotal">>}
  \cup {<<"lineItems", i, "netAmount">> : i \in DOMAIN data.lineItems}
  \cup ({"vatBreakdown"} \X (DOMAIN data.vatBreakdown) \X {"base", "amount"})

ValidateMonetaryPrecision(data) ==
  {Error("format.monetary_precision", path) :
     path \in {p \in MonetaryPaths(data) :
                 At(data, p) # Null /\ ~HasMinorUnits(At(data, p))}}

-----------------------------------------------------------------------------
(* rules/arithmetic.ts.  A sum that cannot be computed fails its rule.     *)

IsAmount(amount) == amount # Null /\ HasMinorUnits(amount)

IsWithinTolerance(expected, actual, tolerance) == Abs(expected - actual) <= tolerance

LineNetAgrees(line) ==
  /\ line.quantity # Null
  /\ line.unitPrice # Null
  /\ IsAmount(line.netAmount)
  /\ IsWithinTolerance(ProductInMinorUnits(line.quantity, line.unitPrice),
                       ToMinorUnits(line.netAmount), 1)

VatAmountAgrees(entry) ==
  /\ IsAmount(entry.base)
  /\ entry.rate # Null
  /\ IsAmount(entry.amount)
  /\ IsWithinTolerance(PercentageOfInMinorUnits(entry.base, entry.rate),
                       ToMinorUnits(entry.amount), 1)

\* A bug: a tolerance of one cent more.
SumNearlyAgrees(rows, field, total) ==
  /\ \A i \in DOMAIN rows : IsAmount(rows[i][field])
  /\ IsAmount(total)
  /\ IsWithinTolerance(
       MapThenSumSet(LAMBDA i : ToMinorUnits(rows[i][field]), DOMAIN rows),
       ToMinorUnits(total), 2)

\* The given field of the rows adds up to the total.
SumAgrees(rows, field, total) ==
  /\ \A i \in DOMAIN rows : IsAmount(rows[i][field])
  /\ IsAmount(total)
  /\ IsWithinTolerance(
       MapThenSumSet(LAMBDA i : ToMinorUnits(rows[i][field]), DOMAIN rows),
       ToMinorUnits(total), 1)

GrossAgrees(data) ==
  /\ \A f \in {"netTotal", "vatTotal", "grossTotal"} : IsAmount(data[f])
  /\ ToMinorUnits(data.netTotal) + ToMinorUnits(data.vatTotal)
       = ToMinorUnits(data.grossTotal)

ValidateArithmetic(data) ==
  LET lines == data.lineItems
      entries == data.vatBreakdown
  IN  {Error("arithmetic.line_net", <<"lineItems", i, "netAmount">>) :
         i \in {j \in DOMAIN lines : ~LineNetAgrees(lines[j])}}
      \cup Unless(SumAgrees(lines, "netAmount", data.netTotal),
                  Error("arithmetic.line_sum", <<"netTotal">>))
      \cup Unless(SumAgrees(entries, "base", data.netTotal),
                  Error("arithmetic.vat_base_sum", <<"netTotal">>))
      \cup {Error("arithmetic.vat_amount", <<"vatBreakdown", i, "amount">>) :
              i \in {j \in DOMAIN entries : ~VatAmountAgrees(entries[j])}}
      \cup Unless(SumAgrees(entries, "amount", data.vatTotal),
                  Error("arithmetic.vat_total", <<"vatTotal">>))
      \cup Unless(GrossAgrees(data), Error("arithmetic.gross", <<"grossTotal">>))

-----------------------------------------------------------------------------
(* rules/formats.ts                                                        *)

VatIdFormat(name, vatId) ==
  LET field == <<name, "vatId">>
  IN  Unless(VatIdHasValidSyntax(vatId), Error("format.vat_id_syntax", field))
      \cup Unless(VatIdHasAllowedPrefix(vatId), Error("format.vat_id_prefix", field))
      \cup Unless(\/ vatId.loose       \* "de..." does not start with "DE"
                  \/ ~IsGermanVatId(vatId)
                  \/ ~VatIdHasValidSyntax(vatId)
                  \/ VatIdHasValidChecksum(vatId),
                  Error("format.vat_id_checksum", field))

PartyFormats(name, party) ==
  (IF party.vatId = Null THEN {} ELSE VatIdFormat(name, party.vatId))
  \cup Unless(party.countryCode # "XX", Warning("format.country_code", <<name, "countryCode">>))
  \cup Unless(party.countryCode = "DE" /\ party.postalCode # Null => party.postalCode = "five",
              Warning("format.postal_code_de", <<name, "postalCode">>))
  \cup Unless(party.contactEmail \in {Null, "email"},
              Warning("format.email", <<name, "contactEmail">>))
  \cup Unless(party.contactPhone \in {Null, "phone"},
              Warning("format.phone", <<name, "contactPhone">>))

ValidateFormats(data) ==
  (UNION {PartyFormats(name, data[name]) : name \in Parties})
  \cup {Error("format.calendar_date", <<f>>) :
          f \in {g \in {"issueDate", "dueDate", "deliveryDate"} : ~IsCalendarDate(data[g])}}
  \cup Unless(data.sellerIban \in {Null, "iban"},
              Error("format.iban_checksum", <<"sellerIban">>))
  \cup Unless(data.sellerBic \in {Null, "bic"}, Warning("format.bic", <<"sellerBic">>))
  \cup Unless(data.currency # "XXQ", Error("format.currency", <<"currency">>))
  \cup Unless(data.buyerReference # "checksum",
              Warning("format.leitweg_id_checksum", <<"buyerReference">>))

-----------------------------------------------------------------------------
(* rules/completeness.ts                                                   *)

HasCategory(data, categories) ==
  \E i \in DOMAIN data.vatBreakdown : data.vatBreakdown[i].category \in categories

\* A bug: any category but S may stand beside a positive rate.
ExemptCategoryMatchesAnyRate(entry) ==
  entry.category \in {Null, "S"} => entry.rate.coefficient > 0

CategoryMatchesRate(entry) ==
  IF entry.category \in {Null, "S"}
  THEN entry.rate.coefficient > 0
  ELSE entry.rate.coefficient = 0

PartyCompleteness(name, party) ==
  {Error(IF name = "seller" THEN "mandatory.seller_identity"
                            ELSE "mandatory.buyer_identity", <<name, f>>) :
     f \in {g \in {"name", "postalCode", "city", "countryCode"} : ~IsPresent(party[g])}}
  \cup Unless(IsPresent(party.street), Warning("mandatory.party_street", <<name, "street">>))
  \cup {Error("mandatory.electronic_address", <<name, f>>) :
          f \in {g \in {"electronicAddress", "electronicAddressScheme"} :
                   ~IsPresent(party[g])}}

LineCompleteness(i, line) ==
  Unless(line.vatRate # Null \/ IsPresent(line.vatExemptionReason),
         Error("mandatory.line_vat_rate_or_exemption", <<"lineItems", i>>))

BreakdownCompleteness(i, entry) ==
  Unless(\/ entry.rate # Null /\ entry.amount # Null
         \/ IsPresent(entry.exemptionReason),
         Error("mandatory.vat_rate_or_exemption", <<"vatBreakdown", i>>))
  \cup Unless(entry.rate # Null => CategoryMatchesRate(entry),
              Error("mandatory.vat_category", <<"vatBreakdown", i, "category">>))
  \cup Unless(entry.category = "E" => IsPresent(entry.exemptionReason),
              Error("mandatory.vat_category_reason", <<"vatBreakdown", i, "exemptionReason">>))

CategoryCompleteness(data) ==
  Unless(HasCategory(data, {"K"}) => VatIdIsPresent(data.seller.vatId),
         Error("mandatory.vat_category_seller_vat_id", <<"seller", "vatId">>))
  \cup Unless(HasCategory(data, {"AE", "K"}) => VatIdIsPresent(data.buyer.vatId),
              Error("mandatory.vat_category_buyer_identity", <<"buyer", "vatId">>))

\* COMPLETENESS_RULES.
HeaderCompleteness(data) ==
  LET lines == data.lineItems
  IN  Unless(VatIdIsPresent(data.seller.vatId) \/ IsPresent(data.seller.taxNumber),
             Error("mandatory.seller_tax_id", <<"seller", "vatId">>))
      \cup Unless(data.issueDate # Null, Error("mandatory.issue_date", <<"issueDate">>))
      \cup Unless(IsPresent(data.invoiceNumber),
                  Error("mandatory.invoice_number", <<"invoiceNumber">>))
      \cup Unless(data.currency # Null, Error("mandatory.currency", <<"currency">>))
      \cup Unless(IsPresent(data.buyerReference),
                  Error("mandatory.buyer_reference", <<"buyerReference">>))
      \cup Unless(IsAmount(data.grossTotal) /\ ToMinorUnits(data.grossTotal) > 0
                    => data.dueDate # Null \/ IsPresent(data.paymentTerms),
                  Error("mandatory.payment_terms", <<"paymentTerms">>))
      \cup Unless(IsPresent(data.sellerIban), Warning("mandatory.seller_iban", <<"sellerIban">>))
      \cup Unless(/\ lines # <<>>
                  /\ \A i \in DOMAIN lines : IsPresent(lines[i].description)
                                             /\ lines[i].quantity # Null,
                  Error("mandatory.line_descriptions", <<"lineItems">>))
      \cup Unless(/\ lines # <<>>
                  /\ \A i \in DOMAIN lines : lines[i].netAmount # Null,
                  Error("mandatory.line_amounts", <<"lineItems">>))
      \cup Unless(data.deliveryDate # Null,
                  Warning("mandatory.delivery_date", <<"deliveryDate">>))
      \cup Unless(data.vatBreakdown # <<>>,
                  Error("mandatory.vat_breakdown", <<"vatBreakdown">>))

ValidateCompleteness(data) ==
  (UNION {PartyCompleteness(name, data[name]) : name \in Parties})
  \cup {Error("mandatory.seller_contact", <<"seller", f>>) :
          f \in {g \in {"contactName", "contactEmail", "contactPhone"} :
                   ~IsPresent(data.seller[g])}}
  \cup (UNION {LineCompleteness(i, data.lineItems[i]) : i \in DOMAIN data.lineItems})
  \cup (UNION {BreakdownCompleteness(i, data.vatBreakdown[i]) :
                i \in DOMAIN data.vatBreakdown})
  \cup CategoryCompleteness(data)
  \cup {Error("mandatory.monetary_total", <<f>>) :
          f \in {g \in {"netTotal", "vatTotal", "grossTotal"} : data[g] = Null}}
  \cup HeaderCompleteness(data)

-----------------------------------------------------------------------------
(* rules/plausibility.ts                                                   *)

EarliestDay == -3652   \* ten years before the validation
LatestDay == 365       \* one year after it
MagnitudeLimit == 1000000000

BreakdownPlausibility(i, entry) ==
  IF entry.rate = Null
  THEN {}
  ELSE LET key == CanonicalDecimalKey(entry.rate)
       IN  Unless(key \in {<<19, 0>>, <<7, 0>>, <<0, 0>>},
                  Warning("plausible.vat_rate", <<"vatBreakdown", i, "rate">>))
           \cup Unless(key = <<0, 0>> => IsPresent(entry.exemptionReason),
                       Warning("plausible.zero_vat_reason",
                               <<"vatBreakdown", i, "exemptionReason">>))

ValidatePlausibility(data) ==
  LET issued == data.issueDate
      delivered == data.deliveryDate
      totals == {"netTotal", "vatTotal", "grossTotal"}
  IN  (UNION {BreakdownPlausibility(i, data.vatBreakdown[i]) : i \in DOMAIN data.vatBreakdown})
      \cup Unless(issued \in {Null, Impossible} \/ issued \in EarliestDay .. LatestDay,
                  Warning("plausible.date_range", <<"issueDate">>))
      \cup Unless(\/ {issued, delivered} \cap {Null, Impossible} # {}
                  \/ delivered <= issued,
                  Warning("plausible.date_order", <<"deliveryDate">>))
      \cup Unless((\A f \in totals : IsAmount(data[f]))
                    => \A f \in totals : ToMinorUnits(data[f]) >= 0,
                  Warning("plausible.positive_amounts", <<"totals">>))
      \cup Unless(data.lineItems # <<>>, Error("plausible.line_count", <<"lineItems">>))
      \cup Unless(IsAmount(data.grossTotal) => ToMinorUnits(data.grossTotal) < MagnitudeLimit,
                  Warning("plausible.magnitude", <<"grossTotal">>))

-----------------------------------------------------------------------------
(* invoice-validator.ts                                                    *)

\* No stored data, or data that its schema no longer accepts, is Null.
ValidateExtractedInvoice(data) ==
  IF data = Null
  THEN {Error("schema.extracted_data", <<>>)}
  ELSE ValidateMonetaryPrecision(data)
       \cup ValidateArithmetic(data)
       \cup ValidateFormats(data)
       \cup ValidateCompleteness(data)
       \cup ValidatePlausibility(data)

Errors(findings) == {f \in findings : f.severity = "ERROR"}

ReviewRoutingStatus(findings) ==
  IF Errors(findings) # {} THEN "NEEDS_REVIEW" ELSE "GENERATING"

=============================================================================
