-------------------------- MODULE XRechnungMapping -------------------------
(***************************************************************************)
(* From validated data to an XRechnung (generation/xrechnung-mapper.ts):   *)
(* the findings that refuse data, and what the properties need of the      *)
(* document when there are none.                                           *)
(***************************************************************************)
EXTENDS ValidationRules

RequireText(text, rule, field) == Unless(IsPresent(text), Error(rule, field))
RequireValue(value, rule, field) == Unless(value # Null, Error(rule, field))

RequireAmount(amount, rule, field) ==
  IF amount # Null /\ ~HasMinorUnits(amount)
  THEN {Error("mapping.amount_precision", field)}
  ELSE RequireValue(amount, rule, field)

-----------------------------------------------------------------------------
(* Parties.                                                                *)

\* The country is looked up once post code, city and country are there.
ResolvePostalAddress(name, party) ==
  LET missing == {f \in {"postalCode", "city", "countryCode"} : ~IsPresent(party[f])}
  IN  IF missing # {}
      THEN {Error("mapping.party_address", <<name, f>>) : f \in missing}
      ELSE Unless(party.countryCode # "XX",
                  Error("mapping.party_country_code", <<name, "countryCode">>))

ResolveElectronicAddress(name, party) ==
  LET missing == {f \in {"electronicAddress", "electronicAddressScheme"} :
                    ~IsPresent(party[f])}
  IN  IF missing # {}
      THEN {Error("mapping.electronic_address", <<name, f>>) : f \in missing}
      ELSE Unless(party.electronicAddressScheme = "EM",
                  Error("mapping.electronic_address_scheme",
                        <<name, "electronicAddressScheme">>))

ResolveParty(name, party) ==
  RequireText(party.name, "mapping.party_address", <<name, "name">>)
  \cup ResolvePostalAddress(name, party)
  \cup ResolveElectronicAddress(name, party)

\* A tax number alone is not mapped.
ResolveSellerParty(seller) ==
  ResolveParty("seller", seller)
  \cup Unless(VatIdIsPresent(seller.vatId),
              Error("mapping.seller_tax_id", <<"seller", "vatId">>))

-----------------------------------------------------------------------------
(* VAT categories.                                                         *)

\* Without a category, or with S, the rate must be positive; otherwise zero.
ResolvesVatCategory(rate, category) ==
  /\ rate # Null
  /\ IF category \in {Null, "S"} THEN rate.coefficient > 0 ELSE rate.coefficient = 0

VatCategory(category) == IF category = Null THEN "S" ELSE category

\* The categories that the breakdown of the line's rate has.
RateCategories(data, rate) ==
  IF rate = Null
  THEN {}
  ELSE {data.vatBreakdown[i].category :
          i \in {j \in DOMAIN data.vatBreakdown :
                   /\ data.vatBreakdown[j].rate # Null
                   /\ CanonicalDecimalKey(data.vatBreakdown[j].rate)
                        = CanonicalDecimalKey(rate)}}

\* A line has no category of its own: it takes the one of its rate.
LineCategory(data, rate) ==
  LET categories == RateCategories(data, rate)
  IN  IF categories = {} THEN Null ELSE CHOOSE c \in categories : TRUE

ResolvesLineItemVatCategory(data, rate) ==
  /\ \A c, d \in RateCategories(data, rate) : c = d
  /\ ResolvesVatCategory(rate, LineCategory(data, rate))

ResolveVatExemption(category, reason, field) ==
  IF category = "E"
  THEN RequireText(reason, "mapping.vat_breakdown_category", field)
  ELSE {}

-----------------------------------------------------------------------------
(* Lines and breakdowns.                                                   *)

\* contracts/units.ts.
UnitIsKnown(unit) == unit = "Stk."

ResolveLineItem(data, i) ==
  LET line == data.lineItems[i]
      Field(f) == <<"lineItems", i, f>>
  IN  RequireText(line.description, "mapping.line_item", Field("description"))
      \cup RequireValue(line.quantity, "mapping.line_item", Field("quantity"))
      \cup RequireAmount(line.netAmount, "mapping.line_item", Field("netAmount"))
      \cup Unless(UnitIsKnown(line.unit), Error("mapping.line_unit", Field("unit")))
      \cup Unless(ResolvesLineItemVatCategory(data, line.vatRate),
                  Error("mapping.line_vat_category", Field("vatRate")))
      \cup RequireValue(line.unitPrice, "mapping.line_item", Field("unitPrice"))

\* The currency of the document, once it is known and supported.
ResolvesCurrency(data) == data.currency \notin {Null, "XXQ"}

\* The exemption is looked at only when the rest of the entry resolves.
ResolveVatSubtotal(data, i) ==
  LET entry == data.vatBreakdown[i]
      Field(f) == <<"vatBreakdown", i, f>>
      findings ==
        RequireAmount(entry.base, "mapping.vat_breakdown", Field("base"))
        \cup RequireAmount(entry.amount, "mapping.vat_breakdown", Field("amount"))
        \cup Unless(ResolvesVatCategory(entry.rate, entry.category),
                    Error("mapping.vat_breakdown_category", Field("rate")))
  IN  IF findings = {} /\ ResolvesCurrency(data)
      THEN ResolveVatExemption(VatCategory(entry.category), entry.exemptionReason,
                               Field("exemptionReason"))
      ELSE findings

-----------------------------------------------------------------------------
(* mapToXRechnungInvoice.                                                  *)

ResolveHeader(data) ==
  RequireText(data.invoiceNumber, "mapping.invoice_header", <<"invoiceNumber">>)
  \cup RequireValue(data.issueDate, "mapping.invoice_header", <<"issueDate">>)
  \cup RequireText(data.buyerReference, "mapping.invoice_header", <<"buyerReference">>)
  \cup RequireValue(data.currency, "mapping.invoice_header", <<"currency">>)
  \cup Unless(data.currency # "XXQ", Error("mapping.currency", <<"currency">>))
  \cup (UNION {RequireAmount(data[f], "mapping.invoice_header", <<f>>) :
                f \in {"netTotal", "vatTotal", "grossTotal"}})

MappingFindings(data) ==
  ResolveHeader(data)
  \cup ResolveSellerParty(data.seller)
  \cup ResolveParty("buyer", data.buyer)
  \cup Unless(data.lineItems # <<>>, Error("mapping.line_item", <<"lineItems">>))
  \cup Unless(data.vatBreakdown # <<>>, Error("mapping.vat_breakdown", <<"vatBreakdown">>))
  \cup (UNION {ResolveLineItem(data, i) : i \in DOMAIN data.lineItems})
  \cup (UNION {ResolveVatSubtotal(data, i) : i \in DOMAIN data.vatBreakdown})

\* The delivery address of an intra-community supply is the buyer's.
ResolveDelivery(data) ==
  [date |-> data.deliveryDate,
   countryCode |-> IF HasCategory(data, {"K"}) THEN data.buyer.countryCode ELSE Null]

\* The document of data without mapping findings.
Document(data) ==
  [lines |-> [i \in DOMAIN data.lineItems |->
                LET line == data.lineItems[i]
                IN  [net |-> ToMinorUnits(line.netAmount),
                     quantity |-> line.quantity,
                     price |-> line.unitPrice,
                     category |-> VatCategory(LineCategory(data, line.vatRate)),
                     percent |-> line.vatRate]],
   subtotals |-> [i \in DOMAIN data.vatBreakdown |->
                    LET entry == data.vatBreakdown[i]
                    IN  [base |-> entry.base,
                         tax |-> ToMinorUnits(entry.amount),
                         category |-> VatCategory(entry.category),
                         percent |-> entry.rate]],
   net |-> ToMinorUnits(data.netTotal),
   tax |-> ToMinorUnits(data.vatTotal),
   payable |-> ToMinorUnits(data.grossTotal),
   delivery |-> ResolveDelivery(data)]

=============================================================================
