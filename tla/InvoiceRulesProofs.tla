-------------------------- MODULE InvoiceRulesProofs --------------------------
(***************************************************************************)
(* What InvoiceRules satisfies for every invoice, every correction and     *)
(* every number of edits.                                                  *)
(***************************************************************************)
EXTENDS InvoiceRules, SequenceTheorems, FiniteSetTheorems, TLAPS

(* The data has been validated, and no rule has found an error.            *)
Passes(data) == data # Null /\ Errors(ValidateExtractedInvoice(data)) = {}

(* An error is an error, whatever its rule and its field.                  *)
LEMMA ErrorIsError == \A rule, field : Error(rule, field).severity = "ERROR"
BY DEF Error

(* No group of rules finds an error in data that passes.                   *)
LEMMA NoErrors ==
    ASSUME NEW data, Passes(data), NEW rule, NEW field
    PROVE  /\ Error(rule, field) \notin ValidateArithmetic(data)
           /\ Error(rule, field) \notin ValidateFormats(data)
           /\ Error(rule, field) \notin ValidateCompleteness(data)
BY ErrorIsError DEF Passes, Errors, ValidateExtractedInvoice

-------------------------------------------------------------------------------
(* What passing data has (completeness.ts, arithmetic.ts, formats.ts).     *)

(* The header and the lists are there.                                     *)
LEMMA HeaderIsComplete ==
    ASSUME NEW data, Passes(data)
    PROVE  /\ IsPresent(data.invoiceNumber) /\ IsPresent(data.buyerReference)
           /\ data.issueDate # Null /\ data.currency # Null
           /\ data.lineItems # <<>> /\ data.vatBreakdown # <<>>
           /\ \A i \in DOMAIN data.lineItems : IsPresent(data.lineItems[i].description)
<1>. HeaderCompleteness(data) \subseteq ValidateCompleteness(data)
  BY DEF ValidateCompleteness
<1>1. \A rule, field : Error(rule, field) \notin HeaderCompleteness(data)
  BY NoErrors
<1>2. IsPresent(data.invoiceNumber)
  BY <1>1 DEF HeaderCompleteness, Unless
<1>5. IsPresent(data.buyerReference)
  BY <1>1 DEF HeaderCompleteness, Unless
<1>3. data.issueDate # Null /\ data.currency # Null /\ data.vatBreakdown # <<>>
  BY <1>1 DEF HeaderCompleteness, Unless
<1>4. /\ data.lineItems # <<>>
      /\ \A i \in DOMAIN data.lineItems : IsPresent(data.lineItems[i].description)
  BY <1>1 DEF HeaderCompleteness, Unless
<1> QED BY <1>2, <1>3, <1>4, <1>5

(* Both parties have an address and an electronic address.                 *)
LEMMA PartiesAreComplete ==
    ASSUME NEW data, Passes(data), NEW name \in Parties
    PROVE  \A f \in {"name", "postalCode", "city", "countryCode",
                     "electronicAddress", "electronicAddressScheme"} :
               IsPresent(data[name][f])
<1>1. \A rule, field : Error(rule, field) \notin PartyCompleteness(name, data[name])
  BY NoErrors DEF ValidateCompleteness
<1>2. ASSUME NEW f \in {"name", "postalCode", "city", "countryCode"}
      PROVE  IsPresent(data[name][f])
  <2>1. Error(IF name = "seller" THEN "mandatory.seller_identity"
                                 ELSE "mandatory.buyer_identity", <<name, f>>)
          \notin PartyCompleteness(name, data[name])
    BY <1>1
  <2> QED BY <2>1 DEF PartyCompleteness
<1>3. \A f \in {"electronicAddress", "electronicAddressScheme"} : IsPresent(data[name][f])
  BY <1>1 DEF PartyCompleteness
<1> QED BY <1>2, <1>3

(* The currency is one that is supported.                                  *)
LEMMA CurrencyIsSupported ==
    ASSUME NEW data, Passes(data)
    PROVE  data.currency # "XXQ"
<1>1. Unless(data.currency # "XXQ", Error("format.currency", <<"currency">>))
        \subseteq ValidateFormats(data)
  BY DEF ValidateFormats
<1> QED BY <1>1, NoErrors DEF Unless

(* The totals are amounts in cents,                                        *)
LEMMA TotalsAreAmounts ==
    ASSUME NEW data, Passes(data)
    PROVE  \A f \in {"netTotal", "vatTotal", "grossTotal"} : IsAmount(data[f])
<1>1. GrossAgrees(data)
  BY NoErrors DEF ValidateArithmetic, Unless
<1> QED BY <1>1 DEF GrossAgrees

(* as are those of the lines, which have what they are computed from,      *)
LEMMA LinesHaveAmounts ==
    ASSUME NEW data, Passes(data), NEW i \in DOMAIN data.lineItems
    PROVE  /\ data.lineItems[i].quantity # Null
           /\ data.lineItems[i].unitPrice # Null
           /\ IsAmount(data.lineItems[i].netAmount)
<1>1. LineNetAgrees(data.lineItems[i])
  BY NoErrors DEF ValidateArithmetic
<1> QED BY <1>1 DEF LineNetAgrees

(* and those of the VAT breakdown, whose categories fit their rates.       *)
LEMMA BreakdownIsComplete ==
    ASSUME NEW data, Passes(data), NEW i \in DOMAIN data.vatBreakdown
    PROVE  /\ IsAmount(data.vatBreakdown[i].base)
           /\ IsAmount(data.vatBreakdown[i].amount)
           /\ ResolvesVatCategory(data.vatBreakdown[i].rate, data.vatBreakdown[i].category)
           /\ data.vatBreakdown[i].category = "E" =>
                  IsPresent(data.vatBreakdown[i].exemptionReason)
<1> DEFINE entry == data.vatBreakdown[i]
<1>1. VatAmountAgrees(entry)
  BY NoErrors DEF ValidateArithmetic
<1>2. \A rule, field : Error(rule, field) \notin BreakdownCompleteness(i, entry)
  <2>1. BreakdownCompleteness(i, entry) \subseteq ValidateCompleteness(data)
    BY DEF ValidateCompleteness
  <2> QED BY <2>1, NoErrors
<1>3. entry.category = "E" => IsPresent(entry.exemptionReason)
  BY <1>2 DEF BreakdownCompleteness, Unless
<1>4. entry.rate # Null => CategoryMatchesRate(entry)
  BY <1>2 DEF BreakdownCompleteness, Unless
<1> QED BY <1>1, <1>3, <1>4 DEF VatAmountAgrees, ResolvesVatCategory, CategoryMatchesRate

-------------------------------------------------------------------------------
(* What the mapper refuses of it (xrechnung-mapper.ts).                    *)

(* Nothing in the header,                                                  *)
LEMMA HeaderResolves ==
    ASSUME NEW data, Passes(data)
    PROVE  ResolveHeader(data) = {}
BY HeaderIsComplete, CurrencyIsSupported, TotalsAreAmounts
   DEF ResolveHeader, RequireText, RequireValue, RequireAmount, Unless, IsAmount

(* of a party, a country or a scheme that only the mapper looks up,        *)
LEMMA PartyResolves ==
    ASSUME NEW data, Passes(data), NEW name \in Parties,
           NEW f \in ResolveParty(name, data[name])
    PROVE  f.rule \in {"mapping.party_country_code", "mapping.electronic_address_scheme"}
<1> DEFINE party == data[name]
<1>1. /\ IsPresent(party.name) /\ IsPresent(party.postalCode) /\ IsPresent(party.city)
      /\ IsPresent(party.countryCode) /\ IsPresent(party.electronicAddress)
      /\ IsPresent(party.electronicAddressScheme)
  BY PartiesAreComplete
<1>2. RequireText(party.name, "mapping.party_address", <<name, "name">>) = {}
  BY <1>1 DEF RequireText, Unless
<1>3. ResolvePostalAddress(name, party)
        \subseteq {Error("mapping.party_country_code", <<name, "countryCode">>)}
  BY <1>1 DEF ResolvePostalAddress, Unless
<1>4. ResolveElectronicAddress(name, party)
        \subseteq {Error("mapping.electronic_address_scheme",
                         <<name, "electronicAddressScheme">>)}
  BY <1>1 DEF ResolveElectronicAddress, Unless
<1> QED BY <1>2, <1>3, <1>4 DEF ResolveParty, Error

(* of a line, its unit or the category that it takes from the breakdown,   *)
LEMMA LineResolves ==
    ASSUME NEW data, Passes(data), NEW i \in DOMAIN data.lineItems,
           NEW f \in ResolveLineItem(data, i)
    PROVE  f.rule \in KnownGaps
<1> DEFINE line == data.lineItems[i]
<1>1. /\ IsPresent(line.description) /\ line.quantity # Null /\ line.unitPrice # Null
      /\ line.netAmount # Null /\ HasMinorUnits(line.netAmount)
  BY HeaderIsComplete, LinesHaveAmounts DEF IsAmount
<1>2. f \in Unless(UnitIsKnown(line.unit),
                   Error("mapping.line_unit", <<"lineItems", i, "unit">>))
            \cup Unless(ResolvesLineItemVatCategory(data, line.vatRate),
                        Error("mapping.line_vat_category", <<"lineItems", i, "vatRate">>))
  BY <1>1 DEF ResolveLineItem, RequireText, RequireValue, RequireAmount, Unless
<1> QED BY <1>2 DEF Unless, Error, KnownGaps

(* and nothing of a VAT breakdown.                                         *)
LEMMA BreakdownResolves ==
    ASSUME NEW data, Passes(data), NEW i \in DOMAIN data.vatBreakdown
    PROVE  ResolveVatSubtotal(data, i) = {}
<1> DEFINE entry == data.vatBreakdown[i]
<1>1. /\ entry.base # Null /\ HasMinorUnits(entry.base)
      /\ entry.amount # Null /\ HasMinorUnits(entry.amount)
      /\ ResolvesVatCategory(entry.rate, entry.category)
      /\ entry.category = "E" => IsPresent(entry.exemptionReason)
  BY BreakdownIsComplete DEF IsAmount
<1>2. ResolveVatExemption(VatCategory(entry.category), entry.exemptionReason,
                          <<"vatBreakdown", i, "exemptionReason">>) = {}
  BY <1>1 DEF ResolveVatExemption, VatCategory, RequireText, Unless
<1> QED BY <1>1, <1>2 DEF ResolveVatSubtotal, RequireAmount, RequireValue, Unless

(* The mapper agrees with the validation but for the known gaps.           *)
LEMMA MapperAgrees ==
    ASSUME NEW data, Passes(data), NEW f \in MappingFindings(data)
    PROVE  f.rule \in KnownGaps
<1>1. CASE f \in ResolveHeader(data)
  BY <1>1, HeaderResolves
<1>2. CASE f \in ResolveSellerParty(data.seller) \cup ResolveParty("buyer", data.buyer)
  <2>1. "seller" \in Parties /\ "buyer" \in Parties
    BY DEF Parties
  <2>2. CASE f \in ResolveParty("seller", data.seller) \cup ResolveParty("buyer", data.buyer)
    BY <2>1, <2>2, PartyResolves DEF KnownGaps
  <2>3. CASE f = Error("mapping.seller_tax_id", <<"seller", "vatId">>)
    BY <2>3 DEF Error, KnownGaps
  <2> QED BY <1>2, <2>2, <2>3 DEF ResolveSellerParty, Unless
<1>3. CASE f \in UNION {ResolveLineItem(data, i) : i \in DOMAIN data.lineItems}
  BY <1>3, LineResolves
<1>4. CASE f \in UNION {ResolveVatSubtotal(data, i) : i \in DOMAIN data.vatBreakdown}
  BY <1>4, BreakdownResolves
<1>5. /\ Unless(data.lineItems # <<>>, Error("mapping.line_item", <<"lineItems">>)) = {}
      /\ Unless(data.vatBreakdown # <<>>,
                Error("mapping.vat_breakdown", <<"vatBreakdown">>)) = {}
  BY HeaderIsComplete DEF Unless
<1> QED BY <1>1, <1>2, <1>3, <1>4, <1>5 DEF MappingFindings

-------------------------------------------------------------------------------
(* Only data that passes is sent to generation.                            *)
GeneratesWhatPasses ==
    status = "GENERATING" /\ stored # Null => Passes(stored)

(* Whoever sends an invoice to generation has validated what it stores.    *)
LEMMA GenerationNeedsPass == Spec => []GeneratesWhatPasses
<1>1. Init => GeneratesWhatPasses
  BY DEF Init, GeneratesWhatPasses, Passes, ReviewRoutingStatus
<1>2. GeneratesWhatPasses /\ [Next]_vars => GeneratesWhatPasses'
  <2> SUFFICES ASSUME GeneratesWhatPasses, [Next]_vars PROVE GeneratesWhatPasses'
    OBVIOUS
  <2>1. CASE Validate \/ Submit
    BY <2>1 DEF Validate, Submit, GeneratesWhatPasses, Passes, ReviewRoutingStatus
  <2>2. CASE RejectUnreadable \/ RejectMapping \/ RejectRendering
    BY <2>2 DEF RejectUnreadable, RejectMapping, RejectRendering, RejectGeneration,
                GeneratesWhatPasses
  <2>3. CASE Accept \/ RejectByKosit \/ EnqueueFails
    BY <2>3 DEF Accept, RejectByKosit, CompleteGeneration, EnqueueFails, GeneratesWhatPasses
  <2>4. CASE Open \/ Edit \/ AddRow \/ RemoveRow
    BY <2>4 DEF Open, Edit, AddRow, RemoveRow, Change, GeneratesWhatPasses, Passes
  <2>5. CASE UNCHANGED vars
    BY <2>5 DEF vars, Page, GeneratesWhatPasses, Passes
  <2> QED BY <2>1, <2>2, <2>3, <2>4, <2>5 DEF Next
<1> QED BY <1>1, <1>2, PTL DEF Spec

(* The mapper refuses an invoice that was sent to generation for one of    *)
(* the known gaps and for nothing else, whatever it says.                  *)
THEOREM ValidationSufficesForMapping == Spec => []MapsWhatValidationPasses
<1>1. GeneratesWhatPasses => MapsWhatValidationPasses
  BY MapperAgrees DEF GeneratesWhatPasses, MapsWhatValidationPasses
<1> QED BY <1>1, GenerationNeedsPass, PTL

-------------------------------------------------------------------------------
(* The types of what a reviewer edits.                                     *)

(* A field of an invoice may take what its name allows.                    *)
LEMMA TopLevelFits ==
    ASSUME NEW data \in InvoiceType, NEW f \in TopLevelFields, NEW value, FitsField(f, value)
    PROVE  [data EXCEPT ![f] = value] \in InvoiceType
BY SMTT(60) DEF InvoiceType, TopLevelFields, FitsField

(* A field of a party may take what its name allows.                       *)
LEMMA PartyFits ==
    ASSUME NEW party \in PartyType, NEW f \in PartyFields, NEW value, FitsField(f, value)
    PROVE  [party EXCEPT ![f] = value] \in PartyType
BY SMTT(60) DEF PartyType, PartyFields, FitsField

(* A field of a line item may take what its name allows.                   *)
LEMMA LineFits ==
    ASSUME NEW row \in LineItemType, NEW f \in LineItemFields, NEW value, FitsField(f, value)
    PROVE  [row EXCEPT ![f] = value] \in LineItemType
BY SMTT(60) DEF LineItemType, LineItemFields, FitsField

(* A field of an entry of the VAT breakdown may take what its name allows. *)
LEMMA EntryFits ==
    ASSUME NEW row \in VatBreakdownType, NEW f \in VatBreakdownFields, NEW value,
           FitsField(f, value)
    PROVE  [row EXCEPT ![f] = value] \in VatBreakdownType
BY SMTT(60) DEF VatBreakdownType, VatBreakdownFields, FitsField

(* The parts of an invoice have their types, and may be replaced by such   *)
(* parts.                                                                  *)
LEMMA ListsFit ==
    ASSUME NEW data \in InvoiceType
    PROVE  /\ data.lineItems \in Seq(LineItemType) /\ data.vatBreakdown \in Seq(VatBreakdownType)
           /\ data.seller \in PartyType /\ data.buyer \in PartyType
           /\ \A lines \in Seq(LineItemType) :
                  [data EXCEPT !.lineItems = lines] \in InvoiceType
           /\ \A entries \in Seq(VatBreakdownType) :
                  [data EXCEPT !.vatBreakdown = entries] \in InvoiceType
           /\ \A name \in Parties, party \in PartyType :
                  [data EXCEPT ![name] = party] \in InvoiceType
<1>1. data.lineItems \in Seq(LineItemType) /\ data.vatBreakdown \in Seq(VatBreakdownType)
      /\ data.seller \in PartyType /\ data.buyer \in PartyType
  BY DEF InvoiceType
<1>2. \A lines \in Seq(LineItemType) : [data EXCEPT !.lineItems = lines] \in InvoiceType
  BY DEF InvoiceType
<1>3. \A entries \in Seq(VatBreakdownType) : [data EXCEPT !.vatBreakdown = entries] \in InvoiceType
  BY DEF InvoiceType
<1>4. \A party \in PartyType : [data EXCEPT !.seller = party] \in InvoiceType
  BY DEF InvoiceType
<1>5. \A party \in PartyType : [data EXCEPT !.buyer = party] \in InvoiceType
  BY DEF InvoiceType
<1>6. \A name \in Parties, party \in PartyType : [data EXCEPT ![name] = party] \in InvoiceType
  BY <1>4, <1>5 DEF Parties
<1> QED BY <1>1, <1>2, <1>3, <1>6

(* A path leads to a field of the invoice, a party, a line item or an      *)
(* entry.                                                                  *)
LEMMA PathShapes ==
    ASSUME NEW data, NEW path \in Paths(data)
    PROVE  \/ \E f \in TopLevelFields : path = <<f>>
           \/ \E name \in Parties, f \in PartyFields : path = <<name, f>>
           \/ \E i \in DOMAIN data.lineItems, f \in LineItemFields : path = <<"lineItems", i, f>>
           \/ \E i \in DOMAIN data.vatBreakdown, f \in VatBreakdownFields :
                  path = <<"vatBreakdown", i, f>>
BY DEF Paths

(* An entry that fits its field leaves an invoice.                         *)
LEMMA UpdateFits ==
    ASSUME NEW data \in InvoiceType, NEW path \in Paths(data), NEW value,
           FitsField(FieldOf(path), value)
    PROVE  Update(data, path, value) \in InvoiceType
<1>1. CASE \E f \in TopLevelFields : path = <<f>>
  <2>1. PICK f \in TopLevelFields : path = <<f>> BY <1>1
  <2>2. Update(data, path, value) = [data EXCEPT ![f] = value]
    BY <2>1 DEF Update
  <2>3. FitsField(f, value) BY <2>1 DEF FieldOf
  <2>4. [data EXCEPT ![f] = value] \in InvoiceType BY <2>3, TopLevelFits
  <2> QED BY <2>2, <2>4
<1>2. CASE \E name \in Parties, f \in PartyFields : path = <<name, f>>
  <2>1. PICK name \in Parties, f \in PartyFields : path = <<name, f>> BY <1>2
  <2>2. Update(data, path, value) = [data EXCEPT ![name] = [data[name] EXCEPT ![f] = value]]
    BY <2>1, SMT DEF Update
  <2>3. FitsField(f, value) BY <2>1 DEF FieldOf
  <2>4. data[name] \in PartyType BY ListsFit DEF Parties
  <2> DEFINE party == [data[name] EXCEPT ![f] = value]
  <2>5. party \in PartyType BY <2>3, <2>4, PartyFits
  <2> HIDE DEF party
  <2>6. [data EXCEPT ![name] = party] \in InvoiceType BY <2>5, ListsFit
  <2> QED BY <2>2, <2>6 DEF party
<1>3. CASE \E i \in DOMAIN data.lineItems, f \in LineItemFields : path = <<"lineItems", i, f>>
  <2>1. PICK i \in DOMAIN data.lineItems, f \in LineItemFields : path = <<"lineItems", i, f>>
    BY <1>3
  <2> DEFINE lines == data.lineItems
             row == [lines[i] EXCEPT ![f] = value]
  <2>2. Update(data, path, value) = [data EXCEPT !.lineItems = [lines EXCEPT ![i] = row]]
    BY <2>1, SMT DEF Update
  <2>3. FitsField(f, value) BY <2>1 DEF FieldOf
  <2>4. lines[i] \in LineItemType /\ lines \in Seq(LineItemType) BY ListsFit, ElementOfSeq
  <2>5. row \in LineItemType BY <2>3, <2>4, LineFits
  <2>6. [lines EXCEPT ![i] = row] \in Seq(LineItemType) BY <2>4, <2>5, ExceptSeq
  <2> QED BY <2>2, <2>6, ListsFit
<1>4. CASE \E i \in DOMAIN data.vatBreakdown, f \in VatBreakdownFields :
               path = <<"vatBreakdown", i, f>>
  <2>1. PICK i \in DOMAIN data.vatBreakdown, f \in VatBreakdownFields :
            path = <<"vatBreakdown", i, f>>
    BY <1>4
  <2> DEFINE entries == data.vatBreakdown
             row == [entries[i] EXCEPT ![f] = value]
  <2>2. Update(data, path, value) = [data EXCEPT !.vatBreakdown = [entries EXCEPT ![i] = row]]
    BY <2>1, SMT DEF Update
  <2>3. FitsField(f, value) BY <2>1 DEF FieldOf
  <2>4. entries[i] \in VatBreakdownType /\ entries \in Seq(VatBreakdownType)
    BY ListsFit, ElementOfSeq
  <2>5. row \in VatBreakdownType BY <2>3, <2>4, EntryFits
  <2>6. [entries EXCEPT ![i] = row] \in Seq(VatBreakdownType) BY <2>4, <2>5, ExceptSeq
  <2> QED BY <2>2, <2>6, ListsFit
<1> QED BY PathShapes, <1>1, <1>2, <1>3, <1>4

(* An added row is a row.                                                  *)
LEMMA EmptyRows == EmptyLineItem \in LineItemType /\ EmptyVatBreakdown \in VatBreakdownType
<1>1. EmptyLineItem = [position |-> Null, description |-> Null, unit |-> Null, quantity |-> Null,
    unitPrice |-> Null, netAmount |-> Null, vatRate |-> Null, vatExemptionReason |-> Null]
  BY DEF EmptyLineItem, LineItemFields
<1>2. EmptyVatBreakdown = [rate |-> Null, base |-> Null, amount |-> Null, category |-> Null,
                           exemptionReason |-> Null]
  BY DEF EmptyVatBreakdown, VatBreakdownFields
<1> QED BY <1>1, <1>2 DEF LineItemType, VatBreakdownType, Texts, Decimals

(* A list without one of its rows is a list.                               *)
LEMMA WithoutFits ==
    ASSUME NEW S, NEW list \in Seq(S), NEW index \in DOMAIN list
    PROVE  Without(list, index) \in Seq(S)
<1>1. SubSeq(list, 1, index - 1) \in Seq(S) /\ SubSeq(list, index + 1, Len(list)) \in Seq(S)
  BY SubSeqProperties
<1> QED BY <1>1, ConcatProperties DEF Without

(* Adding or removing a row leaves an invoice.                             *)
LEMMA RowsFit ==
    ASSUME NEW data \in InvoiceType
    PROVE  /\ AddLineItem(data) \in InvoiceType /\ AddVatBreakdown(data) \in InvoiceType
           /\ \A i \in DOMAIN data.lineItems : RemoveLineItem(data, i) \in InvoiceType
           /\ \A i \in DOMAIN data.vatBreakdown : RemoveVatBreakdown(data, i) \in InvoiceType
<1>1. Append(data.lineItems, EmptyLineItem) \in Seq(LineItemType)
  BY ListsFit, EmptyRows, AppendProperties
<1>2. Append(data.vatBreakdown, EmptyVatBreakdown) \in Seq(VatBreakdownType)
  BY ListsFit, EmptyRows, AppendProperties
<1> QED BY <1>1, <1>2, ListsFit, WithoutFits
     DEF AddLineItem, AddVatBreakdown, RemoveLineItem, RemoveVatBreakdown

-------------------------------------------------------------------------------
(* Who stopped an invoice.                                                 *)

(* A finding of a validation: never by a rule of the generation.           *)
OfValidation(f) ==
    f.severity \in {"ERROR", "WARNING"} /\ f.rule \notin MappingRules \cup KositRules

(* A finding of one of the rules: it names a field.                        *)
OfRule(f) == OfValidation(f) /\ f.field # <<>>

(* A finding of arithmetic.ts, or on the precision of an amount, is one of *)
(* a rule and names a field.                                               *)
LEMMA ArithmeticIsOfValidation ==
    ASSUME NEW data, NEW f \in ValidateMonetaryPrecision(data) \cup ValidateArithmetic(data)
    PROVE  OfRule(f)
<1>1. \A path \in MonetaryPaths(data) : path # <<>> BY DEF MonetaryPaths
<1> QED BY <1>1 DEF OfRule, OfValidation, ValidateMonetaryPrecision, ValidateArithmetic, Unless,
                    Error, MappingRules, KositRules

(* So is a finding of formats.ts.                                          *)
LEMMA FormatsAreOfValidation ==
    ASSUME NEW data, NEW f \in ValidateFormats(data)
    PROVE  OfRule(f)
<1>1. ASSUME NEW name, NEW vatId, f \in VatIdFormat(name, vatId) PROVE OfRule(f)
  BY <1>1 DEF OfRule, OfValidation, VatIdFormat, Unless, Error, MappingRules, KositRules
<1>2. ASSUME NEW name, NEW party, f \in PartyFormats(name, party) PROVE OfRule(f)
  BY <1>1, <1>2 DEF OfRule, OfValidation, PartyFormats, Unless, Warning, MappingRules, KositRules
<1> QED
  BY <1>2 DEF OfRule, OfValidation, ValidateFormats, Unless, Error, Warning, MappingRules,
              KositRules

(* So is a finding of completeness.ts.                                     *)
LEMMA CompletenessIsOfValidation ==
    ASSUME NEW data, NEW f \in ValidateCompleteness(data)
    PROVE  OfRule(f)
<1>0. (\A a, b : <<a, b>> # <<>>) /\ (\A a, b, c : <<a, b, c>> # <<>>) OBVIOUS
<1>1. ASSUME NEW name, NEW party, f \in PartyCompleteness(name, party) PROVE OfRule(f)
  BY <1>1 DEF OfRule, OfValidation, PartyCompleteness, Unless, Error, Warning, MappingRules,
              KositRules
<1>2. ASSUME NEW i, NEW line, f \in LineCompleteness(i, line) PROVE OfRule(f)
  <2>1. f = Error("mandatory.line_vat_rate_or_exemption", <<"lineItems", i>>)
    BY <1>2 DEF LineCompleteness, Unless
  <2> QED BY <1>0, <2>1 DEF OfRule, OfValidation, Error, MappingRules, KositRules
<1>3. ASSUME NEW i, NEW entry, f \in BreakdownCompleteness(i, entry) PROVE OfRule(f)
  <2>1. \/ f = Error("mandatory.vat_rate_or_exemption", <<"vatBreakdown", i>>)
        \/ f = Error("mandatory.vat_category", <<"vatBreakdown", i, "category">>)
        \/ f = Error("mandatory.vat_category_reason", <<"vatBreakdown", i, "exemptionReason">>)
    BY <1>3 DEF BreakdownCompleteness, Unless
  <2> QED BY <1>0, <2>1 DEF OfRule, OfValidation, Error, MappingRules, KositRules
<1>4. ASSUME f \in CategoryCompleteness(data) PROVE OfRule(f)
  BY <1>4 DEF OfRule, OfValidation, CategoryCompleteness, Unless, Error, MappingRules, KositRules
<1>5. ASSUME f \in HeaderCompleteness(data) PROVE OfRule(f)
  BY <1>5 DEF OfRule, OfValidation, HeaderCompleteness, Unless, Error, Warning, MappingRules,
              KositRules
<1> QED
  BY <1>1, <1>2, <1>3, <1>4, <1>5
     DEF OfRule, OfValidation, ValidateCompleteness, Error, MappingRules, KositRules

(* So is a finding of plausibility.ts.                                     *)
LEMMA PlausibilityIsOfValidation ==
    ASSUME NEW data, NEW f \in ValidatePlausibility(data)
    PROVE  OfRule(f)
<1>1. ASSUME NEW i, NEW entry, f \in BreakdownPlausibility(i, entry) PROVE OfRule(f)
  <2>1. \/ f = Warning("plausible.vat_rate", <<"vatBreakdown", i, "rate">>)
        \/ f = Warning("plausible.zero_vat_reason", <<"vatBreakdown", i, "exemptionReason">>)
    BY <1>1 DEF BreakdownPlausibility, Unless
  <2> QED BY <2>1 DEF OfRule, OfValidation, Warning, MappingRules, KositRules
<1> QED
  BY <1>1 DEF OfRule, OfValidation, ValidatePlausibility, Unless, Error, Warning, MappingRules,
              KositRules

(* Every finding of a validation is one; of data that can be read, it names*)
(* a field.                                                                *)
LEMMA FindingsAreOfValidation ==
    ASSUME NEW data, NEW f \in ValidateExtractedInvoice(data)
    PROVE  OfValidation(f) /\ (data # Null => OfRule(f))
<1>1. CASE data = Null
  BY <1>1 DEF OfValidation, ValidateExtractedInvoice, Error, MappingRules, KositRules
<1>2. CASE data # Null
  BY <1>2, ArithmeticIsOfValidation, FormatsAreOfValidation, CompletenessIsOfValidation,
     PlausibilityIsOfValidation
     DEF OfRule, ValidateExtractedInvoice
<1> QED BY <1>1, <1>2

(* A finding of the mapper: an error by one of its rules.                  *)
OfMapping(f) == f.severity = "ERROR" /\ f.rule \in MappingRules

(* A text, a value or an amount that is missing is a finding of the mapper.*)
LEMMA RequirementsAreOfMapping ==
    ASSUME NEW rule \in MappingRules, NEW text, NEW field, 
           NEW f \in RequireText(text, rule, field) \cup RequireValue(text, rule, field)
                     \cup RequireAmount(text, rule, field)
    PROVE  OfMapping(f)
BY DEF OfMapping, RequireText, RequireValue, RequireAmount, Unless, Error, MappingRules

(* All that the mapper finds are findings of the mapper.                   *)
LEMMA MappingIsOfMapping ==
    ASSUME NEW data, NEW f \in MappingFindings(data)
    PROVE  OfMapping(f)
<1>1. ASSUME f \in ResolveHeader(data) PROVE OfMapping(f)
  BY <1>1, RequirementsAreOfMapping DEF ResolveHeader, OfMapping, Unless, Error, MappingRules
<1>2. ASSUME NEW name, NEW party, f \in ResolveParty(name, party) PROVE OfMapping(f)
  BY <1>2, RequirementsAreOfMapping
     DEF ResolveParty, ResolvePostalAddress, ResolveElectronicAddress, OfMapping, Unless, Error,
         MappingRules
<1>3. ASSUME f \in ResolveSellerParty(data.seller) PROVE OfMapping(f)
  BY <1>2, <1>3 DEF ResolveSellerParty, OfMapping, Unless, Error, MappingRules
<1>4. ASSUME NEW i, f \in ResolveLineItem(data, i) PROVE OfMapping(f)
  BY <1>4, RequirementsAreOfMapping DEF ResolveLineItem, OfMapping, Unless, Error, MappingRules
<1>5. ASSUME NEW i, f \in ResolveVatSubtotal(data, i) PROVE OfMapping(f)
  BY <1>5, RequirementsAreOfMapping
     DEF ResolveVatSubtotal, ResolveVatExemption, OfMapping, Unless, Error, MappingRules
<1> QED
  BY <1>1, <1>2, <1>3, <1>4, <1>5 DEF MappingFindings, OfMapping, Unless, Error, MappingRules

(* What the findings of an invoice say about who put it where it is.       *)
StopsInv ==
    /\ decider \in {"validation", "generation", "queue"}
    /\ \A f \in findings : f.severity \in {"ERROR", "WARNING", "INFO"}
    /\ decider # "generation" =>
           \A f \in findings : f.rule \notin MappingRules \cup KositRules
    /\ status = "NEEDS_REVIEW" /\ decider = "validation" => Errors(findings) # {}
    /\ status = "NEEDS_REVIEW" /\ decider = "generation" =>
           \E f \in findings : f.rule \in KositRules \/ OfMapping(f)

(* A validation decides by its own findings.                               *)
LEMMA DecisionKeepsStops ==
    ASSUME NEW data, findings' = ValidateExtractedInvoice(data), decider' = "validation",
           status' = ReviewRoutingStatus(findings')
    PROVE  StopsInv'
<1>1. \A f \in findings' : OfValidation(f)
  BY FindingsAreOfValidation
<1>2. status' = "NEEDS_REVIEW" => Errors(findings') # {}
  BY DEF ReviewRoutingStatus
<1> QED BY <1>1, <1>2 DEF StopsInv, OfValidation

(* A generation that refuses an invoice leaves a finding of its own.       *)
LEMMA RejectionKeepsStops ==
    ASSUME StopsInv, NEW rejection, RejectGeneration(rejection), rejection # {},
           \A f \in rejection : OfMapping(f)
    PROVE  StopsInv'
<1>1. \A f \in findings' : f.severity \in {"ERROR", "WARNING", "INFO"}
  BY DEF StopsInv, RejectGeneration, OfMapping
<1>2. \E f \in findings' : OfMapping(f)
  BY DEF RejectGeneration
<1> QED BY <1>1, <1>2 DEF StopsInv, RejectGeneration

(* When KoSIT refuses it, a finding of KoSIT remains, even for a report    *)
(* without a message.                                                      *)
LEMMA KositKeepsStops ==
    ASSUME StopsInv, NEW messages \in SUBSET KositMessages,
           CompleteGeneration(FALSE, KositRejectionFindings(messages))
    PROVE  StopsInv'
<1> DEFINE rejection == KositRejectionFindings(messages)
<1>1. rejection # {}
  BY DEF KositRejectionFindings
<1>2. \A f \in rejection : f.rule \in KositRules /\ f.severity \in {"ERROR", "WARNING", "INFO"}
  BY DEF KositRejectionFindings, KositFinding, KositMessages, KositRules, Error
<1> HIDE DEF rejection
<1>3. findings' = {f \in findings : f.rule \notin KositRules} \cup rejection
      /\ status' = "NEEDS_REVIEW" /\ decider' = "generation"
  BY DEF CompleteGeneration, rejection
<1>4. \A f \in findings' : f.severity \in {"ERROR", "WARNING", "INFO"}
  BY <1>2, <1>3 DEF StopsInv
<1>5. \E f \in findings' : f.rule \in KositRules
  BY <1>1, <1>2, <1>3
<1> QED BY <1>3, <1>4, <1>5 DEF StopsInv

(* The findings of an invoice always tell who stopped it.                  *)
LEMMA StopsInvariant == Spec => []StopsInv
<1>1. Init => StopsInv
  <2>1. ASSUME Init PROVE StopsInv
    <3>1. \A f \in findings : OfValidation(f)
      BY <2>1, FindingsAreOfValidation DEF Init
    <3>2. status = "NEEDS_REVIEW" => Errors(findings) # {}
      BY <2>1 DEF Init, ReviewRoutingStatus
    <3> QED BY <2>1, <3>1, <3>2 DEF Init, StopsInv, OfValidation
  <2> QED BY <2>1
<1>2. StopsInv /\ [Next]_vars => StopsInv'
  <2> SUFFICES ASSUME StopsInv, [Next]_vars PROVE StopsInv'
    OBVIOUS
  <2>1. CASE Validate \/ Submit
    BY <2>1, DecisionKeepsStops DEF Validate, Submit
  <2>2. CASE RejectUnreadable
    <3>1. OfMapping(Error("mapping.schema", <<>>)) BY DEF OfMapping, Error, MappingRules
    <3> QED BY <2>2, <3>1, RejectionKeepsStops DEF RejectUnreadable
  <2>3. CASE RejectMapping
    BY <2>3, MappingIsOfMapping, RejectionKeepsStops DEF RejectMapping
  <2>4. CASE RejectRendering
    <3>1. OfMapping(Error("mapping.generation_failed", <<>>)) BY DEF OfMapping, Error, MappingRules
    <3> QED BY <2>4, <3>1, RejectionKeepsStops DEF RejectRendering
  <2>5. CASE Accept
    BY <2>5 DEF Accept, CompleteGeneration, StopsInv
  <2>6. CASE RejectByKosit
    BY <2>6, KositKeepsStops DEF RejectByKosit
  <2>7. CASE EnqueueFails
    BY <2>7 DEF EnqueueFails, StopsInv
  <2>8. CASE Open \/ Edit \/ AddRow \/ RemoveRow
    BY <2>8 DEF Open, Edit, AddRow, RemoveRow, Change, StopsInv
  <2>9. CASE UNCHANGED vars
    BY <2>9 DEF vars, StopsInv
  <2> QED BY <2>1, <2>2, <2>3, <2>4, <2>5, <2>6, <2>7, <2>8, <2>9 DEF Next
<1> QED BY <1>1, <1>2, PTL DEF Spec

(* An invoice in review is shown as stopped at the step that sent it there,*)
(* and has a finding that says why, whatever KoSIT reports                 *)
(* (stages.ts:82-89, generation.processor.ts:44-60).                       *)
THEOREM EveryStopIsExplained == Spec => []StopsAreExplained
<1>1. StopsInv => StopsAreExplained
  <2> SUFFICES ASSUME StopsInv, status = "NEEDS_REVIEW" PROVE StopsAreExplained
    BY DEF StopsAreExplained
  <2>1. StopsAtGenerationStage(findings) <=> decider = "generation"
    BY DEF StopsInv, StopsAtGenerationStage, OfMapping
  <2>2. ActiveIndex(status, findings) = IF decider = "generation" THEN 4 ELSE 3
    BY <2>1 DEF ActiveIndex
  <2>3. /\ decider = "generation" => /\ ResolvePipeline(status, findings)[4] = "stopped"
                                     /\ ResolvePipeline(status, findings)[3] = "done"
        /\ decider # "generation" => /\ ResolvePipeline(status, findings)[3] = "stopped"
                                     /\ ResolvePipeline(status, findings)[4] = "pending"
    BY <2>2 DEF ResolvePipeline
  <2>4. \/ Errors(findings) # {}
        \/ decider = "generation" /\ {f \in findings : f.rule \in KositRules} # {}
        \/ decider = "queue"
    BY DEF StopsInv, Errors, OfMapping
  <2> QED BY <2>3, <2>4 DEF StopsAreExplained
<1> QED BY <1>1, StopsInvariant, PTL

-------------------------------------------------------------------------------
(* What the schema makes of a draft.                                       *)

(* Each field has a path, and the path leads to it.                        *)
LEMMA PathValues ==
    ASSUME NEW data
    PROVE  /\ \A f \in TopLevelFields : <<f>> \in Paths(data) /\ At(data, <<f>>) = data[f]
           /\ \A name \in Parties, f \in PartyFields :
                  <<name, f>> \in Paths(data) /\ At(data, <<name, f>>) = data[name][f]
           /\ \A i \in DOMAIN data.lineItems, f \in LineItemFields :
                  /\ <<"lineItems", i, f>> \in Paths(data)
                  /\ At(data, <<"lineItems", i, f>>) = data.lineItems[i][f]
           /\ \A i \in DOMAIN data.vatBreakdown, f \in VatBreakdownFields :
                  /\ <<"vatBreakdown", i, f>> \in Paths(data)
                  /\ At(data, <<"vatBreakdown", i, f>>) = data.vatBreakdown[i][f]
<1>1. \A f \in TopLevelFields : <<f>> \in Paths(data) /\ At(data, <<f>>) = data[f]
  BY DEF Paths, At
<1>2. \A name \in Parties, f \in PartyFields :
                  <<name, f>> \in Paths(data) /\ At(data, <<name, f>>) = data[name][f]
  BY DEF Paths, At
<1>3. \A i \in DOMAIN data.lineItems, f \in LineItemFields :
                  /\ <<"lineItems", i, f>> \in Paths(data)
                  /\ At(data, <<"lineItems", i, f>>) = data.lineItems[i][f]
  BY DEF Paths, At
<1>4. \A i \in DOMAIN data.vatBreakdown, f \in VatBreakdownFields :
                  /\ <<"vatBreakdown", i, f>> \in Paths(data)
                  /\ At(data, <<"vatBreakdown", i, f>>) = data.vatBreakdown[i][f]
  BY DEF Paths, At
<1> QED BY <1>1, <1>2, <1>3, <1>4

(* A normalised VAT ID is the same VAT ID, in its one form.                *)
LEMMA NormalizedFits ==
    ASSUME NEW vatId \in VatIds, vatId # Malformed
    PROVE  /\ NormalizeVatId(vatId) \in VatIds /\ NormalizeVatId(vatId) # Malformed
           /\ (NormalizeVatId(vatId) = Null) <=> (vatId = Null)
           /\ vatId # Null => /\ ~NormalizeVatId(vatId).loose
                              /\ NormalizeVatId(vatId).form = vatId.form
                              /\ vatId \in WrittenVatIds
<1>1. CASE vatId = Null
  BY <1>1, DataAssumption DEF NormalizeVatId
<1>2. CASE vatId # Null
  <2>1. vatId \in WrittenVatIds BY <1>2 DEF VatIds
  <2>2. NormalizeVatId(vatId) \in WrittenVatIds /\ ~NormalizeVatId(vatId).loose
        /\ NormalizeVatId(vatId).form = vatId.form
    BY <1>2, <2>1 DEF NormalizeVatId, WrittenVatIds
  <2> QED BY <1>2, <2>1, <2>2, DataAssumption DEF VatIds
<1> QED BY <1>1, <1>2

(* A field of a party as it is submitted.                                  *)
LEMMA ParsedField ==
    ASSUME NEW data \in InvoiceType, NEW name \in Parties, NEW f \in PartyFields
    PROVE  Parse(data)[name][f] =
               IF f = "vatId" THEN NormalizeVatId(data[name].vatId) ELSE data[name][f]
<1>1. Parse(data)[name] = [data[name] EXCEPT !.vatId = NormalizeVatId(@)]
  BY DEF Parse, InvoiceType, Parties
<1>2. data[name] \in PartyType BY ListsFit DEF Parties
<1> QED BY <1>1, <1>2 DEF PartyType, PartyFields

(* The schema rewrites VAT IDs and nothing else.                           *)
LEMMA ParsedParts ==
    ASSUME NEW data \in InvoiceType
    PROVE  /\ \A f \in TopLevelFields \cup {"lineItems", "vatBreakdown"} : Parse(data)[f] = data[f]
           /\ \A name \in Parties :
                  /\ Parse(data)[name] = [data[name] EXCEPT !.vatId = NormalizeVatId(@)]
                  /\ \A f \in PartyFields : Parse(data)[name][f] =
                         IF f = "vatId" THEN NormalizeVatId(data[name].vatId) ELSE data[name][f]
<1>1. \A f \in TopLevelFields \cup {"lineItems", "vatBreakdown"} : Parse(data)[f] = data[f]
  BY DEF Parse, InvoiceType, TopLevelFields
<1>2. \A name \in Parties : Parse(data)[name] = [data[name] EXCEPT !.vatId = NormalizeVatId(@)]
  BY DEF Parse, InvoiceType, Parties
<1>3. ASSUME NEW name \in Parties, NEW f \in PartyFields
      PROVE  Parse(data)[name][f] = IF f = "vatId"
             THEN NormalizeVatId(data[name].vatId) ELSE data[name][f]
  BY ParsedField
<1> QED BY <1>1, <1>2, <1>3

(* What the schema makes of data it accepts may be stored.                 *)
LEMMA ParseStores ==
    ASSUME NEW data \in InvoiceType, SchemaAccepts(data)
    PROVE  IsStored(Parse(data))
<1> DEFINE parsed == Parse(data)
<1>1. \A name \in Parties : data[name] \in PartyType /\ data[name].vatId \in VatIds
      /\ data[name].vatId # Malformed
  <2> TAKE name \in Parties
  <2>1. data[name] \in PartyType BY ListsFit DEF Parties
  <2>2. "vatId" \in PartyFields BY DEF PartyFields
  <2>3. <<name, "vatId">> \in Paths(data) /\ At(data, <<name, "vatId">>) = data[name]["vatId"]
    BY <2>2, PathValues
  <2>4. data[name].vatId # Malformed BY <2>3 DEF SchemaAccepts
  <2> QED BY <2>1, <2>4 DEF PartyType
<1>2. parsed \in InvoiceType
  <2>1. \A name \in Parties : [data[name] EXCEPT !.vatId = NormalizeVatId(@)] \in PartyType
    <3> TAKE name \in Parties
    <3>1. FitsField("vatId", NormalizeVatId(data[name].vatId))
      BY <1>1, NormalizedFits DEF FitsField
    <3> QED BY <1>1, <3>1, PartyFits DEF PartyFields
  <2> DEFINE seller == [data.seller EXCEPT !.vatId = NormalizeVatId(@)]
             buyer == [data.buyer EXCEPT !.vatId = NormalizeVatId(@)]
             half == [data EXCEPT !.seller = seller]
  <2>2. seller \in PartyType /\ buyer \in PartyType BY <2>1 DEF Parties
  <2>3. half \in InvoiceType BY <2>2, ListsFit DEF Parties
  <2>4. parsed = [half EXCEPT !.buyer = buyer]
    BY DEF Parse, InvoiceType
  <2> HIDE DEF parsed, half, buyer
  <2>5. [half EXCEPT !.buyer = buyer] \in InvoiceType
    BY <2>2, <2>3, ListsFit DEF Parties
  <2> QED BY <2>4, <2>5
<1>3. SchemaAccepts(parsed)
  <2> SUFFICES ASSUME NEW path \in Paths(parsed) PROVE At(parsed, path) # Malformed
    BY DEF SchemaAccepts
  <2>0. parsed.lineItems = data.lineItems /\ parsed.vatBreakdown = data.vatBreakdown
    BY ParsedParts
  <2> HIDE DEF parsed
  <2>1. CASE \E f \in TopLevelFields : path = <<f>>
    BY <2>1, PathValues, ParsedParts DEF SchemaAccepts, parsed
  <2>2. CASE \E name \in Parties, f \in PartyFields : path = <<name, f>>
    <3>1. PICK name \in Parties, f \in PartyFields : path = <<name, f>> BY <2>2
    <3>2. At(parsed, path) = IF f = "vatId" THEN NormalizeVatId(data[name].vatId) ELSE data[name][f]
      <4>1. At(parsed, <<name, f>>) = parsed[name][f] BY PathValues
      <4>2. parsed[name][f] = IF f = "vatId"
            THEN NormalizeVatId(data[name].vatId) ELSE data[name][f]
        BY ParsedField DEF parsed
      <4> QED BY <3>1, <4>1, <4>2
    <3>3. data[name][f] # Malformed
      <4>1. <<name, f>> \in Paths(data) /\ At(data, <<name, f>>) = data[name][f] BY PathValues
      <4> QED BY <4>1 DEF SchemaAccepts
    <3>4. NormalizeVatId(data[name].vatId) # Malformed BY <1>1, NormalizedFits
    <3> QED BY <3>2, <3>3, <3>4
  <2>3. CASE \E i \in DOMAIN parsed.lineItems, f \in LineItemFields : path = <<"lineItems", i, f>>
    BY <2>0, <2>3, PathValues DEF SchemaAccepts
  <2>4. CASE \E i \in DOMAIN parsed.vatBreakdown, f \in VatBreakdownFields :
                 path = <<"vatBreakdown", i, f>>
    BY <2>0, <2>4, PathValues DEF SchemaAccepts
  <2> QED BY <2>1, <2>2, <2>3, <2>4, PathShapes
<1>4. ASSUME NEW name \in Parties, parsed[name].vatId # Null PROVE ~parsed[name].vatId.loose
  <2>1. parsed[name].vatId = NormalizeVatId(data[name].vatId)
    BY ParsedParts DEF PartyFields
  <2> HIDE DEF parsed
  <2> QED BY <1>1, <1>4, <2>1, NormalizedFits
<1> QED BY <1>2, <1>3, <1>4 DEF IsStored

(* The types, and that a draft is of data that could be read.              *)
TypeInv == RulesTypeOK /\ (draft # Null => stored # Null)

(* The last element of a path is a field.                                  *)
LEMMA PathsEndInFields ==
    ASSUME NEW data, NEW path \in Paths(data)
    PROVE  FieldOf(path) \in TopLevelFields \cup PartyFields \cup LineItemFields
                             \cup VatBreakdownFields
<1>1. \A f : FieldOf(<<f>>) = f BY DEF FieldOf
<1>2. \A a, f : FieldOf(<<a, f>>) = f BY DEF FieldOf
<1>3. \A a, b, f : FieldOf(<<a, b, f>>) = f BY DEF FieldOf
<1>4. CASE \E f \in TopLevelFields : path = <<f>> BY <1>1, <1>4
<1>5. CASE \E name \in Parties, f \in PartyFields : path = <<name, f>> BY <1>2, <1>5
<1>6. CASE \E i \in DOMAIN data.lineItems, f \in LineItemFields : path = <<"lineItems", i, f>>
    BY <1>3, <1>6
<1>7. CASE \E i \in DOMAIN data.vatBreakdown, f \in VatBreakdownFields :
               path = <<"vatBreakdown", i, f>>
    BY <1>3, <1>7
<1> QED BY PathShapes, <1>4, <1>5, <1>6, <1>7

(* A change of the draft that leaves an invoice keeps the types.           *)
LEMMA ChangeTypes ==
    ASSUME TypeInv, draft # Null, NEW next \in InvoiceType,
           NEW lists \in SUBSET {"lineItems", "vatBreakdown"},
           Change(next, lists)
    PROVE  TypeInv'
BY RulesAssumption DEF TypeInv, RulesTypeOK, Change

(* The types are invariant.                                                *)
LEMMA TypeInvariant == Spec => []TypeInv
<1>1. StopsInv /\ Init => TypeInv
  BY RulesAssumption DEF TypeInv, RulesTypeOK, StopsInv, Init, ReviewRoutingStatus
<1>2. StopsInv' /\ TypeInv /\ [Next]_vars => TypeInv'
  <2> SUFFICES ASSUME StopsInv', TypeInv, [Next]_vars PROVE TypeInv'
    OBVIOUS
  <2>0. /\ decider' \in {"validation", "generation", "queue"}
        /\ \A f \in findings' : f.severity \in {"ERROR", "WARNING", "INFO"}
    BY DEF StopsInv
  <2>1. CASE Validate
    BY <2>0, <2>1 DEF Validate, Page, TypeInv, RulesTypeOK, ReviewRoutingStatus
  <2>2. CASE RejectUnreadable \/ RejectMapping \/ RejectRendering
    BY <2>0, <2>2 DEF RejectUnreadable, RejectMapping, RejectRendering, RejectGeneration, Page,
                      TypeInv, RulesTypeOK
  <2>3. CASE Accept \/ RejectByKosit
    BY <2>0, <2>3 DEF Accept, RejectByKosit, CompleteGeneration, Page, TypeInv, RulesTypeOK
  <2>4. CASE Open
    BY <2>0, <2>4 DEF Open, TypeInv, RulesTypeOK, IsStored
  <2>5. CASE Edit
    <3>0. PICK path \in Paths(draft) : \E value \in Inputs[FieldOf(path)] :
              draft # Null /\ Change(Update(draft, path, value), {})
      BY <2>5 DEF Edit
    <3>1. PICK value \in Inputs[FieldOf(path)] :
              draft # Null /\ Change(Update(draft, path, value), {})
      BY <3>0
    <3>2. draft \in InvoiceType BY <3>1 DEF TypeInv, RulesTypeOK
    <3>3. FieldOf(path) \in TopLevelFields \cup PartyFields \cup LineItemFields
          \cup VatBreakdownFields
      BY PathsEndInFields
    <3>4. FitsField(FieldOf(path), value) BY <3>3, RulesAssumption
    <3>5. Update(draft, path, value) \in InvoiceType BY <3>2, <3>4, UpdateFits
    <3> QED BY <3>1, <3>5, ChangeTypes
  <2>6. CASE AddRow \/ RemoveRow
    <3>1. draft # Null /\ draft \in InvoiceType
      BY <2>6 DEF AddRow, RemoveRow, TypeInv, RulesTypeOK
    <3>2. PICK next \in InvoiceType, lists \in SUBSET {"lineItems", "vatBreakdown"} :
              Change(next, lists)
      BY <2>6, <3>1, RowsFit DEF AddRow, RemoveRow
    <3> QED BY <3>1, <3>2, ChangeTypes
  <2>7. CASE Submit
    <3>1. draft \in InvoiceType /\ SchemaAccepts(draft)
      BY <2>7 DEF Submit, TypeInv, RulesTypeOK
    <3>2. IsStored(stored') BY <2>7, <3>1, ParseStores DEF Submit
    <3> QED BY <2>0, <2>7, <3>2 DEF Submit, TypeInv, RulesTypeOK, ReviewRoutingStatus
  <2>8. CASE EnqueueFails
    BY <2>0, <2>8 DEF EnqueueFails, Page, TypeInv, RulesTypeOK
  <2>9. CASE UNCHANGED vars
    BY <2>9 DEF vars, Page, TypeInv, RulesTypeOK
  <2> QED BY <2>1, <2>2, <2>3, <2>4, <2>5, <2>6, <2>7, <2>8, <2>9 DEF Next
<1> QED BY <1>1, <1>2, StopsInvariant, PTL DEF Spec

(* Stored data always satisfies the schema and has its VAT IDs in one form,*)
(* and a draft exists only of an invoice in review (schema.ts,             *)
(* review.service.ts submitCorrection).                                    *)
THEOREM RulesTypes == Spec => []RulesTypeOK
<1>1. TypeInv => RulesTypeOK BY DEF TypeInv
<1> QED BY <1>1, TypeInvariant, PTL

(* The server has a finding for an issue of the page, as bad as the issue. *)
Answers(issue, data) ==
    \E f \in ValidateExtractedInvoice(data) :
        /\ f.rule = AnticipatedRule(issue.code)
        /\ f.field = issue.path
        /\ issue.blocking => f.severity = "ERROR"

(* It has when the mirrored rule finds an error, or a warning for an issue *)
(* that does not block.                                                    *)
LEMMA ErrorAnswers ==
    ASSUME NEW data \in InvoiceType, NEW rule, NEW path, NEW code, NEW blocking,
           AnticipatedRule(code) = rule,
           \/ Error(rule, path) \in ValidateMonetaryPrecision(data) \cup ValidateFormats(data)
                                       \cup ValidateCompleteness(data)
           \/ Warning(rule, path) \in ValidateFormats(data) /\ ~blocking
    PROVE  Answers(Issue(path, code, blocking), data)
<1>1. data # Null BY DataAssumption
<1>2. ValidateMonetaryPrecision(data) \cup ValidateFormats(data) \cup ValidateCompleteness(data)
          \subseteq ValidateExtractedInvoice(data)
  BY <1>1 DEF ValidateExtractedInvoice
<1> QED BY <1>2 DEF Answers, Issue, Error, Warning

(* The server answers an issue about a VAT ID, which the page judges as    *)
(* typed and the server normalised.                                        *)
LEMMA VatIdAnswers ==
    ASSUME NEW data \in InvoiceType, SchemaAccepts(data), NEW name \in Parties,
           NEW issue \in VatIdIssues(<<name, "vatId">>, data[name].vatId)
    PROVE  Answers(issue, Parse(data))
<1> DEFINE parsed == Parse(data)
           path == <<name, "vatId">>
           vatId == data[name].vatId
           form == NormalizeVatId(vatId)
<1>1. vatId \in VatIds /\ vatId # Null /\ vatId # Malformed
  <2>1. data[name] \in PartyType BY ListsFit DEF Parties
  <2> QED BY <2>1 DEF PartyType, VatIdIssues
<1>2. parsed \in InvoiceType BY ParseStores DEF IsStored
<1>3. parsed[name].vatId = form /\ form # Null /\ ~form.loose /\ form.form = vatId.form
  <2>1. parsed[name].vatId = form BY ParsedParts DEF PartyFields
  <2> QED BY <1>1, <2>1, NormalizedFits
<1>4. VatIdFormat(name, form) \subseteq ValidateFormats(parsed)
  BY <1>3 DEF ValidateFormats, PartyFormats
<1> HIDE DEF parsed, form, vatId
<1>5. CASE ~VatIdHasValidSyntax(vatId) /\ issue = Issue(path, "vatIdSyntax", TRUE)
  <2>1. Error("format.vat_id_syntax", path) \in VatIdFormat(name, form)
    BY <1>3, <1>5 DEF VatIdFormat, VatIdHasValidSyntax, Unless
  <2>2. AnticipatedRule("vatIdSyntax") = "format.vat_id_syntax" BY DEF AnticipatedRule, MirroredRule
  <2>3. Answers(Issue(path, "vatIdSyntax", TRUE), parsed)
    BY <1>2, <1>4, <2>1, <2>2, ErrorAnswers
  <2> QED BY <1>5, <2>3 DEF parsed
<1>6. CASE ~VatIdHasAllowedPrefix(vatId) /\ issue = Issue(path, "vatIdPrefix", TRUE)
  <2>1. Error("format.vat_id_prefix", path) \in VatIdFormat(name, form)
    BY <1>3, <1>6 DEF VatIdFormat, VatIdHasAllowedPrefix, Unless
  <2>2. AnticipatedRule("vatIdPrefix") = "format.vat_id_prefix" BY DEF AnticipatedRule, MirroredRule
  <2>3. Answers(Issue(path, "vatIdPrefix", TRUE), parsed)
    BY <1>2, <1>4, <2>1, <2>2, ErrorAnswers
  <2> QED BY <1>6, <2>3 DEF parsed
<1>7. CASE /\ IsGermanVatId(vatId) /\ VatIdHasValidSyntax(vatId) /\ ~VatIdHasValidChecksum(vatId)
           /\ issue = Issue(path, "vatIdChecksum", TRUE)
  <2>1. Error("format.vat_id_checksum", path) \in VatIdFormat(name, form)
    BY <1>3, <1>7
       DEF VatIdFormat, VatIdHasValidSyntax, VatIdHasValidChecksum, IsGermanVatId, Unless
  <2>2. AnticipatedRule("vatIdChecksum") = "format.vat_id_checksum" BY DEF AnticipatedRule, MirroredRule
  <2>3. Answers(Issue(path, "vatIdChecksum", TRUE), parsed)
    BY <1>2, <1>4, <2>1, <2>2, ErrorAnswers
  <2> QED BY <1>7, <2>3 DEF parsed
<1> QED BY <1>1, <1>5, <1>6, <1>7 DEF VatIdIssues, Unless, vatId

-------------------------------------------------------------------------------
(* The page and the server.                                                *)

(* No value is none of the texts that the page complains about.            *)
LEMMA NullIsNoText == Null \notin {"letters", "at", "digits", "checksum", "wrong"}
BY DataAssumption DEF TextClasses

(* The server answers an issue about a party.                              *)
LEMMA PartyAnswers ==
    ASSUME NEW data \in InvoiceType, SchemaAccepts(data), NEW name \in Parties,
           NEW issue \in PartyIssues(name, data[name])
    PROVE  Answers(issue, Parse(data))
<1> DEFINE parsed == Parse(data)
           party == parsed[name]
<1>1. parsed \in InvoiceType BY ParseStores DEF IsStored
<1>2. PartyFormats(name, party) \subseteq ValidateFormats(parsed)
  BY DEF ValidateFormats
<1>3. \A f \in {"countryCode", "postalCode", "contactEmail", "contactPhone"} :
          party[f] = data[name][f]
  <2> TAKE f \in {"countryCode", "postalCode", "contactEmail", "contactPhone"}
  <2>1. f \in PartyFields /\ f # "vatId" BY DEF PartyFields
  <2>2. Parse(data)[name][f] = IF f = "vatId" THEN NormalizeVatId(data[name].vatId)
                                ELSE data[name][f]
    BY <2>1, ParsedField
  <2> QED BY <2>1, <2>2
<1>0. Null \notin {"letters", "at", "digits"} BY NullIsNoText
<1> HIDE DEF parsed, party
<1>4. CASE issue \in VatIdIssues(<<name, "vatId">>, data[name].vatId)
  BY <1>4, VatIdAnswers DEF parsed
<1>5. CASE /\ data[name].countryCode = "DE" /\ data[name].postalCode = "letters"
           /\ issue = Issue(<<name, "postalCode">>, "germanPostalCode", FALSE)
  <2>1. Warning("format.postal_code_de", <<name, "postalCode">>) \in PartyFormats(name, party)
    BY <1>0, <1>3, <1>5 DEF PartyFormats, Unless
  <2>2. AnticipatedRule("germanPostalCode") = "format.postal_code_de" BY DEF AnticipatedRule, MirroredRule
  <2> QED BY <1>1, <1>2, <1>5, <2>1, <2>2, ErrorAnswers DEF parsed
<1>6. CASE /\ data[name].contactEmail = "at"
           /\ issue = Issue(<<name, "contactEmail">>, "emailFormat", FALSE)
  <2>1. Warning("format.email", <<name, "contactEmail">>) \in PartyFormats(name, party)
    BY <1>0, <1>3, <1>6 DEF PartyFormats, Unless
  <2>2. AnticipatedRule("emailFormat") = "format.email" BY DEF AnticipatedRule, MirroredRule
  <2> QED BY <1>1, <1>2, <1>6, <2>1, <2>2, ErrorAnswers DEF parsed
<1>7. CASE /\ data[name].contactPhone = "digits"
           /\ issue = Issue(<<name, "contactPhone">>, "phoneFormat", FALSE)
  <2>1. Warning("format.phone", <<name, "contactPhone">>) \in PartyFormats(name, party)
    BY <1>0, <1>3, <1>7 DEF PartyFormats, Unless
  <2>2. AnticipatedRule("phoneFormat") = "format.phone" BY DEF AnticipatedRule, MirroredRule
  <2> QED BY <1>1, <1>2, <1>7, <2>1, <2>2, ErrorAnswers DEF parsed
<1> QED BY <1>4, <1>5, <1>6, <1>7 DEF PartyIssues, Unless

(* The server answers an issue about the category of an entry of the VAT   *)
(* breakdown.                                                              *)
LEMMA CategoryAnswers ==
    ASSUME NEW data \in InvoiceType, SchemaAccepts(data), NEW i \in DOMAIN data.vatBreakdown,
           NEW issue \in VatCategoryIssue(<<"vatBreakdown", i, "category">>, data.vatBreakdown[i])
    PROVE  Answers(issue, Parse(data))
<1> DEFINE parsed == Parse(data)
           path == <<"vatBreakdown", i, "category">>
           entry == data.vatBreakdown[i]
<1>1. parsed \in InvoiceType /\ parsed.vatBreakdown = data.vatBreakdown
  BY ParseStores, ParsedParts DEF IsStored
<1> HIDE DEF parsed
<1>2. /\ entry.rate # Null /\ ~CategoryMatchesRate(entry)
      /\ issue = Issue(path, "vatCategory", TRUE)
  BY DEF VatCategoryIssue, CategoryMatchesRate, Unless
<1>3. Error("mandatory.vat_category", path) \in BreakdownCompleteness(i, entry)
  BY <1>2 DEF BreakdownCompleteness, Unless
<1>4. Error("mandatory.vat_category", path) \in ValidateCompleteness(parsed)
  BY <1>1, <1>3 DEF ValidateCompleteness
<1>5. AnticipatedRule("vatCategory") = "mandatory.vat_category" BY DEF AnticipatedRule, MirroredRule
<1> QED BY <1>1, <1>2, <1>4, <1>5, ErrorAnswers DEF parsed

(* The server answers an issue about a code, or about a VAT ID that the    *)
(* categories require.                                                     *)
LEMMA HeaderAnswers ==
    ASSUME NEW data \in InvoiceType, SchemaAccepts(data), NEW issue,
           \/ issue \in Unless(data.sellerIban # "checksum",
                               Issue(<<"sellerIban">>, "ibanChecksum", FALSE))
           \/ issue \in Unless(data.sellerBic # "wrong", Issue(<<"sellerBic">>, "bicFormat", FALSE))
           \/ issue \in Unless(data.buyerReference # "checksum",
                               Issue(<<"buyerReference">>, "leitwegIdChecksum", FALSE))
           \/ issue \in Unless(HasCategory(data, {"K"}) => data.seller.vatId # Null,
                               Issue(<<"seller", "vatId">>, "vatCategorySellerVatId", TRUE))
           \/ issue \in Unless(HasCategory(data, {"AE", "K"}) => data.buyer.vatId # Null,
                               Issue(<<"buyer", "vatId">>, "vatCategoryBuyerVatId", TRUE))
    PROVE  Answers(issue, Parse(data))
<1> DEFINE parsed == Parse(data)
<1>1. /\ parsed \in InvoiceType /\ parsed.vatBreakdown = data.vatBreakdown
      /\ parsed.sellerIban = data.sellerIban /\ parsed.sellerBic = data.sellerBic
      /\ parsed.buyerReference = data.buyerReference
  BY ParseStores, ParsedParts DEF IsStored, TopLevelFields
<1>2. \A name \in Parties : data[name].vatId = Null => ~VatIdIsPresent(parsed[name].vatId)
  BY ParsedParts DEF PartyFields, NormalizeVatId, VatIdIsPresent
<1>0. Null \notin {"checksum", "wrong"} BY NullIsNoText
<1> HIDE DEF parsed
<1>3. CASE data.sellerIban = "checksum" /\ issue = Issue(<<"sellerIban">>, "ibanChecksum", FALSE)
  <2>1. Error("format.iban_checksum", <<"sellerIban">>) \in ValidateFormats(parsed)
    BY <1>0, <1>1, <1>3 DEF ValidateFormats, Unless
  <2>2. AnticipatedRule("ibanChecksum") = "format.iban_checksum" BY DEF AnticipatedRule, MirroredRule
  <2> QED BY <1>1, <1>3, <2>1, <2>2, ErrorAnswers DEF parsed
<1>4. CASE data.sellerBic = "wrong" /\ issue = Issue(<<"sellerBic">>, "bicFormat", FALSE)
  <2>1. Warning("format.bic", <<"sellerBic">>) \in ValidateFormats(parsed)
    BY <1>0, <1>1, <1>4 DEF ValidateFormats, Unless
  <2>2. AnticipatedRule("bicFormat") = "format.bic" BY DEF AnticipatedRule, MirroredRule
  <2> QED BY <1>1, <1>4, <2>1, <2>2, ErrorAnswers DEF parsed
<1>5. CASE data.buyerReference = "checksum"
           /\ issue = Issue(<<"buyerReference">>, "leitwegIdChecksum", FALSE)
  <2>1. Warning("format.leitweg_id_checksum", <<"buyerReference">>) \in ValidateFormats(parsed)
    BY <1>0, <1>1, <1>5 DEF ValidateFormats, Unless
  <2>2. AnticipatedRule("leitwegIdChecksum") = "format.leitweg_id_checksum" BY DEF AnticipatedRule, MirroredRule
  <2> QED BY <1>1, <1>5, <2>1, <2>2, ErrorAnswers DEF parsed
<1>6. CASE /\ HasCategory(data, {"K"}) /\ data.seller.vatId = Null
           /\ issue = Issue(<<"seller", "vatId">>, "vatCategorySellerVatId", TRUE)
  <2>0. HasCategory(parsed, {"K"}) /\ ~VatIdIsPresent(parsed.seller.vatId)
    BY <1>1, <1>2, <1>6 DEF HasCategory, Parties
  <2>1. Error("mandatory.vat_category_seller_vat_id", <<"seller", "vatId">>)
        \in ValidateCompleteness(parsed)
    BY <2>0 DEF ValidateCompleteness, CategoryCompleteness, Unless
  <2>2. AnticipatedRule("vatCategorySellerVatId") = "mandatory.vat_category_seller_vat_id"
    BY DEF AnticipatedRule, MirroredRule
  <2> QED BY <1>1, <1>6, <2>1, <2>2, ErrorAnswers DEF parsed
<1>7. CASE /\ HasCategory(data, {"AE", "K"}) /\ data.buyer.vatId = Null
           /\ issue = Issue(<<"buyer", "vatId">>, "vatCategoryBuyerVatId", TRUE)
  <2>0. HasCategory(parsed, {"AE", "K"}) /\ ~VatIdIsPresent(parsed.buyer.vatId)
    BY <1>1, <1>2, <1>7 DEF HasCategory, Parties
  <2>1. Error("mandatory.vat_category_buyer_identity", <<"buyer", "vatId">>)
        \in ValidateCompleteness(parsed)
    BY <2>0 DEF ValidateCompleteness, CategoryCompleteness, Unless
  <2>2. AnticipatedRule("vatCategoryBuyerVatId") = "mandatory.vat_category_buyer_identity"
    BY DEF AnticipatedRule, MirroredRule
  <2> QED BY <1>1, <1>7, <2>1, <2>2, ErrorAnswers DEF parsed
<1> QED BY <1>3, <1>4, <1>5, <1>6, <1>7 DEF Unless

(* The server answers an issue about a separator in an amount: the schema  *)
(* leaves the amount as it is, with one place too many.                    *)
LEMMA SeparatorAnswers ==
    ASSUME NEW data \in InvoiceType, SchemaAccepts(data), NEW issue \in SeparatorIssues(data),
           issue.path \notin UnitPricePaths(data)
    PROVE  Answers(issue, Parse(data))
<1> DEFINE parsed == Parse(data)
<1>1. PICK path \in MonetaryPaths(data) :
          LooksLikeThousands(At(data, path)) /\ issue = Issue(path, "thousandsSeparator", FALSE)
  BY DEF SeparatorIssues, Issue
<1>2. parsed \in InvoiceType BY ParseStores DEF IsStored
<1>3. \A f \in TopLevelFields \cup {"lineItems", "vatBreakdown"} : parsed[f] = data[f]
  BY ParsedParts
<1> HIDE DEF parsed
<1>4. path \in MonetaryPaths(parsed) /\ At(parsed, path) = At(data, path)
  <2>1. CASE \E g \in {"netTotal", "vatTotal", "grossTotal"} : path = <<g>>
    <3>1. PICK g \in {"netTotal", "vatTotal", "grossTotal"} : path = <<g>> BY <2>1
    <3>2. g \in TopLevelFields BY DEF TopLevelFields
    <3>3. parsed[g] = data[g] BY <1>3, <3>2
    <3>4. At(parsed, <<g>>) = parsed[g] /\ At(data, <<g>>) = data[g] BY <3>2, PathValues
    <3>5. <<g>> \in MonetaryPaths(parsed) BY DEF MonetaryPaths
    <3> QED BY <3>1, <3>3, <3>4, <3>5
  <2>2. CASE \E i \in DOMAIN data.lineItems : path = <<"lineItems", i, "netAmount">>
    <3>1. PICK i \in DOMAIN data.lineItems : path = <<"lineItems", i, "netAmount">> BY <2>2
    <3>2. "netAmount" \in LineItemFields BY DEF LineItemFields
    <3>3. parsed.lineItems = data.lineItems BY <1>3
    <3>4. At(parsed, path) = At(data, path) BY <3>1, <3>2, <3>3, PathValues
    <3> QED BY <3>1, <3>3, <3>4 DEF MonetaryPaths
  <2>3. CASE \E i \in DOMAIN data.vatBreakdown, g \in {"base", "amount"} :
                 path = <<"vatBreakdown", i, g>>
    <3>1. PICK i \in DOMAIN data.vatBreakdown, g \in {"base", "amount"} :
              path = <<"vatBreakdown", i, g>>
      BY <2>3
    <3>2. g \in VatBreakdownFields BY DEF VatBreakdownFields
    <3>3. parsed.vatBreakdown = data.vatBreakdown BY <1>3
    <3>4. At(parsed, path) = At(data, path) BY <3>1, <3>2, <3>3, PathValues
    <3> QED BY <3>1, <3>3, <3>4 DEF MonetaryPaths
  <2> QED BY <2>1, <2>2, <2>3 DEF MonetaryPaths
<1>5. At(parsed, path) # Null /\ ~HasMinorUnits(At(parsed, path))
  BY <1>1, <1>4 DEF LooksLikeThousands, HasMinorUnits
<1>6. Error("format.monetary_precision", path) \in ValidateMonetaryPrecision(parsed)
  BY <1>4, <1>5 DEF ValidateMonetaryPrecision
<1>7. AnticipatedRule("thousandsSeparator") = "format.monetary_precision"
  BY DEF AnticipatedRule
<1> QED BY <1>1, <1>2, <1>6, <1>7, ErrorAnswers DEF parsed

(* Every issue of the page is a finding of the server for the same data,   *)
(* and an error when it blocks: the page never refuses what the server     *)
(* would take.  Only the warning about the separator of a unit price is    *)
(* the page's own (draft.ts against formats.ts and completeness.ts).       *)
THEOREM PageRefusesWhatServerRefuses == Spec => []PageAgreesWithServer
<1>1. ASSUME NEW data \in InvoiceType, SchemaAccepts(data), NEW issue \in DraftIssues(data)
      PROVE  \/ issue.code = "thousandsSeparator" /\ issue.path \in UnitPricePaths(data)
             \/ Answers(issue, Parse(data))
  <2>1. PatternIssues(data) = {} BY <1>1 DEF PatternIssues, SchemaAccepts
  <2>2. CASE issue \in UNION {PartyIssues(name, data[name]) : name \in Parties}
    BY <1>1, <2>2, PartyAnswers
  <2>3. CASE issue \in UNION {VatCategoryIssue(<<"vatBreakdown", i, "category">>,
             data.vatBreakdown[i]) :
                                  i \in DOMAIN data.vatBreakdown}
    BY <1>1, <2>3, CategoryAnswers
  <2>4. CASE issue \in SeparatorIssues(data)
    <3>1. issue.code = "thousandsSeparator" BY <2>4 DEF SeparatorIssues, Issue
    <3> QED BY <1>1, <2>4, <3>1, SeparatorAnswers
  <2> QED BY <1>1, <2>1, <2>2, <2>3, <2>4, HeaderAnswers DEF DraftIssues
<1>2. TypeInv => PageAgreesWithServer
  BY <1>1 DEF TypeInv, RulesTypeOK, PageAgreesWithServer, Answers
<1> QED BY <1>2, TypeInvariant, PTL

-------------------------------------------------------------------------------
(* What the confirmation promises.                                         *)

(* The lists that were not restructured have the rows they had.            *)
KeepsRows(original, current, lists) ==
    \A list \in {"lineItems", "vatBreakdown"} \ lists :
        DOMAIN current[list] = DOMAIN original[list]

(* The page has an invoice open, and a field that it calls untouched.      *)
Kept(original, current, lists, field) ==
    /\ IsStored(original) /\ current \in InvoiceType /\ SchemaAccepts(current)
    /\ KeepsRows(original, current, lists)
    /\ ~IsTouched(field, DiffDraft(original, current))
    /\ Len(field) > 1 => field[1] \notin lists
    /\ \A list \in lists : field # <<list>>

(* What is at an untouched field is what was there.                        *)
LEMMA UntouchedValue ==
    ASSUME NEW original, NEW current, NEW field, ~IsTouched(field, DiffDraft(original, current)),
           NEW path \in Paths(original), path \in Paths(current), IsPrefix(field, path)
    PROVE  At(current, path) = At(original, path)
<1>1. path \notin DiffDraft(original, current) BY DEF IsTouched
<1> QED BY <1>1 DEF DiffDraft, Value

(* A stored VAT ID is not changed by the schema.                           *)
LEMMA NormalIsNormal ==
    ASSUME NEW vatId \in VatIds, vatId # Malformed, vatId # Null => ~vatId.loose
    PROVE  NormalizeVatId(vatId) = vatId
<1>1. CASE vatId = Null BY <1>1 DEF NormalizeVatId
<1>2. CASE vatId # Null
  <2>1. vatId \in WrittenVatIds /\ ~vatId.loose BY <1>2 DEF VatIds
  <2>2. [vatId EXCEPT !.loose = FALSE] = vatId BY <2>1 DEF WrittenVatIds
  <2> QED BY <1>2, <2>2 DEF NormalizeVatId
<1> QED BY <1>1, <1>2

(* An untouched field of the invoice is submitted as it was stored.        *)
LEMMA KeptTop ==
    ASSUME NEW original, NEW current, NEW lists, NEW g \in TopLevelFields,
           Kept(original, current, lists, <<g>>)
    PROVE  Parse(current)[g] = original[g]
<1>3. <<g>> \in Paths(original) BY PathValues
<1>4. <<g>> \in Paths(current) BY PathValues
<1>5. IsPrefix(<<g>>, <<g>>) BY DEF IsPrefix
<1>1. At(current, <<g>>) = At(original, <<g>>)
  BY <1>3, <1>4, <1>5, UntouchedValue DEF Kept
<1>2. At(current, <<g>>) = current[g] /\ At(original, <<g>>) = original[g]
  BY PathValues
<1> QED BY <1>1, <1>2, ParsedParts DEF Kept

(* An untouched field of a party is submitted as it was stored.            *)
LEMMA KeptParty ==
    ASSUME NEW original, NEW current, NEW lists, NEW name \in Parties, NEW g \in PartyFields,
           Kept(original, current, lists, <<name, g>>)
    PROVE  Parse(current)[name][g] = original[name][g]
<1>5. <<name, g>> \in Paths(original) BY PathValues
<1>6. <<name, g>> \in Paths(current) BY PathValues
<1>7. IsPrefix(<<name, g>>, <<name, g>>) BY DEF IsPrefix
<1>1. At(current, <<name, g>>) = At(original, <<name, g>>)
  BY <1>5, <1>6, <1>7, UntouchedValue DEF Kept
<1>2. current[name][g] = original[name][g]
  BY <1>1, PathValues
<1>3. Parse(current)[name][g] =
          IF g = "vatId" THEN NormalizeVatId(current[name].vatId) ELSE current[name][g]
  <2>1. current \in InvoiceType BY DEF Kept
  <2> QED BY <2>1, ParsedField
<1>4. original[name].vatId \in VatIds /\ original[name].vatId # Malformed
      /\ (original[name].vatId # Null => ~original[name].vatId.loose)
  <2>1. original \in InvoiceType /\ SchemaAccepts(original) BY DEF Kept, IsStored
  <2>2. original[name] \in PartyType BY <2>1, ListsFit DEF Parties
  <2>3. "vatId" \in PartyFields BY DEF PartyFields
  <2>4. <<name, "vatId">> \in Paths(original)
        /\ At(original, <<name, "vatId">>) = original[name]["vatId"]
    BY <2>3, PathValues
  <2> QED BY <2>1, <2>2, <2>4 DEF PartyType, SchemaAccepts, Kept, IsStored
<1> QED BY <1>2, <1>3, <1>4, NormalIsNormal

(* A field of a line item is submitted as it was stored when the finding   *)
(* about it is untouched and no line item was added or removed.            *)
LEMMA KeptLine ==
    ASSUME NEW original, NEW current, NEW lists, NEW field, Kept(original, current, lists, field),
           "lineItems" \notin lists, NEW i \in DOMAIN original.lineItems, NEW g \in LineItemFields,
           IsPrefix(field, <<"lineItems", i, g>>)
    PROVE  /\ i \in DOMAIN Parse(current).lineItems
           /\ Parse(current).lineItems[i][g] = original.lineItems[i][g]
<1>1. Parse(current).lineItems = current.lineItems /\ i \in DOMAIN current.lineItems
  BY ParsedParts DEF Kept, KeepsRows
<1>2. At(current, <<"lineItems", i, g>>) = At(original, <<"lineItems", i, g>>)
  BY <1>1, UntouchedValue, PathValues DEF Kept
<1>3. current.lineItems[i][g] = original.lineItems[i][g]
  BY <1>1, <1>2, PathValues
<1> QED BY <1>1, <1>3

(* Likewise a field of an entry of the VAT breakdown.                      *)
LEMMA KeptEntry ==
    ASSUME NEW original, NEW current, NEW lists, NEW field, Kept(original, current, lists, field),
           "vatBreakdown" \notin lists, NEW i \in DOMAIN original.vatBreakdown,
           NEW g \in VatBreakdownFields, IsPrefix(field, <<"vatBreakdown", i, g>>)
    PROVE  /\ i \in DOMAIN Parse(current).vatBreakdown
           /\ Parse(current).vatBreakdown[i][g] = original.vatBreakdown[i][g]
<1>1. Parse(current).vatBreakdown = current.vatBreakdown /\ i \in DOMAIN current.vatBreakdown
  BY ParsedParts DEF Kept, KeepsRows
<1>2. At(current, <<"vatBreakdown", i, g>>) = At(original, <<"vatBreakdown", i, g>>)
  BY <1>1, UntouchedValue, PathValues DEF Kept
<1>3. current.vatBreakdown[i][g] = original.vatBreakdown[i][g]
  BY <1>1, <1>2, PathValues
<1> QED BY <1>1, <1>3

(* The totals of an invoice.                                               *)
Totals == {"netTotal", "vatTotal", "grossTotal"}

(* A list without rows, to which none was added, has none.                 *)
LEMMA EmptyListStays ==
    ASSUME NEW original, NEW current, NEW lists, NEW field, Kept(original, current, lists, field)
    PROVE  /\ "lineItems" \notin lists
                 /\ original.lineItems = <<>> => Parse(current).lineItems = <<>>
           /\ "vatBreakdown" \notin lists /\ original.vatBreakdown = <<>>
                => Parse(current).vatBreakdown = <<>>
<1>1. /\ current.lineItems \in Seq(LineItemType) /\ original.lineItems \in Seq(LineItemType)
      /\ current.vatBreakdown \in Seq(VatBreakdownType)
      /\ original.vatBreakdown \in Seq(VatBreakdownType)
  BY ListsFit DEF Kept, IsStored
<1>2. Parse(current).lineItems = current.lineItems
      /\ Parse(current).vatBreakdown = current.vatBreakdown
  BY ParsedParts DEF Kept
<1>3. ASSUME "lineItems" \notin lists, original.lineItems = <<>> PROVE current.lineItems = <<>>
  <2>1. DOMAIN current.lineItems = DOMAIN original.lineItems BY <1>3 DEF Kept, KeepsRows
  <2>2. 1 \notin DOMAIN current.lineItems BY <1>3, <2>1
  <2>3. Len(current.lineItems) = 0 BY <1>1, <2>2
  <2> QED BY <1>1, <2>3, EmptySeq
<1>4. ASSUME "vatBreakdown" \notin lists, original.vatBreakdown = <<>>
      PROVE current.vatBreakdown = <<>>
  <2>1. DOMAIN current.vatBreakdown = DOMAIN original.vatBreakdown BY <1>4 DEF Kept, KeepsRows
  <2>2. 1 \notin DOMAIN current.vatBreakdown BY <1>4, <2>1
  <2>3. Len(current.vatBreakdown) = 0 BY <1>1, <2>2
  <2> QED BY <1>1, <2>3, EmptySeq
<1> QED BY <1>2, <1>3, <1>4

(* An untouched finding on the precision of an amount remains.             *)
LEMMA PrecisionRemains ==
    ASSUME NEW original, NEW current, NEW lists, NEW f \in ValidateMonetaryPrecision(original),
           Kept(original, current, lists, f.field)
    PROVE  f \in ValidateMonetaryPrecision(Parse(current))
<1> DEFINE parsed == Parse(current)
<1>1. PICK path \in MonetaryPaths(original) :
          /\ At(original, path) # Null /\ ~HasMinorUnits(At(original, path))
          /\ f = Error("format.monetary_precision", path)
  BY DEF ValidateMonetaryPrecision
<1>2. f.field = path BY <1>1 DEF Error
<1> SUFFICES path \in MonetaryPaths(parsed) /\ At(parsed, path) = At(original, path)
  BY <1>1 DEF ValidateMonetaryPrecision
<1> HIDE DEF parsed
<1>3. CASE \E g \in Totals : path = <<g>>
  <2>1. PICK g \in Totals : path = <<g>> BY <1>3
  <2>2. g \in TopLevelFields BY DEF Totals, TopLevelFields
  <2>3. parsed[g] = original[g] BY <1>2, <2>1, <2>2, KeptTop DEF parsed
  <2>4. At(parsed, <<g>>) = parsed[g] /\ At(original, <<g>>) = original[g]
    BY <2>2, PathValues
  <2>5. <<g>> \in MonetaryPaths(parsed) BY DEF MonetaryPaths, Totals
  <2> QED BY <2>1, <2>3, <2>4, <2>5
<1>4. CASE \E i \in DOMAIN original.lineItems : path = <<"lineItems", i, "netAmount">>
  <2>1. PICK i \in DOMAIN original.lineItems : path = <<"lineItems", i, "netAmount">> BY <1>4
  <2>2. "lineItems" \notin lists BY <1>2, <2>1 DEF Kept
  <2>3. "netAmount" \in LineItemFields BY DEF LineItemFields
  <2>7. IsPrefix(<<"lineItems", i, "netAmount">>, <<"lineItems", i, "netAmount">>) BY DEF IsPrefix
  <2>4. IsPrefix(path, <<"lineItems", i, "netAmount">>) BY <2>1, <2>7
  <2>5. i \in DOMAIN parsed.lineItems
        /\ parsed.lineItems[i]["netAmount"] = original.lineItems[i]["netAmount"]
    BY <1>2, <2>2, <2>3, <2>4, KeptLine DEF parsed
  <2>6. At(parsed, path) = At(original, path) BY <2>1, <2>3, <2>5, PathValues
  <2> QED BY <2>1, <2>5, <2>6 DEF MonetaryPaths
<1>5. CASE \E i \in DOMAIN original.vatBreakdown, g \in {"base", "amount"} :
               path = <<"vatBreakdown", i, g>>
  <2>1. PICK i \in DOMAIN original.vatBreakdown, g \in {"base", "amount"} :
            path = <<"vatBreakdown", i, g>>
    BY <1>5
  <2>2. "vatBreakdown" \notin lists BY <1>2, <2>1 DEF Kept
  <2>3. g \in VatBreakdownFields BY DEF VatBreakdownFields
  <2>7. IsPrefix(<<"vatBreakdown", i, g>>, <<"vatBreakdown", i, g>>) BY DEF IsPrefix
  <2>4. IsPrefix(path, <<"vatBreakdown", i, g>>) BY <2>1, <2>7
  <2>5. i \in DOMAIN parsed.vatBreakdown
        /\ parsed.vatBreakdown[i][g] = original.vatBreakdown[i][g]
    BY <1>2, <2>2, <2>3, <2>4, KeptEntry DEF parsed
  <2>6. At(parsed, path) = At(original, path) BY <2>1, <2>3, <2>5, PathValues
  <2> QED BY <2>1, <2>5, <2>6 DEF MonetaryPaths
<1> QED BY <1>3, <1>4, <1>5 DEF MonetaryPaths, Totals

(* The rules of arithmetic.ts read other fields.                           *)
LEMMA ArithmeticReadsOthers ==
    ASSUME NEW data, NEW f \in ValidateArithmetic(data)
    PROVE  f.rule \in ReadsOtherFields
BY DEF ValidateArithmetic, ReadsOtherFields, Unless, Error

(* An untouched error of formats.ts remains.                               *)
LEMMA FormatRemains ==
    ASSUME NEW original, NEW current, NEW lists, NEW f \in ValidateFormats(original),
           f.severity = "ERROR", Kept(original, current, lists, f.field)
    PROVE  f \in ValidateFormats(Parse(current))
<1> DEFINE parsed == Parse(current)
<1> HIDE DEF parsed
<1>1. CASE \E name \in Parties : f \in PartyFormats(name, original[name])
  <2>1. PICK name \in Parties : f \in PartyFormats(name, original[name]) BY <1>1
  <2>2. original[name].vatId # Null /\ f \in VatIdFormat(name, original[name].vatId)
    BY <2>1 DEF PartyFormats, Unless, Warning
  <2>3. f.field = <<name, "vatId">> BY <2>2 DEF VatIdFormat, Unless, Error
  <2>4. parsed[name]["vatId"] = original[name]["vatId"]
    <3>1. "vatId" \in PartyFields BY DEF PartyFields
    <3>2. Kept(original, current, lists, <<name, "vatId">>) BY <2>3
    <3> QED BY <3>1, <3>2, KeptParty DEF parsed
  <2>5. f \in PartyFormats(name, parsed[name])
    BY <2>2, <2>4 DEF PartyFormats
  <2> QED BY <2>5 DEF ValidateFormats, parsed
<1>2. CASE \E g \in {"issueDate", "dueDate", "deliveryDate"} :
               ~IsCalendarDate(original[g]) /\ f = Error("format.calendar_date", <<g>>)
  <2>1. PICK g \in {"issueDate", "dueDate", "deliveryDate"} :
               ~IsCalendarDate(original[g]) /\ f = Error("format.calendar_date", <<g>>)
    BY <1>2
  <2>2. f.field = <<g>> /\ g \in TopLevelFields BY <2>1 DEF Error, TopLevelFields
  <2>3. parsed[g] = original[g] BY <2>2, KeptTop DEF parsed
  <2> QED BY <2>1, <2>3 DEF ValidateFormats, parsed
<1>3. CASE original.sellerIban \notin {Null, "iban"}
           /\ f = Error("format.iban_checksum", <<"sellerIban">>)
  <2>1. f.field = <<"sellerIban">> /\ "sellerIban" \in TopLevelFields
    BY <1>3 DEF Error, TopLevelFields
  <2>2. parsed["sellerIban"] = original["sellerIban"] BY <2>1, KeptTop DEF parsed
  <2> QED BY <1>3, <2>2 DEF ValidateFormats, Unless, parsed
<1>4. CASE original.currency = "XXQ" /\ f = Error("format.currency", <<"currency">>)
  <2>1. f.field = <<"currency">> /\ "currency" \in TopLevelFields BY <1>4 DEF Error, TopLevelFields
  <2>2. parsed["currency"] = original["currency"] BY <2>1, KeptTop DEF parsed
  <2> QED BY <1>4, <2>2 DEF ValidateFormats, Unless, parsed
<1>5. \A rule, field : f # Warning(rule, field) BY DEF Warning
<1>6. \/ f \in UNION {PartyFormats(name, original[name]) : name \in Parties}
      \/ f \in {Error("format.calendar_date", <<g>>) :
                  g \in {h \in {"issueDate", "dueDate", "deliveryDate"} :
                            ~IsCalendarDate(original[h])}}
      \/ f \in Unless(original.sellerIban \in {Null, "iban"},
                     Error("format.iban_checksum", <<"sellerIban">>))
      \/ f \in Unless(original.currency # "XXQ", Error("format.currency", <<"currency">>))
  BY <1>5 DEF ValidateFormats, Unless
<1> QED BY <1>1, <1>2, <1>3, <1>4, <1>6 DEF Unless

(* An untouched error of plausibility.ts remains.                          *)
LEMMA PlausibilityRemains ==
    ASSUME NEW original, NEW current, NEW lists, NEW f \in ValidatePlausibility(original),
           f.severity = "ERROR", Kept(original, current, lists, f.field)
    PROVE  f \in ValidatePlausibility(Parse(current))
<1>0. ASSUME NEW i, NEW entry PROVE f \notin BreakdownPlausibility(i, entry)
  BY DEF BreakdownPlausibility, Unless, Warning
<1>1. original.lineItems = <<>> /\ f = Error("plausible.line_count", <<"lineItems">>)
  BY <1>0 DEF ValidatePlausibility, Unless, Warning
<1>2. "lineItems" \notin lists BY <1>1 DEF Kept, Error
<1>3. Parse(current).lineItems = <<>> BY <1>1, <1>2, EmptyListStays
<1> QED BY <1>1, <1>3 DEF ValidatePlausibility, Unless

(* What is missing in a party, and was not entered, is still missing.      *)
LEMMA PartyRemains ==
    ASSUME NEW original, NEW current, NEW lists, NEW name \in Parties,
           NEW f \in PartyCompleteness(name, original[name]),
           f.severity = "ERROR", Kept(original, current, lists, f.field)
    PROVE  f \in ValidateCompleteness(Parse(current))
<1> DEFINE parsed == Parse(current)
           rule == IF name = "seller"
             THEN "mandatory.seller_identity" ELSE "mandatory.buyer_identity"
<1> HIDE DEF parsed
<1>0. ASSUME NEW g \in PartyFields, f.field = <<name, g>> PROVE parsed[name][g] = original[name][g]
  <2>1. Kept(original, current, lists, <<name, g>>) BY <1>0
  <2> QED BY <2>1, KeptParty DEF parsed
<1>1. CASE \E g \in {"name", "postalCode", "city", "countryCode"} :
               ~IsPresent(original[name][g]) /\ f = Error(rule, <<name, g>>)
  <2>1. PICK g \in {"name", "postalCode", "city", "countryCode"} :
               ~IsPresent(original[name][g]) /\ f = Error(rule, <<name, g>>)
    BY <1>1
  <2>2. g \in PartyFields /\ f.field = <<name, g>> BY <2>1 DEF PartyFields, Error
  <2>3. ~IsPresent(parsed[name][g]) BY <1>0, <2>1, <2>2
  <2>4. f \in PartyCompleteness(name, parsed[name]) BY <2>1, <2>3 DEF PartyCompleteness
  <2> QED BY <2>4 DEF ValidateCompleteness, parsed
<1>2. CASE \E g \in {"electronicAddress", "electronicAddressScheme"} :
               ~IsPresent(original[name][g])
                 /\ f = Error("mandatory.electronic_address", <<name, g>>)
  <2>1. PICK g \in {"electronicAddress", "electronicAddressScheme"} :
               ~IsPresent(original[name][g])
                 /\ f = Error("mandatory.electronic_address", <<name, g>>)
    BY <1>2
  <2>2. g \in PartyFields /\ f.field = <<name, g>> BY <2>1 DEF PartyFields, Error
  <2>3. ~IsPresent(parsed[name][g]) BY <1>0, <2>1, <2>2
  <2>4. f \in PartyCompleteness(name, parsed[name]) BY <2>1, <2>3 DEF PartyCompleteness
  <2> QED BY <2>4 DEF ValidateCompleteness, parsed
<1>3. f # Warning("mandatory.party_street", <<name, "street">>) BY DEF Warning
<1>4. \/ f \in {Error(rule, <<name, g>>) :
                  g \in {h \in {"name", "postalCode", "city", "countryCode"} :
                            ~IsPresent(original[name][h])}}
      \/ f \in {Error("mandatory.electronic_address", <<name, g>>) :
                  g \in {h \in {"electronicAddress", "electronicAddressScheme"} :
                            ~IsPresent(original[name][h])}}
  BY <1>3 DEF PartyCompleteness, Unless
<1> HIDE DEF rule
<1> QED BY <1>1, <1>2, <1>4

(* What is missing in the contact of the seller is still missing.          *)
LEMMA ContactRemains ==
    ASSUME NEW original, NEW current, NEW lists, NEW f,
           NEW g \in {"contactName", "contactEmail", "contactPhone"},
           ~IsPresent(original.seller[g]), f = Error("mandatory.seller_contact", <<"seller", g>>),
           Kept(original, current, lists, f.field)
    PROVE  f \in ValidateCompleteness(Parse(current))
<1> DEFINE parsed == Parse(current)
<1> HIDE DEF parsed
<1>1. "seller" \in Parties /\ g \in PartyFields /\ Kept(original, current, lists, <<"seller", g>>)
  BY DEF Error, Parties, PartyFields
<1>2. parsed["seller"][g] = original["seller"][g] BY <1>1, KeptParty DEF parsed
<1>3. ~IsPresent(parsed.seller[g]) BY <1>2
<1> QED BY <1>3 DEF ValidateCompleteness, parsed

(* What is missing in a row of a list is still missing.                    *)
LEMMA RowRemains ==
    ASSUME NEW original, NEW current, NEW lists, NEW f, Kept(original, current, lists, f.field),
           f.rule \notin ReadsOtherFields,
           \/ \E i \in DOMAIN original.lineItems : f \in LineCompleteness(i, original.lineItems[i])
           \/ \E i \in DOMAIN original.vatBreakdown :
                  f \in BreakdownCompleteness(i, original.vatBreakdown[i])
    PROVE  f \in ValidateCompleteness(Parse(current))
<1> DEFINE parsed == Parse(current)
<1> HIDE DEF parsed
<1>1. CASE \E i \in DOMAIN original.lineItems : f \in LineCompleteness(i, original.lineItems[i])
  <2>1. PICK i \in DOMAIN original.lineItems : f \in LineCompleteness(i, original.lineItems[i])
    BY <1>1
  <2>2. f.field = <<"lineItems", i>>
        /\ f = Error("mandatory.line_vat_rate_or_exemption", <<"lineItems", i>>)
        /\ original.lineItems[i].vatRate = Null
              /\ ~IsPresent(original.lineItems[i].vatExemptionReason)
    BY <2>1 DEF LineCompleteness, Unless, Error
  <2>3. "lineItems" \notin lists BY <2>2 DEF Kept
  <2>4. ASSUME NEW g \in LineItemFields
        PROVE  /\ i \in DOMAIN parsed.lineItems
               /\ parsed.lineItems[i][g] = original.lineItems[i][g]
    <3>1. IsPrefix(<<"lineItems", i>>, <<"lineItems", i, g>>) BY DEF IsPrefix
    <3>2. IsPrefix(f.field, <<"lineItems", i, g>>) BY <2>2, <3>1
    <3> QED BY <2>3, <3>2, KeptLine DEF parsed
  <2>5. "vatRate" \in LineItemFields /\ "vatExemptionReason" \in LineItemFields
    BY DEF LineItemFields
  <2>6. i \in DOMAIN parsed.lineItems /\ parsed.lineItems[i].vatRate = Null
        /\ ~IsPresent(parsed.lineItems[i].vatExemptionReason)
    BY <2>2, <2>4, <2>5
  <2>7. f \in LineCompleteness(i, parsed.lineItems[i]) BY <2>2, <2>6 DEF LineCompleteness, Unless
  <2> QED BY <2>6, <2>7 DEF ValidateCompleteness, parsed
<1>2. CASE \E i \in DOMAIN original.vatBreakdown :
                  f \in BreakdownCompleteness(i, original.vatBreakdown[i])
  <2>1. PICK i \in DOMAIN original.vatBreakdown :
                  f \in BreakdownCompleteness(i, original.vatBreakdown[i])
    BY <1>2
  <2> DEFINE entry == original.vatBreakdown[i]
  <2>2. f = Error("mandatory.vat_rate_or_exemption", <<"vatBreakdown", i>>)
        /\ f.field = <<"vatBreakdown", i>>
        /\ (entry.rate = Null \/ entry.amount = Null) /\ ~IsPresent(entry.exemptionReason)
    BY <2>1 DEF BreakdownCompleteness, Unless, Error, ReadsOtherFields
  <2>3. "vatBreakdown" \notin lists BY <2>2 DEF Kept
  <2>4. ASSUME NEW g \in VatBreakdownFields
        PROVE  /\ i \in DOMAIN parsed.vatBreakdown
               /\ parsed.vatBreakdown[i][g] = original.vatBreakdown[i][g]
    <3>1. IsPrefix(<<"vatBreakdown", i>>, <<"vatBreakdown", i, g>>) BY DEF IsPrefix
    <3>2. IsPrefix(f.field, <<"vatBreakdown", i, g>>) BY <2>2, <3>1
    <3> QED BY <2>3, <3>2, KeptEntry DEF parsed
  <2>5. "rate" \in VatBreakdownFields /\ "amount" \in VatBreakdownFields
        /\ "exemptionReason" \in VatBreakdownFields
    BY DEF VatBreakdownFields
  <2>6. i \in DOMAIN parsed.vatBreakdown /\ parsed.vatBreakdown[i].rate = entry.rate
        /\ parsed.vatBreakdown[i].amount = entry.amount
        /\ parsed.vatBreakdown[i].exemptionReason = entry.exemptionReason
    BY <2>4, <2>5
  <2>7. f \in BreakdownCompleteness(i, parsed.vatBreakdown[i])
    BY <2>2, <2>6 DEF BreakdownCompleteness, Unless
  <2> QED BY <2>6, <2>7 DEF ValidateCompleteness, parsed
<1> QED BY <1>1, <1>2

(* What is missing in the invoice itself is still missing.                 *)
LEMMA TopLevelRemains ==
    ASSUME NEW original, NEW current, NEW lists, NEW f, Kept(original, current, lists, f.field),
           \/ \E g \in Totals : original[g] = Null /\ f = Error("mandatory.monetary_total", <<g>>)
           \/ original.issueDate = Null /\ f = Error("mandatory.issue_date", <<"issueDate">>)
           \/ ~IsPresent(original.invoiceNumber)
              /\ f = Error("mandatory.invoice_number", <<"invoiceNumber">>)
           \/ original.currency = Null /\ f = Error("mandatory.currency", <<"currency">>)
           \/ ~IsPresent(original.buyerReference)
              /\ f = Error("mandatory.buyer_reference", <<"buyerReference">>)
    PROVE  f \in ValidateCompleteness(Parse(current))
<1> DEFINE parsed == Parse(current)
<1>0. ASSUME NEW g \in TopLevelFields, f.field = <<g>> PROVE parsed[g] = original[g]
  <2>1. Kept(original, current, lists, <<g>>) BY <1>0
  <2> QED BY <2>1, KeptTop
<1> HIDE DEF parsed
<1>7. HeaderCompleteness(parsed) \subseteq ValidateCompleteness(parsed) BY DEF ValidateCompleteness
<1>1. CASE \E g \in Totals : original[g] = Null /\ f = Error("mandatory.monetary_total", <<g>>)
  <2>1. PICK g \in Totals : original[g] = Null /\ f = Error("mandatory.monetary_total", <<g>>)
    BY <1>1
  <2>2. g \in TopLevelFields /\ f.field = <<g>> BY <2>1 DEF Totals, TopLevelFields, Error
  <2>3. parsed[g] = Null BY <1>0, <2>1, <2>2
  <2> QED BY <2>1, <2>3 DEF ValidateCompleteness, Totals, parsed
<1>2. CASE original.issueDate = Null /\ f = Error("mandatory.issue_date", <<"issueDate">>)
  <2>1. f.field = <<"issueDate">> /\ "issueDate" \in TopLevelFields
    BY <1>2 DEF Error, TopLevelFields
  <2>2. parsed["issueDate"] = original["issueDate"] BY <1>0, <2>1
  <2>3. f \in HeaderCompleteness(parsed) BY <1>2, <2>2 DEF HeaderCompleteness, Unless
  <2> QED BY <1>7, <2>3 DEF parsed
<1>3. CASE ~IsPresent(original.invoiceNumber)
           /\ f = Error("mandatory.invoice_number", <<"invoiceNumber">>)
  <2>1. f.field = <<"invoiceNumber">> /\ "invoiceNumber" \in TopLevelFields
    BY <1>3 DEF Error, TopLevelFields
  <2>2. parsed["invoiceNumber"] = original["invoiceNumber"] BY <1>0, <2>1
  <2>3. f \in HeaderCompleteness(parsed) BY <1>3, <2>2 DEF HeaderCompleteness, Unless
  <2> QED BY <1>7, <2>3 DEF parsed
<1>4. CASE original.currency = Null /\ f = Error("mandatory.currency", <<"currency">>)
  <2>1. f.field = <<"currency">> /\ "currency" \in TopLevelFields BY <1>4 DEF Error, TopLevelFields
  <2>2. parsed["currency"] = original["currency"] BY <1>0, <2>1
  <2>3. f \in HeaderCompleteness(parsed) BY <1>4, <2>2 DEF HeaderCompleteness, Unless
  <2> QED BY <1>7, <2>3 DEF parsed
<1>5. CASE ~IsPresent(original.buyerReference)
           /\ f = Error("mandatory.buyer_reference", <<"buyerReference">>)
  <2>1. f.field = <<"buyerReference">> /\ "buyerReference" \in TopLevelFields
    BY <1>5 DEF Error, TopLevelFields
  <2>2. parsed["buyerReference"] = original["buyerReference"] BY <1>0, <2>1
  <2>3. f \in HeaderCompleteness(parsed) BY <1>5, <2>2 DEF HeaderCompleteness, Unless
  <2> QED BY <1>7, <2>3 DEF parsed
<1> QED BY <1>1, <1>2, <1>3, <1>4, <1>5

(* What no row of a list has, or what one row lacks, is still missing.     *)
LEMMA ListRemains ==
    ASSUME NEW original, NEW current, NEW lists, NEW f, Kept(original, current, lists, f.field),
           \/ /\ f = Error("mandatory.line_descriptions", <<"lineItems">>)
              /\ \/ original.lineItems = <<>>
                 \/ \E i \in DOMAIN original.lineItems :
                        \/ ~IsPresent(original.lineItems[i].description)
                        \/ original.lineItems[i].quantity = Null
           \/ /\ f = Error("mandatory.line_amounts", <<"lineItems">>)
              /\ \/ original.lineItems = <<>>
                 \/ \E i \in DOMAIN original.lineItems : original.lineItems[i].netAmount = Null
           \/ /\ f = Error("mandatory.vat_breakdown", <<"vatBreakdown">>)
              /\ original.vatBreakdown = <<>>
    PROVE  f \in ValidateCompleteness(Parse(current))
<1> DEFINE parsed == Parse(current)
<1> HIDE DEF parsed
<1>7. HeaderCompleteness(parsed) \subseteq ValidateCompleteness(parsed) BY DEF ValidateCompleteness
<1>1. ASSUME f.field = <<"lineItems">>
      PROVE  /\ "lineItems" \notin lists
             /\ original.lineItems = <<>> => parsed.lineItems = <<>>
             /\ \A i \in DOMAIN original.lineItems :
                    /\ i \in DOMAIN parsed.lineItems
                    /\ parsed.lineItems[i].description = original.lineItems[i].description
                    /\ parsed.lineItems[i].quantity = original.lineItems[i].quantity
                    /\ parsed.lineItems[i].netAmount = original.lineItems[i].netAmount
  <2>1. "lineItems" \notin lists BY <1>1 DEF Kept
  <2>2. original.lineItems = <<>> => parsed.lineItems = <<>> BY <2>1, EmptyListStays DEF parsed
  <2>3. ASSUME NEW i \in DOMAIN original.lineItems, NEW g \in LineItemFields
        PROVE  i \in DOMAIN parsed.lineItems /\ parsed.lineItems[i][g] = original.lineItems[i][g]
    <3>1. IsPrefix(<<"lineItems">>, <<"lineItems", i, g>>) BY DEF IsPrefix
    <3>2. IsPrefix(f.field, <<"lineItems", i, g>>) BY <1>1, <3>1
    <3> QED BY <2>1, <3>2, KeptLine DEF parsed
  <2>4. "description" \in LineItemFields /\ "quantity" \in LineItemFields
        /\ "netAmount" \in LineItemFields
    BY DEF LineItemFields
  <2> QED BY <2>1, <2>2, <2>3, <2>4
<1>2. CASE f = Error("mandatory.line_descriptions", <<"lineItems">>)
           /\ \/ original.lineItems = <<>>
              \/ \E i \in DOMAIN original.lineItems :
                        \/ ~IsPresent(original.lineItems[i].description)
                        \/ original.lineItems[i].quantity = Null
  <2>1. f.field = <<"lineItems">> BY <1>2 DEF Error
  <2>2. \/ parsed.lineItems = <<>>
        \/ \E i \in DOMAIN parsed.lineItems : \/ ~IsPresent(parsed.lineItems[i].description)
                                              \/ parsed.lineItems[i].quantity = Null
    BY <1>1, <1>2, <2>1
  <2>3. f \in HeaderCompleteness(parsed) BY <1>2, <2>2 DEF HeaderCompleteness, Unless
  <2> QED BY <1>7, <2>3 DEF parsed
<1>3. CASE f = Error("mandatory.line_amounts", <<"lineItems">>)
           /\ \/ original.lineItems = <<>>
              \/ \E i \in DOMAIN original.lineItems : original.lineItems[i].netAmount = Null
  <2>1. f.field = <<"lineItems">> BY <1>3 DEF Error
  <2>2. \/ parsed.lineItems = <<>>
        \/ \E i \in DOMAIN parsed.lineItems : parsed.lineItems[i].netAmount = Null
    BY <1>1, <1>3, <2>1
  <2>3. f \in HeaderCompleteness(parsed) BY <1>3, <2>2 DEF HeaderCompleteness, Unless
  <2> QED BY <1>7, <2>3 DEF parsed
<1>4. CASE f = Error("mandatory.vat_breakdown", <<"vatBreakdown">>) /\ original.vatBreakdown = <<>>
  <2>1. "vatBreakdown" \notin lists BY <1>4 DEF Kept, Error
  <2>2. parsed.vatBreakdown = <<>> BY <1>4, <2>1, EmptyListStays DEF parsed
  <2>3. f \in HeaderCompleteness(parsed) BY <1>4, <2>2 DEF HeaderCompleteness, Unless
  <2> QED BY <1>7, <2>3 DEF parsed
<1> QED BY <1>2, <1>3, <1>4

(* An untouched error of completeness.ts remains.                          *)
LEMMA CompletenessRemains ==
    ASSUME NEW original, NEW current, NEW lists, NEW f \in ValidateCompleteness(original),
           f.severity = "ERROR", f.rule \notin ReadsOtherFields,
           Kept(original, current, lists, f.field)
    PROVE  f \in ValidateCompleteness(Parse(current))
<1>1. CASE \E name \in Parties : f \in PartyCompleteness(name, original[name])
  BY <1>1, PartyRemains
<1>2. CASE f \in {Error("mandatory.seller_contact", <<"seller", g>>) :
                    g \in {h \in {"contactName", "contactEmail", "contactPhone"} :
                             ~IsPresent(original.seller[h])}}
  BY <1>2, ContactRemains
<1>3. CASE \/ \E i \in DOMAIN original.lineItems : f \in LineCompleteness(i, original.lineItems[i])
           \/ \E i \in DOMAIN original.vatBreakdown :
                  f \in BreakdownCompleteness(i, original.vatBreakdown[i])
  BY <1>3, RowRemains
<1>4. f \notin CategoryCompleteness(original)
  BY DEF CategoryCompleteness, ReadsOtherFields, Unless, Error
<1>5. CASE f \in {Error("mandatory.monetary_total", <<g>>) :
                    g \in {h \in {"netTotal", "vatTotal", "grossTotal"} : original[h] = Null}}
  BY <1>5, TopLevelRemains DEF Totals
<1>6. CASE f \in HeaderCompleteness(original)
  <2>1. /\ f # Error("mandatory.seller_tax_id", <<"seller", "vatId">>)
        /\ f # Error("mandatory.payment_terms", <<"paymentTerms">>)
    BY DEF ReadsOtherFields, Error
  <2>2. /\ f # Warning("mandatory.seller_iban", <<"sellerIban">>)
        /\ f # Warning("mandatory.delivery_date", <<"deliveryDate">>)
    BY DEF Warning
  <2>3. \/ original.issueDate = Null /\ f = Error("mandatory.issue_date", <<"issueDate">>)
        \/ ~IsPresent(original.invoiceNumber)
           /\ f = Error("mandatory.invoice_number", <<"invoiceNumber">>)
        \/ original.currency = Null /\ f = Error("mandatory.currency", <<"currency">>)
        \/ ~IsPresent(original.buyerReference)
           /\ f = Error("mandatory.buyer_reference", <<"buyerReference">>)
        \/ /\ f = Error("mandatory.line_descriptions", <<"lineItems">>)
           /\ \/ original.lineItems = <<>>
              \/ \E i \in DOMAIN original.lineItems :
                     \/ ~IsPresent(original.lineItems[i].description)
                     \/ original.lineItems[i].quantity = Null
        \/ /\ f = Error("mandatory.line_amounts", <<"lineItems">>)
           /\ \/ original.lineItems = <<>>
              \/ \E i \in DOMAIN original.lineItems : original.lineItems[i].netAmount = Null
        \/ /\ f = Error("mandatory.vat_breakdown", <<"vatBreakdown">>)
           /\ original.vatBreakdown = <<>>
    BY <1>6, <2>1, <2>2 DEF HeaderCompleteness, Unless
  <2> QED BY <2>3, TopLevelRemains, ListRemains
<1>7. \/ f \in UNION {PartyCompleteness(name, original[name]) : name \in Parties}
      \/ f \in {Error("mandatory.seller_contact", <<"seller", g>>) :
                    g \in {h \in {"contactName", "contactEmail", "contactPhone"} :
                             ~IsPresent(original.seller[h])}}
      \/ f \in UNION {LineCompleteness(i, original.lineItems[i]) : i \in DOMAIN original.lineItems}
      \/ f \in UNION {BreakdownCompleteness(i, original.vatBreakdown[i]) :
                        i \in DOMAIN original.vatBreakdown}
      \/ f \in CategoryCompleteness(original)
      \/ f \in {Error("mandatory.monetary_total", <<g>>) :
                    g \in {h \in {"netTotal", "vatTotal", "grossTotal"} : original[h] = Null}}
      \/ f \in HeaderCompleteness(original)
  BY DEF ValidateCompleteness
<1> QED BY <1>1, <1>2, <1>3, <1>4, <1>5, <1>6, <1>7

(* An untouched error of any rule that reads one field remains.            *)
LEMMA FindingRemains ==
    ASSUME NEW original, NEW current, NEW lists, NEW f \in ValidateExtractedInvoice(original),
           f.severity = "ERROR", f.rule \notin ReadsOtherFields,
           Kept(original, current, lists, f.field)
    PROVE  f \in ValidateExtractedInvoice(Parse(current))
<1>1. original # Null /\ Parse(current) # Null
  BY ParseStores, DataAssumption DEF Kept, IsStored
<1>2. f \notin ValidateArithmetic(original) BY ArithmeticReadsOthers
<1> DEFINE parsed == Parse(current)
<1> HIDE DEF parsed
<1>3. \/ f \in ValidateMonetaryPrecision(parsed)
      \/ f \in ValidateFormats(parsed)
      \/ f \in ValidateCompleteness(parsed)
      \/ f \in ValidatePlausibility(parsed)
  BY <1>1, <1>2, PrecisionRemains, FormatRemains, CompletenessRemains, PlausibilityRemains
     DEF ValidateExtractedInvoice, parsed
<1> QED BY <1>1, <1>3 DEF ValidateExtractedInvoice, parsed

(* The findings of an invoice are those of its stored data, besides the    *)
(* decisions of the generation.                                            *)
OriginsInv ==
    \A f \in findings :
        f \in ValidateExtractedInvoice(stored) \/ f.rule \in MappingRules \cup KositRules

(* The page knows which lists of a draft have other rows.                  *)
RowsInv == draft # Null => KeepsRows(stored, draft, restructured)

(* Findings are always about the data that is stored.                      *)
LEMMA OriginsInvariant == Spec => []OriginsInv
<1>1. Init => OriginsInv
  BY DEF Init, OriginsInv
<1>2. OriginsInv /\ [Next]_vars => OriginsInv'
  <2> SUFFICES ASSUME OriginsInv, [Next]_vars PROVE OriginsInv'
    OBVIOUS
  <2>1. CASE Validate \/ Submit
    BY <2>1 DEF Validate, Submit, OriginsInv
  <2>2. CASE RejectUnreadable
    BY <2>2 DEF RejectUnreadable, RejectGeneration, Error, MappingRules, OriginsInv
  <2>3. CASE RejectMapping
    <3>1. \A f \in MappingFindings(stored) : f.rule \in MappingRules
      BY MappingIsOfMapping DEF OfMapping
    <3> QED BY <2>3, <3>1 DEF RejectMapping, RejectGeneration, OriginsInv
  <2>4. CASE RejectRendering
    BY <2>4 DEF RejectRendering, RejectGeneration, Error, MappingRules, OriginsInv
  <2>5. CASE Accept
    BY <2>5 DEF Accept, CompleteGeneration, OriginsInv
  <2>6. CASE RejectByKosit
    <3>1. PICK messages : CompleteGeneration(FALSE, KositRejectionFindings(messages))
      BY <2>6 DEF RejectByKosit
    <3>2. \A f \in KositRejectionFindings(messages) : f.rule \in KositRules
      BY DEF KositRejectionFindings, KositFinding, KositRules, Error
    <3> QED BY <3>1, <3>2 DEF CompleteGeneration, OriginsInv
  <2>7. CASE Open \/ EnqueueFails \/ UNCHANGED vars
    BY <2>7 DEF Open, EnqueueFails, vars, OriginsInv
  <2>8. CASE Edit \/ AddRow \/ RemoveRow
    BY <2>8 DEF Edit, AddRow, RemoveRow, Change, OriginsInv
  <2> QED BY <2>1, <2>2, <2>3, <2>4, <2>5, <2>6, <2>7, <2>8 DEF Next
<1> QED BY <1>1, <1>2, PTL DEF Spec

(* An entry in a field leaves every list its rows.                         *)
LEMMA UpdateKeepsRows ==
    ASSUME NEW data \in InvoiceType, NEW path \in Paths(data), NEW value
    PROVE  /\ DOMAIN Update(data, path, value).lineItems = DOMAIN data.lineItems
           /\ DOMAIN Update(data, path, value).vatBreakdown = DOMAIN data.vatBreakdown
<1>0. DOMAIN data = TopLevelFields \cup Parties \cup {"lineItems", "vatBreakdown"}
  BY DEF InvoiceType, TopLevelFields, Parties
<1>1. CASE \E f \in TopLevelFields : path = <<f>>
  <2>1. PICK f \in TopLevelFields : path = <<f>> BY <1>1
  <2>2. Update(data, path, value) = [data EXCEPT ![f] = value]
    BY <2>1 DEF Update
  <2>3. f # "lineItems" /\ f # "vatBreakdown" BY DEF TopLevelFields
  <2> QED BY <1>0, <2>2, <2>3
<1>2. CASE \E name \in Parties, f \in PartyFields : path = <<name, f>>
  <2>1. PICK name \in Parties, f \in PartyFields : path = <<name, f>> BY <1>2
  <2>2. Update(data, path, value) = [data EXCEPT ![name] = [data[name] EXCEPT ![f] = value]]
    BY <2>1, SMT DEF Update
  <2>3. name # "lineItems" /\ name # "vatBreakdown" BY DEF Parties
  <2> QED BY <1>0, <2>2, <2>3
<1>3. CASE \E i \in DOMAIN data.lineItems, f \in LineItemFields : path = <<"lineItems", i, f>>
  <2>1. PICK i \in DOMAIN data.lineItems, f \in LineItemFields : path = <<"lineItems", i, f>>
    BY <1>3
  <2> DEFINE lines == data.lineItems
             row == [lines[i] EXCEPT ![f] = value]
  <2>2. Update(data, path, value) = [data EXCEPT !.lineItems = [lines EXCEPT ![i] = row]]
    BY <2>1, SMT DEF Update
  <2>3. DOMAIN [lines EXCEPT ![i] = row] = DOMAIN lines OBVIOUS
  <2> HIDE DEF lines, row
  <2> QED BY <1>0, <2>2, <2>3 DEF lines
<1>4. CASE \E i \in DOMAIN data.vatBreakdown, f \in VatBreakdownFields :
               path = <<"vatBreakdown", i, f>>
  <2>1. PICK i \in DOMAIN data.vatBreakdown, f \in VatBreakdownFields :
            path = <<"vatBreakdown", i, f>>
    BY <1>4
  <2> DEFINE entries == data.vatBreakdown
             row == [entries[i] EXCEPT ![f] = value]
  <2>2. Update(data, path, value) = [data EXCEPT !.vatBreakdown = [entries EXCEPT ![i] = row]]
    BY <2>1, SMT DEF Update
  <2>3. DOMAIN [entries EXCEPT ![i] = row] = DOMAIN entries OBVIOUS
  <2> HIDE DEF entries, row
  <2> QED BY <1>0, <2>2, <2>3 DEF entries
<1> QED BY PathShapes, <1>1, <1>2, <1>3, <1>4

(* The page always knows which lists have other rows.                      *)
LEMMA RowsInvariant == Spec => []RowsInv
<1>1. Init => RowsInv
  BY DEF Init, RowsInv
<1>2. TypeInv /\ RowsInv /\ [Next]_vars => RowsInv'
  <2> SUFFICES ASSUME TypeInv, RowsInv, [Next]_vars PROVE RowsInv'
    OBVIOUS
  <2>0. draft # Null => draft \in InvoiceType BY DEF TypeInv, RulesTypeOK
  <2>1. CASE Validate
    BY <2>1 DEF Validate, Page, RowsInv
  <2>2. CASE RejectUnreadable \/ RejectMapping \/ RejectRendering
    BY <2>2 DEF RejectUnreadable, RejectMapping, RejectRendering, RejectGeneration, Page, RowsInv
  <2>3. CASE Accept \/ RejectByKosit
    BY <2>3 DEF Accept, RejectByKosit, CompleteGeneration, Page, RowsInv
  <2>4. CASE Open
    BY <2>4 DEF Open, RowsInv, KeepsRows
  <2>5. CASE Edit
    <3>1. PICK path \in Paths(draft) : \E value : Change(Update(draft, path, value), {})
      BY <2>5 DEF Edit
    <3>2. PICK value : Change(Update(draft, path, value), {}) BY <3>1
    <3>3. draft # Null /\ draft \in InvoiceType BY <2>0, <2>5 DEF Edit
    <3>4. /\ draft' = Update(draft, path, value)
          /\ restructured' = restructured /\ stored' = stored
      BY <3>2 DEF Change
    <3>5. \A list \in {"lineItems", "vatBreakdown"} : DOMAIN draft'[list] = DOMAIN draft[list]
      BY <3>3, <3>4, UpdateKeepsRows
    <3> QED BY <3>3, <3>4, <3>5 DEF RowsInv, KeepsRows
  <2>6. CASE AddRow \/ RemoveRow
    <3>1. draft # Null /\ draft \in InvoiceType
      BY <2>0, <2>6 DEF AddRow, RemoveRow
    <3>2. \E list \in {"lineItems", "vatBreakdown"} :
             /\ restructured' = restructured \cup {list} /\ stored' = stored
             /\ \A other \in {"lineItems", "vatBreakdown"} \ {list} : draft'[other] = draft[other]
      BY <2>6, <3>1 DEF AddRow, RemoveRow, Change, AddLineItem, AddVatBreakdown,
                        RemoveLineItem, RemoveVatBreakdown, InvoiceType
    <3> QED BY <3>1, <3>2 DEF RowsInv, KeepsRows
  <2>7. CASE Submit
    BY <2>7 DEF Submit, RowsInv
  <2>8. CASE EnqueueFails
    BY <2>8 DEF EnqueueFails, Page, RowsInv
  <2>9. CASE UNCHANGED vars
    BY <2>9 DEF vars, Page, RowsInv
  <2> QED BY <2>1, <2>2, <2>3, <2>4, <2>5, <2>6, <2>7, <2>8, <2>9 DEF Next
<1> QED BY <1>1, <1>2, TypeInvariant, PTL DEF Spec

(* A finding that the confirmation shows as not edited is still there after*)
(* the submission, unless its rule reads other fields or it is about a list*)
(* to which a row was added or from which one was removed (confirm-        *)
(* panel.tsx, findings.ts).                                                *)
THEOREM UntouchedFindingsStay == Spec => []UntouchedFindingsRemain
<1>1. TypeInv /\ OriginsInv /\ RowsInv => UntouchedFindingsRemain
  <2> SUFFICES ASSUME TypeInv, OriginsInv, RowsInv, draft # Null, SchemaAccepts(draft),
                      NEW f \in Untouched(DropStaleCollectionFindings(findings, restructured),
                                          DiffDraft(stored, draft)),
                      f.rule \notin ReadsOtherFields,
                      \A list \in restructured : f.field # <<list>>
               PROVE  f \in ValidateExtractedInvoice(Parse(draft))
    BY DEF UntouchedFindingsRemain
  <2>1. /\ f \in findings /\ f.severity = "ERROR"
        /\ ~(Len(f.field) > 1 /\ f.field[1] \in restructured)
        /\ f.field = <<>> \/ ~IsTouched(f.field, DiffDraft(stored, draft))
    BY DEF Untouched, DropStaleCollectionFindings, BlockingFindings, Errors
  <2>2. f \in ValidateExtractedInvoice(stored)
    BY <2>1 DEF OriginsInv, ReadsOtherFields
  <2>3. stored # Null /\ IsStored(stored) /\ draft \in InvoiceType
    BY DEF TypeInv, RulesTypeOK
  <2>4. f.field # <<>> BY <2>2, <2>3, FindingsAreOfValidation DEF OfRule
  <2>5. Kept(stored, draft, restructured, f.field)
    BY <2>1, <2>3, <2>4 DEF Kept, RowsInv
  <2> QED BY <2>1, <2>2, <2>5, FindingRemains
<1> QED BY <1>1, TypeInvariant, OriginsInvariant, RowsInvariant, PTL

-------------------------------------------------------------------------------
(* Induction, on the subsets of a finite set and on the natural numbers: a *)
(* set that holds whatever follows from smaller members holds them all.    *)
(* The library states both for an operator; a set can be instantiated.     *)
LEMMA InductionOnSubsets ==
    ASSUME NEW S, IsFiniteSet(S), NEW T,
           \A s \in SUBSET S :
              (\A r \in SUBSET s : r # s => r \in T) => s \in T
    PROVE  SUBSET S \subseteq T
<1> SUFFICES ASSUME (SUBSET S) \ T # {} PROVE FALSE
  OBVIOUS
<1>1. IsWellFoundedOn(StrictSubsetOrdering(S), SUBSET S)
  <2>1. IsWellFoundedOn(StrictSubsetOrdering(S), FiniteSubsetsOf(S))
    BY FS_StrictSubsetOrderingWellFounded
  <2>2. FiniteSubsetsOf(S) = SUBSET S
    BY FS_FiniteSubsetsOfFinite
  <2> QED
    BY <2>1, <2>2
<1> DEFINE U == (SUBSET S) \ T
<1>2. U \subseteq SUBSET S /\ U # {}
  OBVIOUS
<1> HIDE DEF U
<1>3. PICK s \in U : \A r \in U : <<r, s>> \notin StrictSubsetOrdering(S)
  BY <1>1, <1>2, WFMin
<1>4. \A r \in SUBSET s : r # s => r \in T
  BY <1>3 DEF U, StrictSubsetOrdering
<1> QED
  BY <1>3, <1>4 DEF U

(* Induction over the naturals, by the order of the subsets of 0 .. n.     *)
LEMMA InductionOnNat ==
    ASSUME NEW T, 0 \in T, \A n \in Nat : n \in T => n + 1 \in T
    PROVE  Nat \subseteq T
<1> SUFFICES ASSUME NEW n \in Nat PROVE n \in T
  OBVIOUS
<1> DEFINE U == {s \in SUBSET (0 .. n) : \A m \in 0 .. n : s = 0 .. m => m \in T}
<1>1. IsFiniteSet(0 .. n)
  BY FS_Interval
<1>2. ASSUME NEW s \in SUBSET (0 .. n), \A r \in SUBSET s : r # s => r \in U
      PROVE  s \in U
  <2> SUFFICES ASSUME NEW m \in 0 .. n, s = 0 .. m PROVE m \in T
    OBVIOUS
  <2>1. CASE m = 0
    BY <2>1
  <2>2. CASE m # 0
    <3>1. /\ 0 .. (m - 1) \in SUBSET s /\ 0 .. (m - 1) # s
          /\ m - 1 \in 0 .. n /\ m - 1 \in Nat /\ (m - 1) + 1 = m
      BY <2>2
    <3>2. m - 1 \in T
      BY <3>1, <1>2
    <3> QED
      BY <3>1, <3>2
  <2> QED
    BY <2>1, <2>2
<1> HIDE DEF U
<1>3. SUBSET (0 .. n) \subseteq U
  <2> DEFINE S == 0 .. n
  <2>1. /\ IsFiniteSet(S)
        /\ \A s \in SUBSET S : (\A r \in SUBSET s : r # s => r \in U) => s \in U
    BY <1>1, <1>2
  <2> HIDE DEF S
  <2>2. SUBSET S \subseteq U
    BY <2>1, InductionOnSubsets
  <2> QED
    BY <2>2 DEF S
<1>4. 0 .. n \in U /\ n \in 0 .. n
  BY <1>3
<1> QED
  BY <1>4 DEF U

-------------------------------------------------------------------------------
(* The powers of ten (money/decimal.ts:24-26).                             *)

(* The function is the powers of ten up to n.                              *)
PowersUpTo(p, n) == p = [e \in 0 .. n |-> IF e = 0 THEN 1 ELSE 10 * p[e - 1]]

(* There is one such function, and more of them continue it.               *)
LEMMA PowersAgree ==
    ASSUME NEW m \in Nat, NEW n \in Nat, NEW p, NEW q, PowersUpTo(p, m), PowersUpTo(q, n)
    PROVE  \A e \in Nat : e <= m /\ e <= n => p[e] = q[e]
<1> DEFINE T == {e \in Nat : e <= m /\ e <= n => p[e] = q[e]}
<1>1. 0 \in T
  BY DEF PowersUpTo
<1>2. ASSUME NEW e \in Nat, e \in T PROVE e + 1 \in T
  <2> SUFFICES ASSUME e + 1 <= m, e + 1 <= n PROVE p[e + 1] = q[e + 1]
    OBVIOUS
  <2>1. e + 1 \in 0 .. m /\ e + 1 \in 0 .. n /\ e + 1 # 0 /\ (e + 1) - 1 = e
    OBVIOUS
  <2>2. p[e + 1] = 10 * p[e] /\ q[e + 1] = 10 * q[e]
    BY <2>1 DEF PowersUpTo
  <2> QED
    BY <1>2, <2>2
<1> HIDE DEF T
<1>3. Nat \subseteq T
  BY <1>1, <1>2, InductionOnNat
<1> QED
  BY <1>3 DEF T

(* The powers of ten up to any exponent exist as a function.               *)
LEMMA PowersExist ==
    ASSUME NEW n \in Nat
    PROVE  \E p : PowersUpTo(p, n)
<1> DEFINE T == {m \in Nat : \E p : PowersUpTo(p, m)}
<1>1. 0 \in T
  <2>1. PowersUpTo([e \in 0 .. 0 |-> 1], 0)
    BY DEF PowersUpTo
  <2> QED
    BY <2>1
<1>2. ASSUME NEW m \in Nat, m \in T PROVE m + 1 \in T
  <2>1. PICK p : PowersUpTo(p, m)
    BY <1>2
  <2> DEFINE q == [e \in 0 .. m + 1 |-> IF e = m + 1 THEN 10 * p[m] ELSE p[e]]
  <2>2. ASSUME NEW e \in 0 .. m + 1
        PROVE  q[e] = IF e = 0 THEN 1 ELSE 10 * q[e - 1]
    <3>1. CASE e = m + 1
      BY <3>1
    <3>2. CASE e # m + 1
      <4>1. e \in 0 .. m /\ (e # 0 => e - 1 \in 0 .. m + 1 /\ e - 1 # m + 1)
        BY <3>2
      <4> QED
        BY <2>1, <3>2, <4>1 DEF PowersUpTo
    <3> QED
      BY <3>1, <3>2
  <2>3. PowersUpTo(q, m + 1)
    BY <2>2 DEF PowersUpTo
  <2> QED
    BY <2>3
<1> HIDE DEF T
<1>3. Nat \subseteq T
  BY <1>1, <1>2, InductionOnNat
<1> QED
  BY <1>3 DEF T

(* What the definition says of the powers of ten.                          *)
LEMMA PowersDefined ==
    PowerOfTen = [e \in Nat |-> IF e = 0 THEN 1 ELSE 10 * PowerOfTen[e - 1]]
<1> DEFINE upTo == [n \in Nat |-> CHOOSE p : PowersUpTo(p, n)]
           p == [n \in Nat |-> upTo[n][n]]
<1>1. \A n \in Nat : PowersUpTo(upTo[n], n)
  BY PowersExist
<1> HIDE DEF upTo
<1>2. ASSUME NEW e \in Nat
      PROVE  p[e] = IF e = 0 THEN 1 ELSE 10 * p[e - 1]
  <2>1. upTo[e][e] = IF e = 0 THEN 1 ELSE 10 * upTo[e][e - 1]
    <3>1. upTo[e] = [i \in 0 .. e |-> IF i = 0 THEN 1 ELSE 10 * upTo[e][i - 1]]
      BY <1>1 DEF PowersUpTo
    <3>2. e \in 0 .. e
      OBVIOUS
    <3> QED
      BY <3>1, <3>2
  <2>2. CASE e = 0
    BY <2>1, <2>2
  <2>3. CASE e # 0
    <3>1. e - 1 \in Nat
      BY <2>3
    <3>2. PowersUpTo(upTo[e], e) /\ PowersUpTo(upTo[e - 1], e - 1)
      BY <3>1, <1>1
    <3>3. upTo[e][e - 1] = upTo[e - 1][e - 1]
      BY <3>1, <3>2, PowersAgree
    <3> QED
      BY <2>1, <2>3, <3>1, <3>3
  <2> QED
    BY <2>2, <2>3
<1>3. p = [e \in Nat |-> IF e = 0 THEN 1 ELSE 10 * p[e - 1]]
  BY <1>2
<1> QED
  BY <1>3 DEF PowerOfTen

(* PowerOfTen satisfies the equation it is defined by.                     *)
LEMMA PowersAreDefined ==
    /\ PowerOfTen[0] = 1
    /\ \A n \in Nat : PowerOfTen[n + 1] = 10 * PowerOfTen[n]
<1>1. \A e \in Nat : PowerOfTen[e] = IF e = 0 THEN 1 ELSE 10 * PowerOfTen[e - 1]
  BY PowersDefined
<1>2. \A n \in Nat : n + 1 \in Nat /\ n + 1 # 0 /\ (n + 1) - 1 = n
  OBVIOUS
<1> QED
  BY <1>1, <1>2

(* Every power of ten is a positive natural.                               *)
LEMMA PowersArePositive ==
    \A n \in Nat : PowerOfTen[n] \in Nat /\ PowerOfTen[n] > 0
<1> DEFINE T == {n \in Nat : PowerOfTen[n] \in Nat /\ PowerOfTen[n] > 0}
<1>1. 0 \in T
  BY PowersAreDefined
<1>2. ASSUME NEW n \in Nat, n \in T PROVE n + 1 \in T
  BY <1>2, PowersAreDefined
<1> HIDE DEF T
<1>3. Nat \subseteq T
  BY <1>1, <1>2, InductionOnNat
<1> QED
  BY <1>3 DEF T

(* Exponents add where powers of ten multiply.                             *)
LEMMA PowersMultiply ==
    \A m, n \in Nat : PowerOfTen[m + n] = PowerOfTen[m] * PowerOfTen[n]
<1> SUFFICES ASSUME NEW m \in Nat
             PROVE  \A n \in Nat : PowerOfTen[m + n] = PowerOfTen[m] * PowerOfTen[n]
  OBVIOUS
<1> DEFINE T == {n \in Nat : PowerOfTen[m + n] = PowerOfTen[m] * PowerOfTen[n]}
<1>1. 0 \in T
  BY PowersAreDefined, PowersArePositive
<1>2. ASSUME NEW n \in Nat, n \in T PROVE n + 1 \in T
  <2>1. m + (n + 1) = (m + n) + 1 /\ m + n \in Nat
    OBVIOUS
  <2>2. PowerOfTen[m + (n + 1)] = 10 * PowerOfTen[m + n]
    BY <2>1, PowersAreDefined
  <2>3. PowerOfTen[n + 1] = 10 * PowerOfTen[n] /\ PowerOfTen[m + n] = PowerOfTen[m] * PowerOfTen[n]
    BY <1>2, PowersAreDefined
  <2>4. PowerOfTen[m] \in Int /\ PowerOfTen[n] \in Int
    BY PowersArePositive
  <2>5. \A a, b \in Int : 10 * (a * b) = a * (10 * b)
    OBVIOUS
  <2> QED
    BY <2>2, <2>3, <2>4, <2>5
<1> HIDE DEF T
<1>3. Nat \subseteq T
  BY <1>1, <1>2, InductionOnNat
<1> QED
  BY <1>3 DEF T

-------------------------------------------------------------------------------
(* The canonical key of a number (money/decimal.ts:98-110).                *)

(* A set of naturals that is not empty has a least element.                *)
LEMMA LeastNatural ==
    ASSUME NEW T, T \subseteq Nat, T # {}
    PROVE  \E x \in T : \A y \in T : x <= y
<1> SUFFICES ASSUME \A x \in T : \E y \in T : y < x PROVE FALSE
  OBVIOUS
<1> DEFINE U == {n \in Nat : \A m \in 0 .. n : m \notin T}
<1>1. 0 \in U
  OBVIOUS
<1>2. ASSUME NEW n \in Nat, n \in U PROVE n + 1 \in U
  <2>1. \A m \in 0 .. n + 1 : m \in 0 .. n \/ m = n + 1
    OBVIOUS
  <2>2. n + 1 \notin T
    BY <1>2
  <2> QED
    BY <1>2, <2>1, <2>2
<1>3. \A n \in U : n \notin T
  OBVIOUS
<1> HIDE DEF U
<1>4. Nat \subseteq U
  BY <1>1, <1>2, InductionOnNat
<1> QED
  BY <1>3, <1>4

(* A remainder of zero is an exact division.                               *)
LEMMA ExactDivision ==
    ASSUME NEW n \in Int, NEW d \in Nat, d > 0
    PROVE  /\ n \div d \in Int
           /\ n % d = 0 => n = d * (n \div d)
           /\ \A q \in Int : n = d * q => n % d = 0 /\ n \div d = q
OBVIOUS

(* The most zeros that a coefficient loses at the end, of as many places.  *)
LosesZeros(coefficient, scale, zeros) ==
    /\ zeros \in 0 .. scale
    /\ coefficient % PowerOfTen[zeros] = 0
    /\ \A more \in (zeros + 1) .. scale : coefficient % PowerOfTen[more] # 0

(* Every written number has a count of trailing zeros that it loses.       *)
LEMMA ZerosExist ==
    ASSUME NEW coefficient \in Int, NEW scale \in Nat
    PROVE  \E zeros : LosesZeros(coefficient, scale, zeros)
<1> DEFINE T == {k \in 0 .. scale : coefficient % PowerOfTen[scale - k] = 0}
<1>1. scale \in T
  <2>1. coefficient % 1 = 0
    OBVIOUS
  <2>2. scale - scale = 0
    OBVIOUS
  <2> QED
    BY <2>1, <2>2, PowersAreDefined
<1>2. PICK k \in T : \A l \in T : k <= l
  <2>1. T \subseteq Nat
    OBVIOUS
  <2> HIDE DEF T
  <2> QED
    BY <1>1, <2>1, LeastNatural
<1>3. ASSUME NEW more \in (scale - k + 1) .. scale
      PROVE  coefficient % PowerOfTen[more] # 0
  <2>1. scale - more \in 0 .. scale /\ scale - (scale - more) = more /\ ~(k <= scale - more)
    OBVIOUS
  <2> QED
    BY <1>2, <2>1
<1>4. LosesZeros(coefficient, scale, scale - k)
  BY <1>2, <1>3 DEF LosesZeros
<1> QED
  BY <1>4

(* That count is the only one.                                             *)
LEMMA ZerosAreUnique ==
    ASSUME NEW coefficient, NEW scale \in Nat, NEW y, NEW z,
           LosesZeros(coefficient, scale, y), LosesZeros(coefficient, scale, z)
    PROVE  y = z
BY DEF LosesZeros

(* The key of a number other than zero is what losing its zeros leaves.    *)
LEMMA KeyLosesZeros ==
    ASSUME NEW v \in Decimal, v.coefficient # 0, NEW zeros,
           LosesZeros(v.coefficient, v.scale, zeros)
    PROVE  CanonicalDecimalKey(v)
             = <<v.coefficient \div PowerOfTen[zeros], v.scale - zeros>>
<1> DEFINE chosen == CHOOSE z \in 0 .. v.scale :
                       /\ v.coefficient % PowerOfTen[z] = 0
                       /\ \A more \in (z + 1) .. v.scale :
                            v.coefficient % PowerOfTen[more] # 0
<1>1. LosesZeros(v.coefficient, v.scale, chosen)
  BY DEF LosesZeros
<1>2. v.scale \in Nat
  BY DEF Decimal
<1>3. CanonicalDecimalKey(v) = <<v.coefficient \div PowerOfTen[chosen], v.scale - chosen>>
  BY DEF CanonicalDecimalKey
<1> HIDE DEF chosen
<1>4. chosen = zeros
  BY <1>1, <1>2, ZerosAreUnique
<1> QED
  BY <1>3, <1>4

(* With more places written, there are as many zeros more.                 *)
LEMMA MoreZeros ==
    ASSUME NEW c \in Int, NEW s \in Nat, NEW k \in Nat, NEW zeros, LosesZeros(c, s, zeros)
    PROVE  /\ LosesZeros(c * PowerOfTen[k], s + k, zeros + k)
           /\ (c * PowerOfTen[k]) \div PowerOfTen[zeros + k] = c \div PowerOfTen[zeros]
<1> DEFINE P(n) == PowerOfTen[n]
<1>1. \A n \in Nat : P(n) \in Nat /\ P(n) > 0
  BY PowersArePositive
<1>2. \A m, n \in Nat : P(m + n) = P(m) * P(n)
  BY PowersMultiply
<1>3. zeros \in 0 .. s /\ c % P(zeros) = 0
  BY DEF LosesZeros
<1>4. \A more \in (zeros + 1) .. s : c % P(more) # 0
  BY DEF LosesZeros
<1> HIDE DEF P
<1>5. \A a, b, d \in Int : (a * b) * d = (a * d) * b
  OBVIOUS
<1>6. PICK q \in Int : c = P(zeros) * q /\ q = c \div P(zeros)
  <2>1. P(zeros) \in Nat /\ P(zeros) > 0
    BY <1>1, <1>3
  <2>2. c \div P(zeros) \in Int /\ c = P(zeros) * (c \div P(zeros))
    BY <1>3, <2>1, ExactDivision
  <2> QED
    BY <2>2
<1>7. c * P(k) = P(zeros + k) * q
  BY <1>1, <1>2, <1>3, <1>5, <1>6
<1>8. (c * P(k)) % P(zeros + k) = 0 /\ (c * P(k)) \div P(zeros + k) = q
  <2>1. c * P(k) \in Int /\ zeros + k \in Nat
    BY <1>1, <1>3
  <2> QED
    BY <1>1, <1>7, <2>1, ExactDivision
<1>9. ASSUME NEW more \in (zeros + k + 1) .. s + k
      PROVE  (c * P(k)) % P(more) # 0
  <2>1. more - k \in (zeros + 1) .. s /\ more - k \in Nat /\ (more - k) + k = more /\ more \in Nat
    BY <1>3
  <2>2. SUFFICES ASSUME (c * P(k)) % P(more) = 0 PROVE FALSE
    OBVIOUS
  <2>3. c * P(k) \in Int
    BY <1>1
  <2>4. PICK r \in Int : c * P(k) = P(more) * r
    BY <1>1, <2>1, <2>2, <2>3, ExactDivision
  <2>5. c * P(k) = (P(more - k) * r) * P(k)
    BY <1>1, <1>2, <1>5, <2>1, <2>4
  <2>6. P(more - k) * r \in Int
    BY <1>1, <2>1
  <2>7. \A a, b \in Int, d \in Nat : d > 0 /\ a * d = b * d => a = b
    OBVIOUS
  <2>8. c = P(more - k) * r
    BY <1>1, <2>5, <2>6, <2>7
  <2>9. P(more - k) \in Nat /\ P(more - k) > 0
    BY <1>1, <2>1
  <2>10. c % P(more - k) = 0
    BY <2>4, <2>8, <2>9, ExactDivision
  <2> QED
    BY <1>4, <2>1, <2>10
<1> QED
  BY <1>3, <1>6, <1>8, <1>9 DEF LosesZeros, P

(* A number written with more places is the same, and has the same key.    *)
LEMMA LongerFormHasKey ==
    ASSUME NEW v \in Decimal, NEW w \in Decimal, v.scale <= w.scale, SameNumber(v, w)
    PROVE  CanonicalDecimalKey(v) = CanonicalDecimalKey(w)
<1> DEFINE k == w.scale - v.scale
<1>1. /\ v.coefficient \in Int /\ w.coefficient \in Int
      /\ v.scale \in Nat /\ w.scale \in Nat /\ k \in Nat /\ w.scale = v.scale + k
  BY DEF Decimal
<1> HIDE DEF k
<1>2. w.coefficient = v.coefficient * PowerOfTen[k]
  <2>1. PowerOfTen[w.scale] = PowerOfTen[v.scale] * PowerOfTen[k]
    BY <1>1, PowersMultiply
  <2>2. /\ PowerOfTen[v.scale] \in Int /\ PowerOfTen[v.scale] > 0
        /\ PowerOfTen[k] \in Int
    BY <1>1, PowersArePositive
  <2>3. \A a, b, d, e \in Int : d > 0 /\ a * (d * e) = b * d => b = a * e
    OBVIOUS
  <2>4. v.coefficient * (PowerOfTen[v.scale] * PowerOfTen[k]) = w.coefficient * PowerOfTen[v.scale]
    BY <2>1 DEF SameNumber
  <2>5. SUFFICES ASSUME NEW a, a = v.coefficient, NEW b, b = w.coefficient,
                        NEW d, d = PowerOfTen[v.scale], NEW e, e = PowerOfTen[k]
                 PROVE  b = a * e
    OBVIOUS
  <2>6. a \in Int /\ b \in Int /\ d \in Int /\ e \in Int /\ d > 0
    BY <1>1, <2>2, <2>5
  <2>7. a * (d * e) = b * d
    BY <2>4, <2>5
  <2> QED
    BY <2>3, <2>6, <2>7
<1>3. CASE v.coefficient = 0
  <2>1. w.coefficient = 0
    BY <1>1, <1>2, <1>3, PowersArePositive
  <2> QED
    BY <1>3, <2>1 DEF CanonicalDecimalKey
<1>4. CASE v.coefficient # 0
  <2>1. w.coefficient # 0
    BY <1>1, <1>2, <1>4, PowersArePositive
  <2>2. PICK zeros : LosesZeros(v.coefficient, v.scale, zeros)
    BY <1>1, ZerosExist
  <2>3. /\ LosesZeros(w.coefficient, w.scale, zeros + k)
        /\ w.coefficient \div PowerOfTen[zeros + k] = v.coefficient \div PowerOfTen[zeros]
    BY <1>1, <1>2, <2>2, MoreZeros
  <2>4. w.scale - (zeros + k) = v.scale - zeros
    BY <1>1, <2>2 DEF LosesZeros
  <2> QED
    BY <1>4, <2>1, <2>2, <2>3, <2>4, KeyLosesZeros
<1> QED
  BY <1>3, <1>4

(* A number other than zero is what its key says.                          *)
LEMMA KeyTells ==
    ASSUME NEW v \in Decimal, v.coefficient # 0
    PROVE  \E q \in Int, places \in Nat, zeros \in Nat :
             /\ q # 0
             /\ CanonicalDecimalKey(v) = <<q, places>>
             /\ v.coefficient = q * PowerOfTen[zeros]
             /\ v.scale = places + zeros
<1>1. v.coefficient \in Int /\ v.scale \in Nat
  BY DEF Decimal
<1>2. PICK zeros : LosesZeros(v.coefficient, v.scale, zeros)
  BY <1>1, ZerosExist
<1>3. /\ zeros \in Nat /\ v.scale - zeros \in Nat
      /\ v.scale = (v.scale - zeros) + zeros
      /\ v.coefficient % PowerOfTen[zeros] = 0
  BY <1>1, <1>2 DEF LosesZeros
<1> DEFINE q == v.coefficient \div PowerOfTen[zeros]
<1>4. /\ q \in Int
      /\ v.coefficient = PowerOfTen[zeros] * q
  BY <1>1, <1>3, PowersArePositive, ExactDivision
<1>5. CanonicalDecimalKey(v) = <<q, v.scale - zeros>>
  BY <1>2, KeyLosesZeros
<1> HIDE DEF q
<1>6. PowerOfTen[zeros] \in Nat
  BY <1>3, PowersArePositive
<1>7. q # 0 /\ v.coefficient = q * PowerOfTen[zeros]
  BY <1>4, <1>6
<1> QED
  BY <1>3, <1>4, <1>5, <1>7

(* Two numerals have one key exactly when they are the same number.        *)
THEOREM NumeralsHaveOneKey ==
    ASSUME NEW v \in Decimal, NEW w \in Decimal
    PROVE  CanonicalDecimalKey(v) = CanonicalDecimalKey(w) <=> SameNumber(v, w)
<1>1. /\ v.coefficient \in Int /\ w.coefficient \in Int
      /\ v.scale \in Nat /\ w.scale \in Nat
  BY DEF Decimal
<1>2. SameNumber(v, w) => CanonicalDecimalKey(v) = CanonicalDecimalKey(w)
  <2>1. SameNumber(v, w) <=> SameNumber(w, v)
    BY DEF SameNumber
  <2>2. v.scale <= w.scale \/ w.scale <= v.scale
    BY <1>1
  <2> QED
    BY <2>1, <2>2, LongerFormHasKey
<1>3. ASSUME CanonicalDecimalKey(v) = CanonicalDecimalKey(w) PROVE SameNumber(v, w)
  <2>1. v.coefficient = 0 <=> w.coefficient = 0
    <3>1. \A u \in Decimal : u.coefficient = 0 => CanonicalDecimalKey(u)[1] = 0
      BY DEF CanonicalDecimalKey
    <3>2. \A u \in Decimal : u.coefficient # 0 => CanonicalDecimalKey(u)[1] # 0
      BY KeyTells
    <3> QED
      BY <1>3, <3>1, <3>2
  <2>2. CASE v.coefficient = 0
    BY <1>1, <2>1, <2>2, PowersArePositive DEF SameNumber
  <2>3. CASE v.coefficient # 0
    <3>1. PICK q \in Int, places \in Nat, y \in Nat :
             /\ CanonicalDecimalKey(v) = <<q, places>>
             /\ v.coefficient = q * PowerOfTen[y]
             /\ v.scale = places + y
      BY <2>3, KeyTells
    <3>2. PICK z \in Nat :
             /\ w.coefficient = q * PowerOfTen[z]
             /\ w.scale = places + z
      <4>1. PICK r \in Int, p \in Nat, z \in Nat :
               /\ CanonicalDecimalKey(w) = <<r, p>>
               /\ w.coefficient = r * PowerOfTen[z]
               /\ w.scale = p + z
        BY <2>1, <2>3, KeyTells
      <4>2. <<r, p>> = <<q, places>>
        BY <1>3, <3>1, <4>1
      <4>3. r = q /\ p = places
        BY <4>2
      <4> QED
        BY <4>1, <4>3
    <3>3. /\ PowerOfTen[w.scale] = PowerOfTen[places] * PowerOfTen[z]
          /\ PowerOfTen[v.scale] = PowerOfTen[places] * PowerOfTen[y]
      BY <3>1, <3>2, PowersMultiply
    <3>4. /\ PowerOfTen[places] \in Int /\ PowerOfTen[y] \in Int /\ PowerOfTen[z] \in Int
      BY PowersArePositive
    <3>5. \A a, b, c, d \in Int : (a * b) * (c * d) = (a * d) * (c * b)
      OBVIOUS
    <3> QED
      BY <3>1, <3>2, <3>3, <3>4, <3>5 DEF SameNumber
  <2> QED
    BY <2>2, <2>3
<1> QED
  BY <1>2, <1>3

-------------------------------------------------------------------------------
(* A line takes the category of its rate (xrechnung-mapper.ts:204-248).    *)

(* What is stored has numbers, or nothing.                                 *)
LEMMA StoredNumbers ==
    ASSUME NEW data, IsStored(data)
    PROVE  /\ \A f \in {"netTotal", "vatTotal", "grossTotal"} :
                 data[f] \in Decimal \cup {Null}
           /\ data.lineItems \in Seq(LineItemType)
           /\ data.vatBreakdown \in Seq(VatBreakdownType)
           /\ \A i \in DOMAIN data.lineItems :
                 \A f \in {"quantity", "unitPrice", "netAmount", "vatRate"} :
                    data.lineItems[i][f] \in Decimal \cup {Null}
           /\ \A i \in DOMAIN data.vatBreakdown :
                 \A f \in {"rate", "base", "amount"} :
                    data.vatBreakdown[i][f] \in Decimal \cup {Null}
<1>1. data \in InvoiceType /\ \A path \in Paths(data) : At(data, path) # Malformed
  BY DEF IsStored, SchemaAccepts
<1>2. data.lineItems \in Seq(LineItemType) /\ data.vatBreakdown \in Seq(VatBreakdownType)
  BY <1>1 DEF InvoiceType
<1>3. ASSUME NEW f \in {"netTotal", "vatTotal", "grossTotal"}
      PROVE  data[f] \in Decimal \cup {Null}
  <2>1. data[f] \in Decimals
    BY <1>1 DEF InvoiceType
  <2>2. <<f>> \in Paths(data) /\ At(data, <<f>>) = data[f]
    BY DEF Paths, TopLevelFields, At
  <2> QED
    BY <1>1, <2>1, <2>2 DEF Decimals
<1>4. ASSUME NEW i \in DOMAIN data.lineItems,
             NEW f \in {"quantity", "unitPrice", "netAmount", "vatRate"}
      PROVE  data.lineItems[i][f] \in Decimal \cup {Null}
  <2>1. data.lineItems[i] \in LineItemType
    BY <1>2
  <2>2. data.lineItems[i][f] \in Decimals
    BY <2>1 DEF LineItemType
  <2>3. <<"lineItems", i, f>> \in Paths(data)
    BY DEF Paths, LineItemFields
  <2>4. At(data, <<"lineItems", i, f>>) = data.lineItems[i][f]
    BY DEF At
  <2> QED
    BY <1>1, <2>2, <2>3, <2>4 DEF Decimals
<1>5. ASSUME NEW i \in DOMAIN data.vatBreakdown, NEW f \in {"rate", "base", "amount"}
      PROVE  data.vatBreakdown[i][f] \in Decimal \cup {Null}
  <2>1. data.vatBreakdown[i] \in VatBreakdownType
    BY <1>2
  <2>2. data.vatBreakdown[i][f] \in Decimals
    BY <2>1 DEF VatBreakdownType
  <2>3. <<"vatBreakdown", i, f>> \in Paths(data)
    BY DEF Paths, VatBreakdownFields
  <2>4. At(data, <<"vatBreakdown", i, f>>) = data.vatBreakdown[i][f]
    BY DEF At
  <2> QED
    BY <1>1, <2>2, <2>3, <2>4 DEF Decimals
<1> QED
  BY <1>2, <1>3, <1>4, <1>5

(* The categories of a rate are those of its number.                       *)
LEMMA CategoriesOfNumber ==
    ASSUME NEW data, IsStored(data), NEW rate \in Decimal, rate # Null
    PROVE  RateCategories(data, rate)
             = {entry.category : entry \in {e \in Range(data.vatBreakdown) :
                                              e.rate # Null /\ SameNumber(rate, e.rate)}}
<1>1. ASSUME NEW i \in DOMAIN data.vatBreakdown, data.vatBreakdown[i].rate # Null
      PROVE  CanonicalDecimalKey(data.vatBreakdown[i].rate) = CanonicalDecimalKey(rate)
               <=> SameNumber(rate, data.vatBreakdown[i].rate)
  <2>1. data.vatBreakdown[i].rate \in Decimal
    BY <1>1, StoredNumbers
  <2> QED
    BY <2>1, NumeralsHaveOneKey
<1> QED
  BY <1>1 DEF RateCategories, Range

(* The same number has the same sign.                                      *)
LEMMA SameSign ==
    ASSUME NEW v \in Decimal, NEW w \in Decimal, SameNumber(v, w)
    PROVE  /\ v.coefficient > 0 <=> w.coefficient > 0
           /\ v.coefficient = 0 <=> w.coefficient = 0
<1>1. /\ v.coefficient \in Int /\ w.coefficient \in Int
      /\ v.scale \in Nat /\ w.scale \in Nat
  BY DEF Decimal
<1>2. /\ PowerOfTen[v.scale] \in Int /\ PowerOfTen[v.scale] > 0
      /\ PowerOfTen[w.scale] \in Int /\ PowerOfTen[w.scale] > 0
  BY <1>1, PowersArePositive
<1>3. \A a, b, c, d \in Int :
        b > 0 /\ d > 0 /\ a * b = c * d => (a > 0 <=> c > 0) /\ (a = 0 <=> c = 0)
  OBVIOUS
<1> QED
  BY <1>1, <1>2, <1>3 DEF SameNumber

(* A mapped document has one category for a rate, the one of its breakdown. *)
LEMMA MappedCategories ==
    ASSUME NEW data, IsStored(data), MappingFindings(data) = {},
           NEW i \in DOMAIN data.lineItems, NEW j \in DOMAIN data.vatBreakdown,
           SameNumber(data.lineItems[i].vatRate, data.vatBreakdown[j].rate)
    PROVE  VatCategory(LineCategory(data, data.lineItems[i].vatRate))
             = VatCategory(data.vatBreakdown[j].category)
<1> DEFINE rate == data.lineItems[i].vatRate
           entry == data.vatBreakdown[j]
<1>1. ResolveLineItem(data, i) = {} /\ ResolveVatSubtotal(data, j) = {}
  BY DEF MappingFindings
<1>2. ResolvesLineItemVatCategory(data, rate)
  BY <1>1 DEF ResolveLineItem, Unless
<1>3. ResolvesVatCategory(entry.rate, entry.category)
  BY <1>1 DEF ResolveVatSubtotal, Unless
<1>4. rate \in Decimal /\ rate # Null /\ entry.rate \in Decimal /\ entry.rate # Null
  BY <1>2, <1>3, StoredNumbers DEF ResolvesLineItemVatCategory, ResolvesVatCategory
<1>5. entry.category \in RateCategories(data, rate)
  <2>1. CanonicalDecimalKey(entry.rate) = CanonicalDecimalKey(rate)
    BY <1>4, NumeralsHaveOneKey
  <2> QED
    BY <1>4, <2>1 DEF RateCategories
<1>6. LineCategory(data, rate) \in RateCategories(data, rate)
  BY <1>5 DEF LineCategory
<1> QED
  BY <1>2, <1>5, <1>6 DEF ResolvesLineItemVatCategory

(* A line is refused for its category only when that does not resolve.     *)
LEMMA CategoryRefused ==
    ASSUME NEW data, Passes(data), NEW i \in DOMAIN data.lineItems,
           Error("mapping.line_vat_category", <<"lineItems", i, "vatRate">>)
             \in MappingFindings(data)
    PROVE  ~ResolvesLineItemVatCategory(data, data.lineItems[i].vatRate)
<1> DEFINE f == Error("mapping.line_vat_category", <<"lineItems", i, "vatRate">>)
<1>1. f.rule = "mapping.line_vat_category" /\ f.field = <<"lineItems", i, "vatRate">>
  BY DEF Error
<1>2. f \in MappingFindings(data)
  OBVIOUS
<1> HIDE DEF f
<1>3. f \notin ResolveHeader(data)
  BY HeaderResolves
<1>4. f \notin ResolveSellerParty(data.seller) \cup ResolveParty("buyer", data.buyer)
  <2>1. "seller" \in Parties /\ "buyer" \in Parties
    BY DEF Parties
  <2>2. f \notin ResolveParty("seller", data.seller) \cup ResolveParty("buyer", data.buyer)
    BY <1>1, <2>1, PartyResolves
  <2>3. f # Error("mapping.seller_tax_id", <<"seller", "vatId">>)
    BY <1>1 DEF Error
  <2> QED
    BY <2>2, <2>3 DEF ResolveSellerParty, Unless
<1>5. f \notin UNION {ResolveVatSubtotal(data, j) : j \in DOMAIN data.vatBreakdown}
  BY BreakdownResolves
<1>6. /\ Unless(data.lineItems # <<>>, Error("mapping.line_item", <<"lineItems">>)) = {}
      /\ Unless(data.vatBreakdown # <<>>,
                Error("mapping.vat_breakdown", <<"vatBreakdown">>)) = {}
  BY HeaderIsComplete DEF Unless
<1>7. PICK j \in DOMAIN data.lineItems : f \in ResolveLineItem(data, j)
  BY <1>2, <1>3, <1>4, <1>5, <1>6 DEF MappingFindings
<1>8. /\ f = Error("mapping.line_vat_category", <<"lineItems", j, "vatRate">>)
      /\ ~ResolvesLineItemVatCategory(data, data.lineItems[j].vatRate)
  <2>1. \A g \in RequireText(data.lineItems[j].description, "mapping.line_item",
                             <<"lineItems", j, "description">>)
                 \cup RequireValue(data.lineItems[j].quantity, "mapping.line_item",
                                   <<"lineItems", j, "quantity">>)
                 \cup RequireAmount(data.lineItems[j].netAmount, "mapping.line_item",
                                    <<"lineItems", j, "netAmount">>)
                 \cup Unless(UnitIsKnown(data.lineItems[j].unit),
                             Error("mapping.line_unit", <<"lineItems", j, "unit">>))
                 \cup RequireValue(data.lineItems[j].unitPrice, "mapping.line_item",
                                   <<"lineItems", j, "unitPrice">>) :
          g.rule # "mapping.line_vat_category"
    BY DEF RequireText, RequireValue, RequireAmount, Unless, Error
  <2>2. f \in Unless(ResolvesLineItemVatCategory(data, data.lineItems[j].vatRate),
                     Error("mapping.line_vat_category", <<"lineItems", j, "vatRate">>))
    BY <1>1, <1>7, <2>1 DEF ResolveLineItem
  <2> QED
    BY <2>2 DEF Unless
<1>9. j = i
  <2>1. <<"lineItems", j, "vatRate">> = <<"lineItems", i, "vatRate">>
    BY <1>1, <1>8 DEF Error
  <2> QED
    BY <2>1
<1> QED
  BY <1>8, <1>9

(* The category of a rate that has one resolves, if the validation let it  *)
(* pass.                                                                   *)
LEMMA OneCategoryResolves ==
    ASSUME NEW data, IsStored(data), Passes(data),
           NEW rate \in Decimal, rate # Null,
           Cardinality(RateCategories(data, rate)) = 1
    PROVE  ResolvesLineItemVatCategory(data, rate)
<1>1. PICK c : RateCategories(data, rate) = {c}
  <2>1. \A S : Cardinality(S) = 1 /\ IsFiniteSet(S) => \E c : S = {c}
    BY FS_Singleton
  <2>2. IsFiniteSet(RateCategories(data, rate))
    <3>1. RateCategories(data, rate) \subseteq VatCategories \cup {Null}
      <4>1. \A i \in DOMAIN data.vatBreakdown : data.vatBreakdown[i] \in VatBreakdownType
        BY StoredNumbers
      <4> QED
        BY <4>1 DEF RateCategories, VatBreakdownType
    <3>2. IsFiniteSet(VatCategories \cup {Null})
      <4>1. VatCategories \cup {Null}
              = {"S"} \cup {"AE"} \cup {"K"} \cup {"G"} \cup {"E"} \cup {"Z"} \cup {Null}
        BY DEF VatCategories
      <4>2. \A x : IsFiniteSet({x})
        BY FS_Singleton
      <4> QED
        BY <4>1, <4>2, FS_Union
    <3> QED
      BY <3>1, <3>2, FS_Subset
  <2> QED
    BY <2>1, <2>2
<1>2. PICK i \in DOMAIN data.vatBreakdown :
        /\ data.vatBreakdown[i].rate # Null
        /\ CanonicalDecimalKey(data.vatBreakdown[i].rate) = CanonicalDecimalKey(rate)
        /\ data.vatBreakdown[i].category = c
  <2>1. c \in RateCategories(data, rate)
    BY <1>1
  <2> QED
    BY <2>1 DEF RateCategories
<1>3. data.vatBreakdown[i].rate \in Decimal
  BY <1>2, StoredNumbers
<1>4. SameNumber(data.vatBreakdown[i].rate, rate)
  BY <1>2, <1>3, NumeralsHaveOneKey
<1>5. ResolvesVatCategory(data.vatBreakdown[i].rate, c)
  BY <1>2, BreakdownIsComplete
<1>6. ResolvesVatCategory(rate, c)
  BY <1>3, <1>4, <1>5, SameSign DEF ResolvesVatCategory
<1>7. LineCategory(data, rate) = c
  BY <1>1 DEF LineCategory
<1> QED
  BY <1>1, <1>6, <1>7 DEF ResolvesLineItemVatCategory

(* A document is what the mapper made of data that it did not refuse and   *)
(* the validation let pass.                                                *)
IsOfPassingData(content) ==
    \E data : /\ IsStored(data) /\ Passes(data) /\ MappingFindings(data) = {}
              /\ content = Document(data)
DocumentInv == document # Null => IsOfPassingData(document.content)

(* The document on file is generated from data that passes.                *)
LEMMA DocumentInvariant == Spec => []DocumentInv
<1>1. Init => DocumentInv
  BY DEF Init, DocumentInv
<1>2. RulesTypeOK /\ GeneratesWhatPasses /\ DocumentInv /\ [Next]_vars => DocumentInv'
  <2> SUFFICES ASSUME RulesTypeOK, GeneratesWhatPasses, DocumentInv, [Next]_vars
               PROVE  DocumentInv'
    OBVIOUS
  <2>1. CASE Accept \/ RejectByKosit
    <3>1. /\ status = "GENERATING" /\ IsMapped
          /\ document'.content = Document(stored)
      BY <2>1 DEF Accept, RejectByKosit, CompleteGeneration
    <3>2. stored # Null /\ IsStored(stored) /\ Passes(stored) /\ MappingFindings(stored) = {}
      BY <3>1 DEF IsMapped, RulesTypeOK, GeneratesWhatPasses
    <3>3. IsOfPassingData(Document(stored))
      BY <3>2 DEF IsOfPassingData
    <3> QED
      BY <3>1, <3>3 DEF DocumentInv
  <2>2. CASE Submit
    BY <2>2 DEF Submit, DocumentInv
  <2>3. CASE document' = document
    BY <2>3 DEF DocumentInv
  <2>4. Validate \/ RejectUnreadable \/ RejectMapping \/ RejectRendering \/ Open \/ Edit
          \/ AddRow \/ RemoveRow \/ EnqueueFails \/ UNCHANGED vars => document' = document
    BY DEF Validate, RejectUnreadable, RejectMapping, RejectRendering, RejectGeneration,
           Open, Edit, AddRow, RemoveRow, Change, EnqueueFails, vars
  <2> QED
    BY <2>1, <2>2, <2>3, <2>4 DEF Next
<1> QED
  BY <1>1, <1>2, RulesTypes, GenerationNeedsPass, PTL DEF Spec

(* A document never shows two categories for one rate, however the rates   *)
(* were written, and the mapper does not refuse a line whose rate has one  *)
(* category that fits.                                                     *)
THEOREM CategoriesFollowRates == Spec => []LinesShareTheirBreakdown
<1>1. RulesTypeOK /\ GeneratesWhatPasses /\ DocumentInv => LinesShareTheirBreakdown
  <2> SUFFICES ASSUME RulesTypeOK, GeneratesWhatPasses, DocumentInv
               PROVE  LinesShareTheirBreakdown
    OBVIOUS
  <2>1. ASSUME document # Null, NEW i \in DOMAIN document.content.lines,
               NEW j \in DOMAIN document.content.subtotals,
               SameNumber(document.content.lines[i].percent,
                          document.content.subtotals[j].percent)
        PROVE  document.content.lines[i].category = document.content.subtotals[j].category
    <3>1. PICK data : /\ IsStored(data) /\ MappingFindings(data) = {}
                      /\ document.content = Document(data)
      BY <2>1 DEF DocumentInv, IsOfPassingData
    <3>2. i \in DOMAIN data.lineItems /\ j \in DOMAIN data.vatBreakdown
      <4>1. /\ DOMAIN Document(data).lines = DOMAIN data.lineItems
            /\ DOMAIN Document(data).subtotals = DOMAIN data.vatBreakdown
        BY DEF Document
      <4> QED
        BY <2>1, <3>1, <4>1
    <3>3. /\ document.content.lines[i].percent = data.lineItems[i].vatRate
          /\ document.content.lines[i].category
               = VatCategory(LineCategory(data, data.lineItems[i].vatRate))
          /\ document.content.subtotals[j].percent = data.vatBreakdown[j].rate
          /\ document.content.subtotals[j].category
               = VatCategory(data.vatBreakdown[j].category)
      BY <3>1, <3>2 DEF Document
    <3> QED
      BY <2>1, <3>1, <3>2, <3>3, MappedCategories
  <2>2. ASSUME status = "GENERATING", stored # Null, NEW i \in DOMAIN stored.lineItems,
               stored.lineItems[i].vatRate # Null,
               Cardinality({entry.category : entry \in {e \in Range(stored.vatBreakdown) :
                              /\ e.rate # Null
                              /\ SameNumber(stored.lineItems[i].vatRate, e.rate)}}) = 1
        PROVE  Error("mapping.line_vat_category", <<"lineItems", i, "vatRate">>)
                 \notin MappingFindings(stored)
    <3>1. IsStored(stored) /\ Passes(stored)
      BY <2>2 DEF RulesTypeOK, GeneratesWhatPasses
    <3>2. stored.lineItems[i].vatRate \in Decimal
      BY <2>2, <3>1, StoredNumbers
    <3>3. Cardinality(RateCategories(stored, stored.lineItems[i].vatRate)) = 1
      BY <2>2, <3>1, <3>2, CategoriesOfNumber
    <3>4. ResolvesLineItemVatCategory(stored, stored.lineItems[i].vatRate)
      BY <2>2, <3>1, <3>2, <3>3, OneCategoryResolves
    <3> QED
      BY <2>2, <3>1, <3>4, CategoryRefused
  <2> QED
    BY <2>1, <2>2 DEF LinesShareTheirBreakdown
<1> QED
  BY <1>1, RulesTypes, GenerationNeedsPass, DocumentInvariant, PTL

-------------------------------------------------------------------------------
(* Sums over finite sets.                                                  *)

Some(s) == CHOOSE x \in s : TRUE

(* The function adds up f over each subset of S, in the order of CHOOSE.   *)
IsSum(g, f, S) ==
    g = [s \in SUBSET S |-> IF s = {} THEN 0 ELSE f[Some(s)] + g[s \ {Some(s)}]]

(* What a nonempty set is without the element that is added last.          *)
LEMMA SomeIsRemoved ==
    ASSUME NEW s, s # {}
    PROVE  /\ Some(s) \in s
           /\ s \ {Some(s)} \in SUBSET s
           /\ s \ {Some(s)} # s
BY DEF Some

(* Such functions agree where both are defined,                            *)
LEMMA SumsAgree ==
    ASSUME NEW S, IsFiniteSet(S), NEW f, NEW Q \in SUBSET S, NEW R \in SUBSET S,
           NEW g, NEW h, IsSum(g, f, Q), IsSum(h, f, R)
    PROVE  \A s \in SUBSET S : s \subseteq Q /\ s \subseteq R => g[s] = h[s]
<1> DEFINE T == {s \in SUBSET S : s \subseteq Q /\ s \subseteq R => g[s] = h[s]}
<1>1. ASSUME NEW s \in SUBSET S, \A r \in SUBSET s : r # s => r \in T
      PROVE  s \in T
  <2> SUFFICES ASSUME s \subseteq Q, s \subseteq R PROVE g[s] = h[s]
    OBVIOUS
  <2>1. /\ g[s] = IF s = {} THEN 0 ELSE f[Some(s)] + g[s \ {Some(s)}]
        /\ h[s] = IF s = {} THEN 0 ELSE f[Some(s)] + h[s \ {Some(s)}]
    BY DEF IsSum
  <2>2. CASE s = {}
    BY <2>1, <2>2
  <2>3. CASE s # {}
    <3>1. s \ {Some(s)} \in T
      BY <1>1, <2>3, SomeIsRemoved
    <3>2. g[s \ {Some(s)}] = h[s \ {Some(s)}]
      BY <3>1
    <3> QED
      BY <2>1, <2>3, <3>2
  <2> QED
    BY <2>2, <2>3
<1> HIDE DEF T
<1>2. SUBSET S \subseteq T
  BY <1>1, InductionOnSubsets
<1> QED
  BY <1>2 DEF T

(* and there is one.                                                       *)
LEMMA SumsExist ==
    ASSUME NEW S, IsFiniteSet(S), NEW f
    PROVE  \E g : IsSum(g, f, S)
<1> DEFINE T == {s \in SUBSET S : \E g : IsSum(g, f, s)}
<1>1. ASSUME NEW s \in SUBSET S, \A r \in SUBSET s : r # s => r \in T
      PROVE  s \in T
  <2> DEFINE G(r) == CHOOSE g : IsSum(g, f, r)
             without(r) == r \ {Some(r)}
             g == [r \in SUBSET s |->
                     IF r = {} THEN 0 ELSE f[Some(r)] + G(without(r))[without(r)]]
  <2>1. \A r \in SUBSET s : r # s => IsSum(G(r), f, r)
    BY <1>1
  <2>2. \A r \in SUBSET s : r # {} => Some(r) \in r /\ without(r) \in SUBSET s /\ without(r) # s
    BY SomeIsRemoved
  <2> HIDE DEF G, without
  <2>3. ASSUME NEW r \in SUBSET s, r # s
        PROVE  G(r)[r] = g[r]
    <3>1. G(r)[r] = IF r = {} THEN 0 ELSE f[Some(r)] + G(r)[without(r)]
      <4>1. G(r) = [q \in SUBSET r |-> IF q = {} THEN 0 ELSE f[Some(q)] + G(r)[q \ {Some(q)}]]
        BY <2>1, <2>3 DEF IsSum
      <4>2. r \in SUBSET r
        OBVIOUS
      <4> QED
        BY <4>1, <4>2 DEF without
    <3>2. CASE r = {}
      BY <3>1, <3>2
    <3>3. CASE r # {}
      <4>1. without(r) \in SUBSET r /\ without(r) \in SUBSET S
        BY DEF without
      <4>2. IsSum(G(r), f, r) /\ IsSum(G(without(r)), f, without(r))
        BY <2>1, <2>2, <2>3, <3>3
      <4>3. G(r)[without(r)] = G(without(r))[without(r)]
        <5>1. r \in SUBSET S /\ without(r) \subseteq r /\ without(r) \subseteq without(r)
          BY <4>1
        <5>2. \A Q, R \in SUBSET S : \A a, d : IsSum(a, f, Q) /\ IsSum(d, f, R)
                 => \A q \in SUBSET S : q \subseteq Q /\ q \subseteq R => a[q] = d[q]
          BY SumsAgree
        <5> QED
          BY <4>1, <4>2, <5>1, <5>2
      <4> QED
        BY <3>1, <3>3, <4>3
    <3> QED
      BY <3>2, <3>3
  <2>4. ASSUME NEW r \in SUBSET s
        PROVE  g[r] = IF r = {} THEN 0 ELSE f[Some(r)] + g[without(r)]
    <3>1. CASE r = {}
      BY <3>1
    <3>2. CASE r # {}
      <4>1. G(without(r))[without(r)] = g[without(r)]
        BY <2>2, <2>3, <3>2
      <4>2. g[r] = f[Some(r)] + G(without(r))[without(r)]
        BY <3>2
      <4> QED
        BY <3>2, <4>1, <4>2
    <3> QED
      BY <3>1, <3>2
  <2>5. DOMAIN g = SUBSET s /\ g = [r \in DOMAIN g |-> g[r]]
    OBVIOUS
  <2> HIDE DEF g
  <2>6. g = [r \in SUBSET s |-> IF r = {} THEN 0 ELSE f[Some(r)] + g[r \ {Some(r)}]]
    BY <2>4, <2>5 DEF without
  <2>7. IsSum(g, f, s)
    BY <2>6 DEF IsSum
  <2> QED
    BY <2>7
<1> HIDE DEF T
<1>2. SUBSET S \subseteq T
  BY <1>1, InductionOnSubsets
<1>3. S \in T
  BY <1>2
<1> QED
  BY <1>3 DEF T

(* Whole numbers add up to one,                                            *)
LEMMA SumsAreIntegers ==
    ASSUME NEW S, IsFiniteSet(S), NEW f \in [S -> Int], NEW g, IsSum(g, f, S)
    PROVE  \A s \in SUBSET S : g[s] \in Int
<1> DEFINE T == {s \in SUBSET S : g[s] \in Int}
<1>1. ASSUME NEW s \in SUBSET S, \A r \in SUBSET s : r # s => r \in T
      PROVE  s \in T
  <2>1. g[s] = IF s = {} THEN 0 ELSE f[Some(s)] + g[s \ {Some(s)}]
    BY DEF IsSum
  <2>2. CASE s = {}
    BY <2>1, <2>2
  <2>3. CASE s # {}
    <3>1. s \ {Some(s)} \in T /\ Some(s) \in S
      BY <1>1, <2>3, SomeIsRemoved
    <3> QED
      BY <2>1, <2>3, <3>1
  <2> QED
    BY <2>2, <2>3
<1> HIDE DEF T
<1>2. SUBSET S \subseteq T
  BY <1>1, InductionOnSubsets
<1> QED
  BY <1>2 DEF T

(* and what bounds the difference of two terms, once for each of them,     *)
(* bounds the difference of the sums.                                      *)
LEMMA SumsAreClose ==
    ASSUME NEW S, IsFiniteSet(S), NEW f \in [S -> Int], NEW h \in [S -> Int],
           NEW g, NEW k, IsSum(g, f, S), IsSum(k, h, S),
           NEW c \in Int, NEW b \in Int,
           \A i \in S : 2 * (f[i] - c * h[i]) <= b /\ -b <= 2 * (f[i] - c * h[i])
    PROVE  /\ 2 * (g[S] - c * k[S]) <= b * Cardinality(S)
           /\ -(b * Cardinality(S)) <= 2 * (g[S] - c * k[S])
<1> DEFINE T == {s \in SUBSET S : /\ 2 * (g[s] - c * k[s]) <= b * Cardinality(s)
                                  /\ -(b * Cardinality(s)) <= 2 * (g[s] - c * k[s])}
<1>0. \A s \in SUBSET S : g[s] \in Int /\ k[s] \in Int
  BY SumsAreIntegers
<1>1. ASSUME NEW s \in SUBSET S, \A r \in SUBSET s : r # s => r \in T
      PROVE  s \in T
  <2>1. /\ g[s] = IF s = {} THEN 0 ELSE f[Some(s)] + g[s \ {Some(s)}]
        /\ k[s] = IF s = {} THEN 0 ELSE h[Some(s)] + k[s \ {Some(s)}]
    BY DEF IsSum
  <2>2. CASE s = {}
    <3>1. Cardinality(s) = 0 /\ g[s] = 0 /\ k[s] = 0
      BY <2>1, <2>2, FS_EmptySet
    <3> QED
      BY <3>1
  <2>3. CASE s # {}
    <3> DEFINE r == s \ {Some(s)}
               i == Some(s)
    <3>1. r \in T /\ i \in S /\ r \in SUBSET S /\ i \in s
      BY <1>1, <2>3, SomeIsRemoved
    <3>2. Cardinality(s) = Cardinality(r) + 1 /\ Cardinality(r) \in Int
      <4>1. IsFiniteSet(s) /\ IsFiniteSet(r)
        BY FS_Subset
      <4>2. Cardinality(r) = Cardinality(s) - 1
        BY <3>1, <4>1, FS_RemoveElement
      <4>3. Cardinality(s) \in Nat /\ Cardinality(r) \in Nat
        BY <4>1, FS_CardinalityType
      <4> QED
        BY <4>2, <4>3
    <3>3. g[s] = f[i] + g[r] /\ k[s] = h[i] + k[r]
      BY <2>1, <2>3
    <3>4. f[i] \in Int /\ h[i] \in Int /\ g[r] \in Int /\ k[r] \in Int
      BY <1>0, <3>1
    <3>5. /\ 2 * (g[r] - c * k[r]) <= b * Cardinality(r)
          /\ -(b * Cardinality(r)) <= 2 * (g[r] - c * k[r])
      BY <3>1
    <3>6. 2 * (f[i] - c * h[i]) <= b /\ -b <= 2 * (f[i] - c * h[i])
      BY <3>1
    <3> HIDE DEF r, i
    <3>7. \A n \in Int : b * (n + 1) = b * n + b
      OBVIOUS
    <3>8. \A x, y \in Int : c * (x + y) = c * x + c * y
      OBVIOUS
    <3>9. b * Cardinality(s) = b * Cardinality(r) + b /\ b * Cardinality(r) \in Int
      <4>1. b * Cardinality(s) = b * (Cardinality(r) + 1)
        BY <3>2
      <4>2. b * (Cardinality(r) + 1) = b * Cardinality(r) + b
        BY <3>2, <3>7
      <4> QED
        BY <3>2, <4>1, <4>2
    <3>10. c * k[s] = c * h[i] + c * k[r] /\ c * h[i] \in Int /\ c * k[r] \in Int
      BY <3>3, <3>4, <3>8
    <3> QED
      BY <3>3, <3>4, <3>5, <3>6, <3>9, <3>10
  <2> QED
    BY <2>2, <2>3
<1> HIDE DEF T
<1>2. SUBSET S \subseteq T
  BY <1>1, InductionOnSubsets
<1>3. S \in T
  BY <1>2
<1> QED
  BY <1>3 DEF T

(* The sum of the values of a function on S.                               *)
SumOf(f, S) == (CHOOSE g : IsSum(g, f, S))[S]

(* What SumOf chooses is the sum of f over S.                              *)
LEMMA SumIsSum ==
    ASSUME NEW S, IsFiniteSet(S), NEW f
    PROVE  \E g : IsSum(g, f, S) /\ SumOf(f, S) = g[S]
BY SumsExist DEF SumOf

(* The sums of the model.                                                  *)
LEMMA AmountsSum ==
    ASSUME NEW rows, NEW field, NEW S
    PROVE  MapThenSumSet(LAMBDA i : ToMinorUnits(rows[i][field]), S)
             = SumOf([i \in S |-> ToMinorUnits(rows[i][field])], S)
<1> DEFINE f == [i \in S |-> ToMinorUnits(rows[i][field])]
           Body(g) == [s \in SUBSET S |->
                         IF s = {} THEN 0
                         ELSE ToMinorUnits(rows[Some(s)][field]) + g[s \ {Some(s)}]]
<1>1. MapThenSumSet(LAMBDA i : ToMinorUnits(rows[i][field]), S) = (CHOOSE g : g = Body(g))[S]
  BY Zenon DEF MapThenSumSet, MapThenFoldSet, Some
<1>2. \A s \in SUBSET S : s # {} => f[Some(s)] = ToMinorUnits(rows[Some(s)][field])
  BY SomeIsRemoved
<1> HIDE DEF f
<1>3. \A g : Body(g) = [s \in SUBSET S |->
                          IF s = {} THEN 0 ELSE f[Some(s)] + g[s \ {Some(s)}]]
  BY <1>2
<1>4. \A g : IsSum(g, f, S) <=> g = Body(g)
  BY <1>3 DEF IsSum
<1> HIDE DEF Body
<1>5. (CHOOSE g : g = Body(g)) = (CHOOSE g : IsSum(g, f, S))
  BY <1>4
<1> QED
  BY <1>1, <1>5 DEF SumOf, f

(* The places of the most precise of the numbers, or those of a cent.      *)
Places(numbers) == Max({2} \cup {numbers[i].scale : i \in DOMAIN numbers})

(* SumsTo compares such a sum, in units of the last place.                 *)
LEMMA SumsToSums ==
    ASSUME NEW numbers, NEW total
    PROVE  SumsTo(numbers, total)
             <=> 2 * Abs(SumOf([i \in DOMAIN numbers |-> InUnits(numbers[i], Places(numbers))],
                               DOMAIN numbers)
                           - PowerOfTen[Places(numbers) - 2] * total)
                   <= (3 * Len(numbers) + 2) * PowerOfTen[Places(numbers) - 2]
<1> DEFINE S == DOMAIN numbers
           places == Max({2} \cup {numbers[i].scale : i \in DOMAIN numbers})
           sum == MapThenSumSet(LAMBDA i : InUnits(numbers[i], places), S)
           f == [i \in S |-> InUnits(numbers[i], places)]
           Body(g) == [s \in SUBSET S |->
                         IF s = {} THEN 0
                         ELSE InUnits(numbers[Some(s)], places) + g[s \ {Some(s)}]]
<1>1. SumsTo(numbers, total)
        <=> 2 * Abs(sum - PowerOfTen[places - 2] * total)
              <= (3 * Len(numbers) + 2) * PowerOfTen[places - 2]
  BY DEF SumsTo
<1>2. sum = (CHOOSE g : g = Body(g))[S]
  BY Zenon DEF MapThenSumSet, MapThenFoldSet, Some
<1> HIDE DEF sum, places
<1>3. \A s \in SUBSET S : s # {} => f[Some(s)] = InUnits(numbers[Some(s)], places)
  BY SomeIsRemoved
<1> HIDE DEF f
<1>4. \A g : Body(g) = [s \in SUBSET S |->
                          IF s = {} THEN 0 ELSE f[Some(s)] + g[s \ {Some(s)}]]
  BY <1>3
<1>5. \A g : IsSum(g, f, S) <=> g = Body(g)
  BY <1>4 DEF IsSum
<1> HIDE DEF Body
<1>6. (CHOOSE g : g = Body(g)) = (CHOOSE g : IsSum(g, f, S))
  BY <1>5
<1>7. sum = SumOf(f, S)
  BY <1>2, <1>6 DEF SumOf
<1>8. places = Places(numbers)
  BY DEF places, Places
<1> QED
  BY <1>1, <1>7, <1>8 DEF f

-------------------------------------------------------------------------------
(* Rounding (money/decimal.ts:28-41).                                      *)

Rounded(value) == RoundHalfAwayFromZeroToScale(value, 2)

(* A quotient is rounded to the nearest.                                   *)
LEMMA QuotientIsClose ==
    ASSUME NEW n \in Int, NEW divisor \in Nat, divisor > 0
    PROVE  /\ RoundedQuotient(n, divisor) \in Int
           /\ 2 * (n - divisor * RoundedQuotient(n, divisor)) <= divisor
           /\ -divisor <= 2 * (n - divisor * RoundedQuotient(n, divisor))
<1> DEFINE half == divisor \div 2
           m == Abs(n)
           rounded == (m + half) \div divisor
           rest == (m + half) % divisor
<1>1. half \in Nat /\ 2 * half <= divisor /\ divisor <= 2 * half + 1
  OBVIOUS
<1>2. m \in Nat /\ m = IF n < 0 THEN -n ELSE n
  BY DEF Abs
<1>3. RoundedQuotient(n, divisor) = IF n < 0 THEN -rounded ELSE rounded
  BY DEF RoundedQuotient
<1> HIDE DEF half, m
<1>4. /\ rounded \in Int /\ rest \in Int /\ 0 <= rest /\ rest < divisor
      /\ m + half = divisor * rounded + rest
  <2>1. m + half \in Int
    BY <1>1, <1>2
  <2>2. \A x \in Int : /\ x \div divisor \in Int /\ x % divisor \in Int
                       /\ 0 <= x % divisor /\ x % divisor < divisor
                       /\ x = divisor * (x \div divisor) + (x % divisor)
    OBVIOUS
  <2> QED
    BY <2>1, <2>2
<1> HIDE DEF rounded, rest
<1> DEFINE product == divisor * rounded
<1>5. product \in Int /\ divisor * (-rounded) = -product
  BY <1>4
<1>6. divisor * RoundedQuotient(n, divisor) = IF n < 0 THEN -product ELSE product
  BY <1>3, <1>5
<1>7. RoundedQuotient(n, divisor) \in Int
  BY <1>3, <1>4
<1>8. m + half = product + rest
  BY <1>4
<1> HIDE DEF product
<1> QED
  BY <1>1, <1>2, <1>4, <1>5, <1>6, <1>7, <1>8

(* A rounded number is within half a cent of the exact one.                *)
LEMMA RoundingIsClose ==
    ASSUME NEW v \in Decimal, NEW places \in Nat, 2 <= places, v.scale <= places
    PROVE  /\ Rounded(v) \in Int
           /\ InUnits(v, places) \in Int
           /\ 2 * (InUnits(v, places) - PowerOfTen[places - 2] * Rounded(v))
                <= PowerOfTen[places - 2]
           /\ -PowerOfTen[places - 2]
                <= 2 * (InUnits(v, places) - PowerOfTen[places - 2] * Rounded(v))
<1> DEFINE P(n) == PowerOfTen[n]
           c == v.coefficient
           s == v.scale
<1>1. c \in Int /\ s \in Nat /\ s <= places
  BY DEF Decimal
<1>2. \A n \in Nat : P(n) \in Nat /\ P(n) > 0
  BY PowersArePositive
<1>3. \A m, n \in Nat : P(m + n) = P(m) * P(n)
  BY PowersMultiply
<1>4. InUnits(v, places) = c * P(places - s)
  BY DEF InUnits
<1>5. Rounded(v) = IF s <= 2 THEN c * P(2 - s) ELSE RoundedQuotient(c, P(s - 2))
  BY DEF Rounded, RoundHalfAwayFromZeroToScale
<1> HIDE DEF P, c, s
<1>6. places - 2 \in Nat /\ places - s \in Nat
  BY <1>1
<1>7. CASE s <= 2
  <2>1. 2 - s \in Nat /\ places - s = (places - 2) + (2 - s)
    BY <1>1, <1>7
  <2>2. P(places - s) = P(places - 2) * P(2 - s)
    BY <1>3, <1>6, <2>1
  <2>3. P(places - 2) \in Int /\ P(2 - s) \in Int /\ P(places - 2) > 0
    BY <1>2, <1>6, <2>1
  <2>4. \A x, y, z \in Int : x * (y * z) = y * (x * z) /\ x * z \in Int /\ y * (x * z) \in Int
    OBVIOUS
  <2>5. /\ InUnits(v, places) = P(places - 2) * Rounded(v) /\ Rounded(v) \in Int
        /\ InUnits(v, places) \in Int
    BY <1>1, <1>4, <1>5, <1>7, <2>2, <2>3, <2>4
  <2> QED
    BY <2>3, <2>5 DEF P
<1>8. CASE s > 2
  <2> DEFINE d == P(s - 2)
             e == P(places - s)
             r == RoundedQuotient(c, d)
  <2>1. s - 2 \in Nat /\ places - 2 = (places - s) + (s - 2)
    BY <1>1, <1>8
  <2>2. P(places - 2) = e * d
    BY <1>3, <1>6, <2>1
  <2>3. d \in Nat /\ d > 0 /\ e \in Nat /\ e > 0
    BY <1>2, <1>6, <2>1
  <2>4. InUnits(v, places) = c * e /\ Rounded(v) = r
    BY <1>1, <1>4, <1>5, <1>8
  <2> HIDE DEF d, e
  <2>5. r \in Int /\ 2 * (c - d * r) <= d /\ -d <= 2 * (c - d * r)
    BY <1>1, <2>3, QuotientIsClose
  <2> HIDE DEF r
  <2>6. \A x, y \in Int : e * (x - y) = e * x - e * y /\ (x <= y => e * x <= e * y)
    BY <2>3
  <2> DEFINE gap == 2 * (c - d * r)
  <2>7. gap \in Int /\ gap <= d /\ -d <= gap
    BY <1>1, <2>3, <2>5
  <2>8. e * gap <= e * d /\ e * (-d) <= e * gap /\ e * (-d) = -(e * d)
    BY <2>3, <2>6, <2>7
  <2>9. e * gap = 2 * (c * e - (e * d) * r)
    BY <1>1, <2>3, <2>5
  <2>10. c * e \in Int /\ e * d \in Int
    BY <1>1, <2>3
  <2> HIDE DEF gap
  <2> QED
    BY <2>2, <2>4, <2>5, <2>8, <2>9, <2>10 DEF P
<1> QED
  BY <1>1, <1>7, <1>8

-------------------------------------------------------------------------------
(* The totals of a document (validation/rules/arithmetic.ts).              *)

(* A finite set of numbers has a greatest.                                 *)
LEMMA GreatestExists ==
    ASSUME NEW S, IsFiniteSet(S), S \subseteq Int, S # {}
    PROVE  Max(S) \in S /\ \A x \in S : x <= Max(S)
<1> DEFINE T == {s \in SUBSET S : s # {} => \E x \in s : \A y \in s : x >= y}
<1>1. ASSUME NEW s \in SUBSET S, \A r \in SUBSET s : r # s => r \in T
      PROVE  s \in T
  <2> SUFFICES ASSUME s # {} PROVE \E x \in s : \A y \in s : x >= y
    OBVIOUS
  <2> DEFINE r == s \ {Some(s)}
  <2>1. Some(s) \in s /\ r \in T
    BY <1>1, SomeIsRemoved
  <2>2. CASE r = {}
    <3>1. s = {Some(s)} /\ Some(s) \in Int
      BY <2>1, <2>2
    <3> QED
      BY <2>1, <3>1
  <2>3. CASE r # {}
    <3>1. PICK x \in r : \A y \in r : x >= y
      BY <2>1, <2>3
    <3>2. x \in Int /\ Some(s) \in Int /\ \A y \in s : y \in Int
      BY <2>1
    <3>3. CASE x >= Some(s)
      BY <2>1, <3>1, <3>2, <3>3
    <3>4. CASE ~(x >= Some(s))
      BY <2>1, <3>1, <3>2, <3>4
    <3> QED
      BY <3>3, <3>4
  <2> QED
    BY <2>2, <2>3
<1> HIDE DEF T
<1>2. SUBSET S \subseteq T
  BY <1>1, InductionOnSubsets
<1>3. \E x \in S : \A y \in S : x >= y
  BY <1>2 DEF T
<1>4. Max(S) \in S /\ \A y \in S : Max(S) >= y
  BY <1>3 DEF Max
<1> QED
  BY <1>4

(* Rows that are each rounded to within a cent, and whose amounts add up   *)
(* to within a cent of the total, sum to it.                               *)
LEMMA RowsSumTo ==
    ASSUME NEW n \in Nat, NEW numbers \in [1 .. n -> Decimal],
           NEW amounts \in [1 .. n -> Int], NEW total \in Int,
           \A i \in 1 .. n : Abs(Rounded(numbers[i]) - amounts[i]) <= 1,
           Abs(SumOf(amounts, 1 .. n) - total) <= 1
    PROVE  SumsTo(numbers, total)
<1> DEFINE S == 1 .. n
           scales == {2} \cup {numbers[i].scale : i \in DOMAIN numbers}
           places == Places(numbers)
           cent == PowerOfTen[places - 2]
           exact == [i \in S |-> InUnits(numbers[i], places)]
<1>1. IsFiniteSet(S) /\ Cardinality(S) = n
  BY FS_Interval
<1>2. Len(numbers) = n /\ DOMAIN numbers = S
  BY LenProperties
<1>3. /\ places \in Nat /\ 2 <= places
      /\ \A i \in S : numbers[i].scale <= places
  <2>1. \A i \in S : numbers[i].scale \in Nat
    BY DEF Decimal
  <2>2. IsFiniteSet(scales)
    <3> DEFINE scale == [i \in S |-> numbers[i].scale]
    <3>1. IsFiniteSet({scale[i] : i \in S})
      <4> DEFINE U == {scale[i] : i \in S}
      <4>1. scale \in Surjection(S, U)
        BY DEF Surjection
      <4> HIDE DEF U, S, scale
      <4>2. IsFiniteSet(U)
        BY <1>1, <4>1, FS_Surjection
      <4> QED
        BY <4>2 DEF U
    <3>2. scales = {2} \cup {scale[i] : i \in S}
      BY <1>2
    <3>3. IsFiniteSet({2})
      BY FS_Singleton
    <3> HIDE DEF scale
    <3> QED
      BY <3>1, <3>2, <3>3, FS_Union
  <2>3. scales \subseteq Int /\ 2 \in scales /\ \A i \in S : numbers[i].scale \in scales
    <3>1. scales = {2} \cup {numbers[i].scale : i \in S}
      BY <1>2
    <3> HIDE DEF scales, S
    <3> QED
      BY <2>1, <3>1
  <2> HIDE DEF scales, S
  <2>4. places \in scales /\ \A x \in scales : x <= places
    <3>1. places = Max(scales)
      BY DEF Places, scales
    <3> QED
      BY <2>2, <2>3, <3>1, GreatestExists
  <2> HIDE DEF places
  <2>5. places \in Int /\ 2 <= places
    BY <2>3, <2>4
  <2>6. places \in Nat
    BY <2>5
  <2>7. \A i \in S : numbers[i].scale <= places
    BY <2>3, <2>4
  <2> QED
    BY <2>5, <2>6, <2>7
<1>4. cent \in Nat /\ cent > 0
  <2> HIDE DEF places
  <2>1. places - 2 \in Nat
    BY <1>3
  <2> QED
    BY <2>1, PowersArePositive
<1>5. SumsTo(numbers, total)
        <=> 2 * Abs(SumOf(exact, S) - cent * total) <= (3 * n + 2) * cent
  BY <1>2, SumsToSums
<1> HIDE DEF places
<1>6. \A i \in S : /\ numbers[i] \in Decimal /\ Rounded(numbers[i]) \in Int
                   /\ InUnits(numbers[i], places) \in Int
                   /\ 2 * (InUnits(numbers[i], places) - cent * Rounded(numbers[i])) <= cent
                   /\ -cent <= 2 * (InUnits(numbers[i], places) - cent * Rounded(numbers[i]))
  BY <1>3, RoundingIsClose
<1> HIDE DEF cent
<1>7. ASSUME NEW i \in S
      PROVE  /\ 2 * (exact[i] - cent * amounts[i]) <= 3 * cent
             /\ -(3 * cent) <= 2 * (exact[i] - cent * amounts[i])
  <2> DEFINE x == exact[i]
             r == Rounded(numbers[i])
             a == amounts[i]
  <2>1. /\ x \in Int /\ r \in Int /\ a \in Int
        /\ 2 * (x - cent * r) <= cent /\ -cent <= 2 * (x - cent * r)
    BY <1>6
  <2>2. r = a \/ r = a + 1 \/ r = a - 1
    <3>1. Abs(r - a) <= 1
      OBVIOUS
    <3> HIDE DEF r, a
    <3> QED
      BY <2>1, <3>1 DEF Abs
  <2> HIDE DEF x, r, a
  <2>3. cent * (a + 1) = cent * a + cent /\ cent * (a - 1) = cent * a - cent /\ cent * a \in Int
    BY <1>4, <2>1
  <2>4. \A p, q, c \in Int :
          /\ p = q \/ p = q + c \/ p = q - c
          /\ c >= 0 /\ 2 * (x - p) <= c /\ -c <= 2 * (x - p)
          => 2 * (x - q) <= 3 * c /\ -(3 * c) <= 2 * (x - q)
    BY <2>1
  <2>5. /\ cent * r \in Int /\ cent \in Int /\ cent >= 0
        /\ cent * r = cent * a \/ cent * r = cent * a + cent \/ cent * r = cent * a - cent
    BY <1>4, <2>1, <2>2, <2>3
  <2>6. 2 * (x - cent * a) <= 3 * cent /\ -(3 * cent) <= 2 * (x - cent * a)
    BY <2>1, <2>3, <2>4, <2>5
  <2> QED
    BY <2>6 DEF x, a
<1>8. exact \in [S -> Int] /\ amounts \in [S -> Int]
  BY <1>6
<1> HIDE DEF exact, S
<1>9. PICK g : IsSum(g, exact, S) /\ SumOf(exact, S) = g[S]
  BY <1>1, SumIsSum
<1>10. PICK k : IsSum(k, amounts, S) /\ SumOf(amounts, S) = k[S]
  BY <1>1, SumIsSum
<1>11. /\ 2 * (g[S] - cent * k[S]) <= (3 * cent) * n
       /\ -((3 * cent) * n) <= 2 * (g[S] - cent * k[S])
  <2> DEFINE b == 3 * cent
  <2>1. b \in Int /\ cent \in Int
    BY <1>4
  <2>2. \A i \in S : 2 * (exact[i] - cent * amounts[i]) <= b
                   /\ -b <= 2 * (exact[i] - cent * amounts[i])
    BY <1>7
  <2> HIDE DEF b
  <2>3. /\ 2 * (g[S] - cent * k[S]) <= b * Cardinality(S)
        /\ -(b * Cardinality(S)) <= 2 * (g[S] - cent * k[S])
    <3>1. IsFiniteSet(S) /\ IsSum(g, exact, S) /\ IsSum(k, amounts, S)
      BY <1>1, <1>9, <1>10
    <3> HIDE DEF cent
    <3> QED
      BY <1>8, <2>1, <2>2, <3>1, SumsAreClose
  <2> QED
    BY <1>1, <2>3 DEF b
<1>12. g[S] \in Int /\ k[S] \in Int
  <2>1. S \in SUBSET S
    OBVIOUS
  <2>2. \A s \in SUBSET S : g[s] \in Int
    BY <1>1, <1>8, <1>9, SumsAreIntegers
  <2>3. \A s \in SUBSET S : k[s] \in Int
    BY <1>1, <1>8, <1>10, SumsAreIntegers
  <2> QED
    BY <2>1, <2>2, <2>3
<1>13. k[S] = total \/ k[S] = total + 1 \/ k[S] = total - 1
  <2>1. Abs(k[S] - total) <= 1
    BY <1>10 DEF S
  <2> QED
    BY <1>12, <2>1 DEF Abs
<1>14. /\ cent * (total + 1) = cent * total + cent /\ cent * (total - 1) = cent * total - cent
       /\ cent * total \in Int
  BY <1>4
<1>15. (3 * n + 2) * cent = (3 * cent) * n + 2 * cent /\ (3 * cent) * n \in Int
  BY <1>4
<1> DEFINE bound == (3 * n + 2) * cent
           spread == (3 * cent) * n
           scaled == cent * total
<1>16. /\ spread \in Int /\ scaled \in Int /\ bound = spread + 2 * cent
       /\ 2 * (g[S] - cent * k[S]) <= spread
       /\ -spread <= 2 * (g[S] - cent * k[S])
       /\ cent * k[S] = scaled \/ cent * k[S] = scaled + cent \/ cent * k[S] = scaled - cent
  BY <1>11, <1>13, <1>14, <1>15
<1> HIDE DEF bound, spread, scaled
<1>17. 2 * Abs(g[S] - scaled) <= bound
  <2>1. /\ 2 * (g[S] - scaled) <= bound /\ -bound <= 2 * (g[S] - scaled)
    <3> DEFINE product == cent * k[S]
    <3>1. /\ product = scaled \/ product = scaled + cent \/ product = scaled - cent
          /\ 2 * (g[S] - product) <= spread /\ -spread <= 2 * (g[S] - product)
      BY <1>16
    <3> HIDE DEF product
    <3>2. product \in Int
      BY <1>4, <1>16, <3>1
    <3>3. spread \in Int /\ scaled \in Int /\ bound = spread + 2 * cent
      BY <1>16
    <3>4. \A x, p, q, c, b \in Int :
            /\ c >= 0 /\ (p = q \/ p = q + c \/ p = q - c)
            /\ 2 * (x - p) <= b /\ -b <= 2 * (x - p)
            => 2 * (x - q) <= b + 2 * c /\ -(b + 2 * c) <= 2 * (x - q)
      OBVIOUS
    <3>5. cent \in Int /\ cent >= 0 /\ g[S] \in Int
      BY <1>4, <1>12
    <3>6. 2 * (g[S] - scaled) <= spread + 2 * cent /\ -(spread + 2 * cent) <= 2 * (g[S] - scaled)
      BY <3>1, <3>2, <3>3, <3>4, <3>5
    <3> QED
      BY <3>3, <3>6
  <2>2. \A x, b \in Int : 2 * x <= b /\ -b <= 2 * x => 2 * Abs(x) <= b
    BY DEF Abs
  <2>3. bound \in Int /\ g[S] - scaled \in Int
    <3>1. spread \in Int /\ scaled \in Int /\ bound = spread + 2 * cent
      BY <1>16
    <3>2. cent \in Int /\ g[S] \in Int
      BY <1>4, <1>12
    <3> QED
      BY <3>1, <3>2
  <2> DEFINE gap == g[S] - scaled
  <2>4. gap \in Int /\ bound \in Int /\ 2 * gap <= bound /\ -bound <= 2 * gap
    BY <2>1, <2>3
  <2> HIDE DEF gap
  <2>5. 2 * Abs(gap) <= bound
    BY <2>2, <2>4
  <2> QED
    BY <2>5 DEF gap
<1> QED
  BY <1>5, <1>9, <1>17 DEF bound, scaled

(* The amounts of a row in whole minor units are integers.                 *)
LEMMA AmountsAreIntegers ==
    ASSUME NEW v \in Decimal, HasMinorUnits(v)
    PROVE  ToMinorUnits(v) \in Int
<1>1. v.scale \in Nat /\ 2 <= 2 /\ v.scale <= 2
  BY DEF Decimal, HasMinorUnits
<1> QED
  BY <1>1, RoundingIsClose DEF ToMinorUnits, Rounded

(* The lines of passing data sum to its net total.                         *)
LEMMA LinesSumToNet ==
    ASSUME NEW data, IsStored(data), Passes(data)
    PROVE  SumsTo([i \in DOMAIN data.lineItems |->
                     Times(data.lineItems[i].quantity, data.lineItems[i].unitPrice)],
                  ToMinorUnits(data.netTotal))
<1> DEFINE lines == data.lineItems
           n == Len(lines)
           numbers == [i \in DOMAIN lines |-> Times(lines[i].quantity, lines[i].unitPrice)]
           amounts == [i \in DOMAIN lines |-> ToMinorUnits(lines[i]["netAmount"])]
<1>1. n \in Nat /\ DOMAIN lines = 1 .. n
  BY StoredNumbers, LenProperties
<1>2. SumAgrees(lines, "netAmount", data.netTotal)
  BY NoErrors DEF ValidateArithmetic, Unless
<1>3. \A i \in DOMAIN lines : LineNetAgrees(lines[i])
  BY NoErrors DEF ValidateArithmetic
<1>4. \A i \in DOMAIN lines :
        /\ lines[i].quantity \in Decimal /\ lines[i].unitPrice \in Decimal
        /\ lines[i].netAmount \in Decimal /\ HasMinorUnits(lines[i].netAmount)
  BY <1>3, StoredNumbers DEF LineNetAgrees, IsAmount
<1>5. ToMinorUnits(data.netTotal) \in Int
  <2>1. data.netTotal \in Decimal /\ HasMinorUnits(data.netTotal)
    BY <1>2, StoredNumbers DEF SumAgrees, IsAmount
  <2> QED
    BY <2>1, AmountsAreIntegers
<1>6. numbers \in [1 .. n -> Decimal]
  <2>1. \A v, w \in Decimal : Times(v, w) \in Decimal
    BY DEF Times, Dec, Decimal
  <2> QED
    BY <1>1, <1>4, <2>1
<1>7. amounts \in [1 .. n -> Int]
  BY <1>1, <1>4, AmountsAreIntegers
<1>8. \A i \in 1 .. n : Abs(Rounded(numbers[i]) - amounts[i]) <= 1
  BY <1>1, <1>3 DEF LineNetAgrees, ProductInMinorUnits, IsWithinTolerance, Rounded, Times
<1>9. Abs(SumOf(amounts, 1 .. n) - ToMinorUnits(data.netTotal)) <= 1
  <2>1. MapThenSumSet(LAMBDA i : ToMinorUnits(lines[i]["netAmount"]), DOMAIN lines)
          = SumOf(amounts, DOMAIN lines)
    BY AmountsSum
  <2> QED
    BY <1>1, <1>2, <2>1 DEF SumAgrees, IsWithinTolerance
<1> HIDE DEF numbers, amounts, n
<1>10. SumsTo(numbers, ToMinorUnits(data.netTotal))
  BY <1>1, <1>5, <1>6, <1>7, <1>8, <1>9, RowsSumTo
<1> QED
  BY <1>10 DEF numbers

(* The VAT breakdown of passing data sums to its VAT total.                *)
LEMMA BreakdownSumsToVat ==
    ASSUME NEW data, IsStored(data), Passes(data)
    PROVE  SumsTo([i \in DOMAIN data.vatBreakdown |->
                     Percent(data.vatBreakdown[i].base, data.vatBreakdown[i].rate)],
                  ToMinorUnits(data.vatTotal))
<1> DEFINE entries == data.vatBreakdown
           n == Len(entries)
           numbers == [i \in DOMAIN entries |-> Percent(entries[i].base, entries[i].rate)]
           amounts == [i \in DOMAIN entries |-> ToMinorUnits(entries[i]["amount"])]
<1>1. n \in Nat /\ DOMAIN entries = 1 .. n
  BY StoredNumbers, LenProperties
<1>2. SumAgrees(entries, "amount", data.vatTotal)
  BY NoErrors DEF ValidateArithmetic, Unless
<1>3. \A i \in DOMAIN entries : VatAmountAgrees(entries[i])
  BY NoErrors DEF ValidateArithmetic
<1>4. \A i \in DOMAIN entries :
        /\ entries[i].base \in Decimal /\ entries[i].rate \in Decimal
        /\ entries[i].amount \in Decimal /\ HasMinorUnits(entries[i].amount)
  BY <1>3, StoredNumbers DEF VatAmountAgrees, IsAmount
<1>5. ToMinorUnits(data.vatTotal) \in Int
  <2>1. data.vatTotal \in Decimal /\ HasMinorUnits(data.vatTotal)
    BY <1>2, StoredNumbers DEF SumAgrees, IsAmount
  <2> QED
    BY <2>1, AmountsAreIntegers
<1>6. numbers \in [1 .. n -> Decimal]
  <2>1. \A v, w \in Decimal : Percent(v, w) \in Decimal
    BY DEF Percent, Dec, Decimal
  <2> QED
    BY <1>1, <1>4, <2>1
<1>7. amounts \in [1 .. n -> Int]
  BY <1>1, <1>4, AmountsAreIntegers
<1>8. \A i \in 1 .. n : Abs(Rounded(numbers[i]) - amounts[i]) <= 1
  BY <1>1, <1>3 DEF VatAmountAgrees, PercentageOfInMinorUnits, IsWithinTolerance, Rounded, Percent
<1>9. Abs(SumOf(amounts, 1 .. n) - ToMinorUnits(data.vatTotal)) <= 1
  <2>1. MapThenSumSet(LAMBDA i : ToMinorUnits(entries[i]["amount"]), DOMAIN entries)
          = SumOf(amounts, DOMAIN entries)
    BY AmountsSum
  <2> QED
    BY <1>1, <1>2, <2>1 DEF SumAgrees, IsWithinTolerance
<1> HIDE DEF numbers, amounts, n
<1>10. SumsTo(numbers, ToMinorUnits(data.vatTotal))
  BY <1>1, <1>5, <1>6, <1>7, <1>8, <1>9, RowsSumTo
<1> QED
  BY <1>10 DEF numbers

(* The totals of a document are within 1.5 cents per row, and one for the  *)
(* sum, of the exact amounts, and what is payable is exact.                *)
THEOREM TotalsFollowTheRows == Spec => []TotalsReflectTheRows
<1>1. DocumentInv => TotalsReflectTheRows
  <2> SUFFICES ASSUME DocumentInv, document # Null PROVE TotalsReflectTheRows
    BY DEF TotalsReflectTheRows
  <2>1. PICK data : /\ IsStored(data) /\ Passes(data)
                    /\ document.content = Document(data)
    BY DEF DocumentInv, IsOfPassingData
  <2> DEFINE content == document.content
             lines == content.lines
             subtotals == content.subtotals
  <2>2. /\ [i \in DOMAIN lines |-> Times(lines[i].quantity, lines[i].price)]
             = [i \in DOMAIN data.lineItems |->
                  Times(data.lineItems[i].quantity, data.lineItems[i].unitPrice)]
        /\ [i \in DOMAIN subtotals |-> Percent(subtotals[i].base, subtotals[i].percent)]
             = [i \in DOMAIN data.vatBreakdown |->
                  Percent(data.vatBreakdown[i].base, data.vatBreakdown[i].rate)]
    <3>1. DOMAIN lines = DOMAIN data.lineItems /\ DOMAIN subtotals = DOMAIN data.vatBreakdown
      BY <2>1 DEF Document
    <3>2. \A i \in DOMAIN data.lineItems :
            lines[i].quantity = data.lineItems[i].quantity
            /\ lines[i].price = data.lineItems[i].unitPrice
      BY <2>1 DEF Document
    <3>3. \A i \in DOMAIN data.vatBreakdown :
            subtotals[i].base = data.vatBreakdown[i].base
            /\ subtotals[i].percent = data.vatBreakdown[i].rate
      BY <2>1 DEF Document
    <3> HIDE DEF lines, subtotals
    <3> QED
      BY <3>1, <3>2, <3>3
  <2>3. /\ content.net = ToMinorUnits(data.netTotal)
        /\ content.tax = ToMinorUnits(data.vatTotal)
        /\ content.payable = ToMinorUnits(data.grossTotal)
    BY <2>1 DEF Document
  <2>4. GrossAgrees(data)
    BY <2>1, NoErrors DEF ValidateArithmetic, Unless
  <2>5. content.payable = content.net + content.tax
    BY <2>3, <2>4 DEF GrossAgrees
  <2>6. /\ SumsTo([i \in DOMAIN lines |-> Times(lines[i].quantity, lines[i].price)],
                  content.net)
        /\ SumsTo([i \in DOMAIN subtotals |->
                     Percent(subtotals[i].base, subtotals[i].percent)],
                  content.tax)
    BY <2>1, <2>2, <2>3, LinesSumToNet, BreakdownSumsToVat
  <2> HIDE DEF content
  <2> QED
    BY <2>5, <2>6 DEF TotalsReflectTheRows, content
<1> QED
  BY <1>1, DocumentInvariant, PTL

=============================================================================
