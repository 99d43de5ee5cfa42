---------------------------- MODULE InvoiceData ----------------------------
(***************************************************************************)
(* What an invoice says (contracts/invoice-data-definition.ts) and how a   *)
(* reviewer edits it (web lib/review/raw-data.ts).  A text is one of a few *)
(* classes that the rules tell apart; a decimal is its coefficient and     *)
(* scale, a date the day counted from the day of validation.  Wire data    *)
(* and drafts have the same shape: a draft may hold values that the schema *)
(* refuses, and numbers a draft keeps as text are here the number.         *)
(***************************************************************************)
EXTENDS Money, Sequences

CONSTANTS Null,         \* no value
          Malformed,    \* text its schema refuses: syntax, length, characters
          Impossible    \* a date such as 2026-02-30

Parties == {"seller", "buyer"}
VatCategories == {"S", "AE", "K", "G", "E", "Z"}

\* "blank" is text that trims to nothing.
Texts == {Null, Malformed, "blank", "text"}
Decimals == {Null, Malformed} \cup Decimal
Dates == {Null, Malformed, Impossible} \cup Int

\* "checksum" is a German number with a wrong check digit, "short" one of a
\* wrong shape; a loose one is written in lower case.
WrittenVatIds ==
  [form : {"german", "checksum", "short", "foreign", "prefix", "blank"}, loose : BOOLEAN]
VatIds == {Null, Malformed} \cup WrittenVatIds

PartyType ==
  [name : Texts, street : Texts, city : Texts, taxNumber : Texts,
   postalCode : Texts \cup {"five", "letters"},
   countryCode : {Null, Malformed, "DE", "FR", "XX"},
   vatId : VatIds,
   electronicAddress : Texts,
   electronicAddressScheme : Texts \cup {"EM"},
   contactName : Texts,
   contactEmail : Texts \cup {"email", "at"},
   contactPhone : Texts \cup {"phone", "digits"}]

LineItemType ==
  [position : {Null, Malformed} \cup Nat, description : Texts, unit : Texts \cup {"Stk."},
   quantity : Decimals, unitPrice : Decimals, netAmount : Decimals, vatRate : Decimals,
   vatExemptionReason : Texts]

VatBreakdownType ==
  [rate : Decimals, base : Decimals, amount : Decimals,
   category : VatCategories \cup {Null}, exemptionReason : Texts]

InvoiceType ==
  [invoiceNumber : Texts, buyerReference : Texts \cup {"leitweg", "checksum"},
   paymentTerms : Texts,
   issueDate : Dates, dueDate : Dates, deliveryDate : Dates,
   currency : {Null, Malformed, "EUR", "XXQ"},
   sellerIban : Texts \cup {"iban", "checksum"},
   sellerBic : Texts \cup {"bic", "wrong"},
   netTotal : Decimals, vatTotal : Decimals, grossTotal : Decimals,
   seller : PartyType, buyer : PartyType,
   lineItems : Seq(LineItemType), vatBreakdown : Seq(VatBreakdownType)]

\* What stands for no value is none.
TextClasses ==
  {"blank", "text", "five", "letters", "EM", "email", "at", "phone", "digits", "leitweg",
   "checksum", "EUR", "XXQ", "iban", "bic", "wrong", "Stk.", "DE", "FR", "XX"}

ASSUME DataAssumption ==
  \A nothing \in {Null, Malformed} :
    nothing \notin TextClasses /\ nothing \notin WrittenVatIds /\ nothing \notin InvoiceType

\* What a field may hold, by its name; no two fields share one.
FitsField(f, value) ==
  /\ f = "position" => value \in {Null, Malformed} \cup Nat
  /\ f = "unit" => value \in Texts \cup {"Stk."}
  /\ f = "buyerReference" => value \in Texts \cup {"leitweg", "checksum"}
  /\ f = "currency" => value \in {Null, Malformed, "EUR", "XXQ"}
  /\ f = "sellerIban" => value \in Texts \cup {"iban", "checksum"}
  /\ f = "sellerBic" => value \in Texts \cup {"bic", "wrong"}
  /\ f = "postalCode" => value \in Texts \cup {"five", "letters"}
  /\ f = "countryCode" => value \in {Null, Malformed, "DE", "FR", "XX"}
  /\ f = "vatId" => value \in VatIds
  /\ f = "electronicAddressScheme" => value \in Texts \cup {"EM"}
  /\ f = "contactEmail" => value \in Texts \cup {"email", "at"}
  /\ f = "contactPhone" => value \in Texts \cup {"phone", "digits"}
  /\ f = "category" => value \in VatCategories \cup {Null}
  /\ f \in {"issueDate", "dueDate", "deliveryDate"} => value \in Dates
  /\ f \in {"netTotal", "vatTotal", "grossTotal", "quantity", "unitPrice", "netAmount",
            "vatRate", "rate", "base", "amount"} => value \in Decimals
  /\ f \in {"invoiceNumber", "paymentTerms", "name", "street", "city", "taxNumber",
            "electronicAddress", "contactName", "description", "vatExemptionReason",
            "exemptionReason"} => value \in Texts

TopLevelFields ==
  {"invoiceNumber", "buyerReference", "paymentTerms", "issueDate", "dueDate",
   "deliveryDate", "currency", "sellerIban", "sellerBic",
   "netTotal", "vatTotal", "grossTotal"}
PartyFields ==
  {"name", "street", "city", "taxNumber", "postalCode", "countryCode", "vatId",
   "electronicAddress", "electronicAddressScheme",
   "contactName", "contactEmail", "contactPhone"}
LineItemFields ==
  {"position", "description", "unit", "quantity", "unitPrice", "netAmount",
   "vatRate", "vatExemptionReason"}
VatBreakdownFields == {"rate", "base", "amount", "category", "exemptionReason"}

-----------------------------------------------------------------------------
(* Field paths, such as <<"lineItems", 1, "unit">>.                        *)

Paths(data) ==
  {<<f>> : f \in TopLevelFields}
  \cup (Parties \X PartyFields)
  \cup ({"lineItems"} \X (DOMAIN data.lineItems) \X LineItemFields)
  \cup ({"vatBreakdown"} \X (DOMAIN data.vatBreakdown) \X VatBreakdownFields)

At(data, path) ==
  CASE Len(path) = 1 -> data[path[1]]
    [] Len(path) = 2 -> data[path[1]][path[2]]
    [] Len(path) = 3 -> data[path[1]][path[2]][path[3]]

\* The last element of a path names its field.
FieldOf(path) == path[Len(path)]

Update(data, path, value) ==
  CASE Len(path) = 1 -> [data EXCEPT ![path[1]] = value]
    [] Len(path) = 2 -> [data EXCEPT ![path[1]][path[2]] = value]
    [] Len(path) = 3 -> [data EXCEPT ![path[1]][path[2]][path[3]] = value]

EmptyLineItem == [f \in LineItemFields |-> Null]
EmptyVatBreakdown == [f \in VatBreakdownFields |-> Null]

Without(list, index) ==
  SubSeq(list, 1, index - 1) \o SubSeq(list, index + 1, Len(list))

AddLineItem(data) == [data EXCEPT !.lineItems = Append(@, EmptyLineItem)]
RemoveLineItem(data, index) == [data EXCEPT !.lineItems = Without(@, index)]
AddVatBreakdown(data) == [data EXCEPT !.vatBreakdown = Append(@, EmptyVatBreakdown)]
RemoveVatBreakdown(data, index) == [data EXCEPT !.vatBreakdown = Without(@, index)]

-----------------------------------------------------------------------------
(* The schema.  It accepts data in which nothing is malformed, and writes  *)
(* VAT IDs in upper case without spaces.                                   *)

SchemaAccepts(data) == \A path \in Paths(data) : At(data, path) # Malformed

NormalizeVatId(vatId) ==
  IF vatId = Null THEN Null ELSE [vatId EXCEPT !.loose = FALSE]

\* A bug: the schema keeps VAT IDs as they were typed.
ParseVerbatim(data) == data

Parse(data) ==
  [data EXCEPT !.seller.vatId = NormalizeVatId(@),
               !.buyer.vatId = NormalizeVatId(@)]

IsPresent(text) == text # Null /\ text # "blank"
VatIdIsPresent(vatId) == vatId # Null /\ vatId.form # "blank"

-----------------------------------------------------------------------------
(* contracts/vat-id.ts and checksums.ts, on classes.  All of them          *)
(* normalise first.                                                        *)

VatIdHasValidSyntax(vatId) == vatId.form \notin {"short", "blank"}
VatIdHasAllowedPrefix(vatId) == vatId.form \notin {"prefix", "blank"}
VatIdHasValidChecksum(vatId) == vatId.form = "german"
IsGermanVatId(vatId) == vatId.form \in {"german", "checksum", "short"}

=============================================================================
