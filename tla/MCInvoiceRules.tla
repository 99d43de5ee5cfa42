--------------------------- MODULE MCInvoiceRules ---------------------------
(* A finite instance of InvoiceRules for TLC.                               *)
EXTENDS InvoiceRules

GermanVatId == [form |-> "german", loose |-> FALSE]
ForeignVatId == [form |-> "foreign", loose |-> FALSE]

Party(vatId, countryCode) ==
  [name |-> "text", street |-> "text", city |-> "text", taxNumber |-> Null,
   postalCode |-> "five", countryCode |-> countryCode, vatId |-> vatId,
   electronicAddress |-> "text", electronicAddressScheme |-> "EM",
   contactName |-> "text", contactEmail |-> "email", contactPhone |-> "phone"]

Line(quantity, unitPrice, netAmount, vatRate) ==
  [position |-> 1, description |-> "text", unit |-> "Stk.", quantity |-> quantity,
   unitPrice |-> unitPrice, netAmount |-> netAmount, vatRate |-> vatRate,
   vatExemptionReason |-> Null]

Entry(rate, base, amount, category) ==
  [rate |-> rate, base |-> base, amount |-> amount, category |-> category,
   exemptionReason |-> Null]

Invoice(lines, entries, net, tax, gross) ==
  [invoiceNumber |-> "text", buyerReference |-> "leitweg", paymentTerms |-> "text",
   issueDate |-> 0, dueDate |-> 30, deliveryDate |-> -1,
   currency |-> "EUR", sellerIban |-> "iban", sellerBic |-> "bic",
   netTotal |-> net, vatTotal |-> tax, grossTotal |-> gross,
   seller |-> Party(GermanVatId, "DE"), buyer |-> Party(ForeignVatId, "FR"),
   lineItems |-> lines, vatBreakdown |-> entries]

Zero == Dec(0, 0)

\* 1 x 0.335 = 0.34 at 19 %: the tolerances of line and sum are used up.
Standard ==
  Invoice(<<Line(Dec(1, 0), Dec(335, 3), Dec(35, 2), Dec(19, 0))>>,
          <<Entry(Dec(190, 1), Dec(35, 2), Dec(7, 2), Null)>>,
          Dec(36, 2), Dec(7, 2), Dec(43, 2))

\* No rows at all, and a row without values: their lists fail as a whole.
Empty == [Standard EXCEPT !.lineItems = <<>>, !.vatBreakdown = <<>>]
Padded == AddLineItem(Standard)

\* Two rates, and a third of a cent more than the half.
TwoRates ==
  Invoice(<<Line(Dec(1, 0), Dec(335, 3), Dec(34, 2), Dec(19, 0)),
            Line(Dec(2, 0), Dec(50, 2), Dec(1, 0), Dec(70, 1))>>,
          <<Entry(Dec(19, 0), Dec(34, 2), Dec(6, 2), Null),
            Entry(Dec(7, 0), Dec(1, 0), Dec(7, 2), Null)>>,
          Dec(134, 2), Dec(13, 2), Dec(147, 2))

\* One zero-rated line under a category that a reviewer has chosen.
ZeroRated(category) ==
  Invoice(<<Line(Dec(1, 0), Dec(35, 2), Dec(35, 2), Dec(0, 1))>>,
          <<Entry(Zero, Dec(35, 2), Zero, category)>>,
          Dec(35, 2), Zero, Dec(35, 2))

\* A positive rate under such a category: the contract takes it, the page does not.
Taxed(category) ==
  [Standard EXCEPT !.vatBreakdown[1].category = category]

Amounts == {Null, Malformed, Zero, Dec(35, 2), Dec(37, 2), Dec(345, 3)}
Names == {Null, Malformed, "blank"}
Days == {Null, Malformed, Impossible, 1, 400}

MCInputs ==
  [f \in {"invoiceNumber", "paymentTerms", "name", "street", "city", "electronicAddress",
          "contactName", "description", "vatExemptionReason", "exemptionReason"} |->
     Names \cup {"text"}]
  @@ [taxNumber |-> {"text"},
      buyerReference |-> {Null, "blank", "checksum"},
      issueDate |-> Days, dueDate |-> {Null, Impossible}, deliveryDate |-> Days,
      currency |-> {Null, Malformed, "XXQ"},
      sellerIban |-> {Null, "checksum"}, sellerBic |-> {Null, "blank", "wrong"},
      netTotal |-> Amounts, vatTotal |-> {Null, Zero, Dec(6, 2), Dec(9, 2)},
      grossTotal |-> {Null, Dec(44, 2), Dec(45, 2), Dec(-1, 2), Dec(1000000000, 2)},
      postalCode |-> {Null, "blank", "letters"},
      countryCode |-> {Null, Malformed, "DE", "XX"},
      vatId |-> {Null, Malformed}
                \cup [form : {"german", "checksum", "short", "prefix", "blank"},
                      loose : {TRUE, FALSE}],
      electronicAddressScheme |-> {Null, "text"},
      contactEmail |-> {Null, "text", "at"}, contactPhone |-> {Null, "text", "digits"},
      position |-> {Null, Malformed, 2}, unit |-> {Null, "text"},
      quantity |-> {Null, Dec(10, 1), Dec(2, 0)}, unitPrice |-> {Null, Dec(334, 3)},
      netAmount |-> Amounts,
      vatRate |-> {Null, Malformed, Zero, Dec(190, 1), Dec(-19, 0)},
      rate |-> {Null, Malformed, Zero, Dec(0, 1), Dec(19, 0), Dec(5, 0)},
      base |-> {Null, Dec(36, 2), Dec(355, 3)}, amount |-> {Null, Zero, Dec(8, 2)},
      category |-> {Null, "S", "AE", "K", "E"}]

\* The invoices that differ from a given one in at most one field.
Deviations(data, inputs) ==
  {data}
  \cup (UNION {{Update(data, path, value) : value \in inputs[FieldOf(path)]} :
                path \in Paths(data)})

\* What data may lack, whatever the field, and the other inputs of some fields.
OrAbsent(fields) ==
  [f \in DOMAIN MCInputs |-> IF f \in fields THEN MCInputs[f] ELSE MCInputs[f] \cap {Null}]

\* An extraction misreads dates, identifiers and amounts.
Misread ==
  OrAbsent({"issueDate", "vatId", "netTotal", "grossTotal", "netAmount", "vatRate",
            "electronicAddress"})

\* A correction leaves behind what it entered about a VAT category.
Entered ==
  OrAbsent({"deliveryDate", "countryCode", "vatId", "vatRate", "rate", "category",
            "exemptionReason"})

Acceptable(invoices) == {data \in invoices : IsStored(data)}

MCExtracted ==
  Acceptable(Deviations(Standard, Misread))
  \cup {TwoRates, ZeroRated(Null), Empty, Padded}
MCCorrected ==
  Acceptable(Deviations(ZeroRated("K"), Entered))
  \cup {ZeroRated(c) : c \in {"AE", "E", "G", "Z"}}
  \cup {Taxed(c) : c \in {"AE", "K", "G"}}

=============================================================================
