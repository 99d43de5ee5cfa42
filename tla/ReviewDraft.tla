---------------------------- MODULE ReviewDraft ----------------------------
(***************************************************************************)
(* What the review page itself finds in a draft, and what its confirmation *)
(* says (web lib/review/draft.ts, findings.ts, confirm-panel.tsx).         *)
(***************************************************************************)
EXTENDS ValidationRules, SequencesExt

Issue(path, code, blocking) == [path |-> path, code |-> code, blocking |-> blocking]

\* MIRRORED_RULE: the rule of the server that an issue anticipates.
MirroredRule ==
  [ibanChecksum |-> "format.iban_checksum",
   vatIdSyntax |-> "format.vat_id_syntax",
   vatIdPrefix |-> "format.vat_id_prefix",
   vatIdChecksum |-> "format.vat_id_checksum",
   germanPostalCode |-> "format.postal_code_de",
   emailFormat |-> "format.email",
   phoneFormat |-> "format.phone",
   bicFormat |-> "format.bic",
   leitwegIdChecksum |-> "format.leitweg_id_checksum",
   vatCategory |-> "mandatory.vat_category",
   vatCategoryBuyerVatId |-> "mandatory.vat_category_buyer_identity",
   vatCategorySellerVatId |-> "mandatory.vat_category_seller_vat_id"]

-----------------------------------------------------------------------------
(* draftIssues.                                                            *)

\* A field whose text is no decimal, date, code or position at all.
PatternFields ==
  {"netTotal", "vatTotal", "grossTotal", "issueDate", "dueDate", "deliveryDate", "currency",
   "countryCode", "position", "unitPrice", "netAmount", "quantity", "vatRate",
   "base", "amount", "rate"}

PatternIssues(draft) ==
  {Issue(path, "pattern", TRUE) :
     path \in {p \in Paths(draft) : FieldOf(p) \in PatternFields /\ At(draft, p) = Malformed}}

\* A numeral such as 1.234, whose point may have been meant for thousands.
LooksLikeThousands(value) ==
  /\ value \notin {Null, Malformed}
  /\ value.scale = 3
  /\ Abs(value.coefficient) < 1000000

UnitPricePaths(draft) == {"lineItems"} \X (DOMAIN draft.lineItems) \X {"unitPrice"}

SeparatorIssues(draft) ==
  {Issue(path, "thousandsSeparator", FALSE) :
     path \in {p \in MonetaryPaths(draft) \cup UnitPricePaths(draft) :
                 LooksLikeThousands(At(draft, p))}}

VatIdIssues(path, vatId) ==
  IF vatId \in {Null, Malformed}
  THEN {}
  ELSE Unless(VatIdHasValidSyntax(vatId), Issue(path, "vatIdSyntax", TRUE))
       \cup Unless(VatIdHasAllowedPrefix(vatId), Issue(path, "vatIdPrefix", TRUE))
       \cup Unless(IsGermanVatId(vatId) /\ VatIdHasValidSyntax(vatId)
                     => VatIdHasValidChecksum(vatId),
                   Issue(path, "vatIdChecksum", TRUE))

\* Only five characters are looked at, a shorter code is still being typed;
\* likewise for the texts below.
PartyIssues(name, party) ==
  VatIdIssues(<<name, "vatId">>, party.vatId)
  \cup Unless(~(party.countryCode = "DE" /\ party.postalCode = "letters"),
              Issue(<<name, "postalCode">>, "germanPostalCode", FALSE))
  \cup Unless(party.contactEmail # "at",
              Issue(<<name, "contactEmail">>, "emailFormat", FALSE))
  \cup Unless(party.contactPhone # "digits",
              Issue(<<name, "contactPhone">>, "phoneFormat", FALSE))

\* A bug: the page forgets that a missing category means S.
VatCategoryIssueUnlessChosen(path, entry) ==
  IF entry.rate \in {Null, Malformed}
  THEN {}
  ELSE Unless(IF entry.category = "S"
              THEN entry.rate.coefficient > 0
              ELSE entry.rate.coefficient = 0,
              Issue(path, "vatCategory", TRUE))

VatCategoryIssue(path, entry) ==
  IF entry.rate \in {Null, Malformed}
  THEN {}
  ELSE Unless(IF entry.category \in {Null, "S"}
              THEN entry.rate.coefficient > 0
              ELSE entry.rate.coefficient = 0,
              Issue(path, "vatCategory", TRUE))

DraftIssues(draft) ==
  PatternIssues(draft)
  \cup SeparatorIssues(draft)
  \cup Unless(draft.sellerIban # "checksum", Issue(<<"sellerIban">>, "ibanChecksum", FALSE))
  \cup Unless(draft.sellerBic # "wrong", Issue(<<"sellerBic">>, "bicFormat", FALSE))
  \cup Unless(draft.buyerReference # "checksum",
              Issue(<<"buyerReference">>, "leitwegIdChecksum", FALSE))
  \cup (UNION {PartyIssues(name, draft[name]) : name \in Parties})
  \cup (UNION {VatCategoryIssue(<<"vatBreakdown", i, "category">>, draft.vatBreakdown[i]) :
                i \in DOMAIN draft.vatBreakdown})
  \cup Unless(HasCategory(draft, {"K"}) => draft.seller.vatId # Null,
              Issue(<<"seller", "vatId">>, "vatCategorySellerVatId", TRUE))
  \cup Unless(HasCategory(draft, {"AE", "K"}) => draft.buyer.vatId # Null,
              Issue(<<"buyer", "vatId">>, "vatCategoryBuyerVatId", TRUE))

BlockingIssues(draft) == {issue \in DraftIssues(draft) : issue.blocking}

-----------------------------------------------------------------------------
(* What was changed, and which findings the changes may settle.            *)

\* A missing row counts as one without values.
Value(draft, path) == IF path \in Paths(draft) THEN At(draft, path) ELSE Null

DiffDraft(original, current) ==
  {path \in Paths(original) \cup Paths(current) :
     Value(original, path) # Value(current, path)}

\* The indexes of rows mean nothing any more once rows were added or removed.
DropStaleCollectionFindings(findings, restructured) ==
  {f \in findings : ~(Len(f.field) > 1 /\ f.field[1] \in restructured)}

BlockingFindings(findings) == Errors(findings)

\* A bug: only the very field counts.
IsTouchedExactly(field, changed) ==
  \/ field = <<"totals">> /\ changed \cap {<<"netTotal">>, <<"vatTotal">>, <<"grossTotal">>} # {}
  \/ field \in changed

\* A change touches the field of a finding, or a field inside it.
IsTouched(field, changed) ==
  \/ field = <<"totals">> /\ changed \cap {<<"netTotal">>, <<"vatTotal">>, <<"grossTotal">>} # {}
  \/ \E path \in changed : IsPrefix(field, path)

\* The findings that the confirmation says "will therefore remain".
Untouched(findings, changed) ==
  {f \in BlockingFindings(findings) : f.field = <<>> \/ ~IsTouched(f.field, changed)}

=============================================================================
