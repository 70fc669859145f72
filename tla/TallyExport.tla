---------------------------- MODULE TallyExport ----------------------------
(***************************************************************************)
(* From an object in Tally to a record: the reports of                     *)
(* tallysync_exports.tdl on one side, app/parser on the other.  Fields     *)
(* that are treated alike are one field here.                              *)
(*                                                                         *)
(* A text is the sequence of its tokens, as str.split gives them; the      *)
(* empty text is a field without a value.  An element is a record of the   *)
(* texts, and the lists, of its child tags.                                *)
(***************************************************************************)
EXTENDS Integers, SequencesExt, Dicts

CONSTANTS
    Objects,    \* what Tally may hold, see Fields
    Unit,       \* a unit of measure
    MaxBook     \* bound on the objects at a time

Years == 1969..2068

\* The fields the kinds of objects have; `year` and `due` are dates, 0 for
\* no date; `codes` are a ledger's and a company's GSTINs and an item's HSN
\* codes, "" where the registration has none.
Fields == [company |-> {"name", "year", "codes"},
           master  |-> {"name", "flag"},
           ledger  |-> {"name", "amount", "codes"},
           item    |-> {"name", "quantity", "rate", "amount", "codes"},
           voucher |-> {"type", "year", "due", "flag", "entries", "items"}]

\* A date may be missing where it is no key; the lines of a voucher may lack a
\* name.
Values == [kind |-> DOMAIN Fields, name |-> STRING, type |-> STRING, flag |-> BOOLEAN,
           year |-> Years, due |-> Years \cup {0}, codes |-> Seq(STRING),
           amount |-> Int, quantity |-> Int, rate |-> Int,
           entries |-> Seq([name : STRING, amount : Int]),
           items |-> Seq([name : STRING, quantity : Int, rate : Int])]

ASSUME ExportAssumption ==
    /\ Unit # "Dr" /\ MaxBook \in Nat
    /\ \A o \in Objects :
          /\ o.kind \in DOMAIN Fields /\ DOMAIN o = Fields[o.kind] \cup {"kind"}
          /\ \A field \in DOMAIN o : o[field] \in Values[field]

VARIABLES
    book,       \* what Tally holds, in the order it exports it
    report,     \* the report asked for, "" when none
    answer,     \* the elements of the answer
    position,   \* how many of them iter_collection_with_raw is past
    raw,        \* the bytes it has captured of the next one, if it has
    rows        \* what its caller has made of those yielded: record and raw bytes

vars == <<book, report, answer, position, raw, rows>>

Reports == {"CMP", "MST", "LED", "SITM", "VOC", "PO"}

Init ==
    /\ book = <<>> /\ report = "" /\ answer = <<>>
    /\ position = 0 /\ raw = <<>> /\ rows = <<>>

(***************************************************************************)
(* The texts.  Tally shows an amount with a sign or with Dr and Cr, a zero *)
(* or nothing for zero, and a date in one of its display formats.          *)
(***************************************************************************)

Forms == [suffix : BOOLEAN, blank : BOOLEAN, date : {"%d-%b-%y", "%d-%b-%Y", "YYYYMMDD"}]

Word(w) == [kind |-> "word", word |-> w]
Number(v) == [kind |-> "number", value |-> v]

NameText(n) == IF n = "" THEN <<>> ELSE <<Word(n)>>
FlagText(b) == <<Word(IF b THEN "Yes" ELSE "No")>>

\* "50000", "-25000"; "50000 Dr", "1800 Cr".
AmountText(v, form) ==
    IF v = 0 /\ form.blank THEN <<>>
    ELSE IF ~form.suffix THEN <<Number(v)>>
    ELSE IF v < 0 THEN <<Number(-v), Word("Dr")>>
    ELSE <<Number(v), Word("Cr")>>

\* "100 Nos"
QuantityText(v, form) == IF v = 0 /\ form.blank THEN <<>> ELSE <<Number(v), Word(Unit)>>

\* "100.00/Nos"
RateText(v, form) ==
    IF v = 0 /\ form.blank THEN <<>> ELSE <<[kind |-> "rate", value |-> v, unit |-> Unit]>>

\* "30-Jun-26", "30-Jun-2026", "20260630"
DateText(year, form) ==
    IF year = 0 THEN <<>>
    ELSE <<[kind |-> form.date, year |-> IF form.date = "%d-%b-%y" THEN year % 100 ELSE year]>>

(***************************************************************************)
(* The reports: the objects in each collection, the element of an object.  *)
(***************************************************************************)

OrderSelected(o) == o.kind = "voucher" /\ o.type = "Purchase Order"

\* The collections; TS_VOC_COLL has no filter: purchase orders are vouchers too.
Selected(r, o) ==
    CASE r = "CMP" -> o.kind = "company"
      [] r = "MST" -> o.kind = "master"
      [] r = "LED" -> o.kind = "ledger"
      [] r = "SITM" -> o.kind = "item"
      [] r = "VOC" -> o.kind = "voucher"
      [] r = "PO" -> OrderSelected(o)

Exported(r) == Among(book, {o \in Objects : Selected(r, o)})

CompanyElement(o, form) ==
    [NAME |-> NameText(o.name), BOOKSBEGINNINGFROM |-> DateText(o.year, form), GSTIN |-> <<>>,
     GSTDETAILS |-> [i \in DOMAIN o.codes |-> [GSTIN |-> NameText(o.codes[i])]]]

\* Units, stock groups, godowns and voucher types.
MasterElement(o, form) == [NAME |-> NameText(o.name), FLAG |-> FlagText(o.flag)]

LedgerElement(o, form) ==
    [NAME |-> NameText(o.name), OPENINGBALANCE |-> AmountText(o.amount, form), GSTIN |-> <<>>,
     LEDGSTREGDETAILS |-> [i \in DOMAIN o.codes |-> [GSTIN |-> NameText(o.codes[i])]]]

ItemElement(o, form) ==
    [NAME |-> NameText(o.name), HSNCODE |-> <<>>,
     OPENINGBALANCE |-> QuantityText(o.quantity, form),
     OPENINGRATE |-> RateText(o.rate, form), OPENINGVALUE |-> AmountText(o.amount, form),
     GSTDETAILS |-> [i \in DOMAIN o.codes |-> [HSNCODE |-> NameText(o.codes[i])]]]

VoucherElement(o, form) ==
    [VOUCHERTYPENAME |-> NameText(o.type), DATE |-> DateText(o.year, form),
     ISCANCELLED |-> FlagText(o.flag),
     ALLLEDGERENTRIES |-> [i \in DOMAIN o.entries |->
        [LEDGERNAME |-> NameText(o.entries[i].name),
         AMOUNT |-> AmountText(o.entries[i].amount, form)]],
     ALLINVENTORYENTRIES |-> [i \in DOMAIN o.items |->
        [STOCKITEMNAME |-> NameText(o.items[i].name),
         ACTUALQTY |-> QuantityText(o.items[i].quantity, form),
         RATE |-> RateText(o.items[i].rate, form)]]]

OrderElement(o, form) ==
    [DATE |-> DateText(o.year, form), ORDERDUEDATE |-> DateText(o.due, form),
     ISCANCELLED |-> FlagText(o.flag),
     ALLINVENTORYENTRIES |-> VoucherElement(o, form).ALLINVENTORYENTRIES]

Element(r, o, form) ==
    CASE r = "CMP" -> CompanyElement(o, form)
      [] r = "MST" -> MasterElement(o, form)
      [] r = "LED" -> LedgerElement(o, form)
      [] r = "SITM" -> ItemElement(o, form)
      [] r = "VOC" -> VoucherElement(o, form)
      [] r = "PO" -> OrderElement(o, form)

(***************************************************************************)
(* The field extractors of app/parser/base.py.                             *)
(***************************************************************************)

\* A tag that is not there has no text, and no list (elem.findall).
Text(elem, tag) == IF tag \in DOMAIN elem THEN elem[tag] ELSE <<>>

Name(elem, tag) == LET t == Text(elem, tag) IN IF t = <<>> THEN "" ELSE t[1].word

BoolYes(elem, tag) == Text(elem, tag) = <<Word("Yes")>>

\* The first token, negated when the second is Dr.
DecimalAmount(elem, tag) ==
    LET t == Text(elem, tag)
    IN  IF t = <<>> \/ t[1].kind # "number" THEN 0
        ELSE IF Len(t) > 1 /\ t[2] = Word("Dr") THEN -t[1].value
        ELSE t[1].value

Quantity(elem, tag) == DecimalAmount(elem, tag)

\* What is before the "/", which must be a number and nothing else.
Rate(elem, tag) ==
    LET t == Text(elem, tag)
    IN  IF t # <<>> /\ (t[1].kind = "rate" \/ (t[1].kind = "number" /\ Len(t) = 1))
        THEN t[1].value
        ELSE 0

\* strptime takes 69 to 99 for the years of the last century.
TallyDate(elem, tag) ==
    LET t == Text(elem, tag)
    IN  IF t = <<>> THEN 0
        ELSE IF t[1].kind # "%d-%b-%y" THEN t[1].year
        ELSE t[1].year + (IF t[1].year < 69 THEN 2000 ELSE 1900)

(***************************************************************************)
(* The parsers.                                                            *)
(***************************************************************************)

\* The first code in the sub-collection, or the flat field.
Code(elem, list, tag) ==
    LET details == Text(elem, list)
        given == SelectInSeq(details, LAMBDA detail : Text(detail, tag) # <<>>)
    IN  IF given = 0 THEN Name(elem, tag) ELSE Name(details[given], tag)

\* REMOTECMPNAME, the other name of a company, is never exported.
BuildCompany(elem) ==
    [name |-> Name(elem, "NAME"), year |-> TallyDate(elem, "BOOKSBEGINNINGFROM"),
     code |-> Code(elem, "GSTDETAILS", "GSTIN")]

BuildMaster(elem) == [name |-> Name(elem, "NAME"), flag |-> BoolYes(elem, "FLAG")]

BuildLedger(elem) ==
    [name |-> Name(elem, "NAME"), amount |-> DecimalAmount(elem, "OPENINGBALANCE"),
     code |-> Code(elem, "LEDGSTREGDETAILS", "GSTIN")]

BuildItem(elem) ==
    [name |-> Name(elem, "NAME"), quantity |-> Quantity(elem, "OPENINGBALANCE"),
     rate |-> Rate(elem, "OPENINGRATE"), amount |-> DecimalAmount(elem, "OPENINGVALUE"),
     code |-> Code(elem, "GSTDETAILS", "HSNCODE")]

\* The entries under both tags, without those that have no name.
Named(elem, tag, other, key) ==
    LET listed == Text(elem, tag) \o Text(elem, other)
    IN  Among(listed, {entry \in ToSet(listed) : Text(entry, key) # <<>>})

LedgerEntries(elem) ==
    LET es == Named(elem, "ALLLEDGERENTRIES", "LEDGERENTRIES", "LEDGERNAME")
    IN  [i \in DOMAIN es |-> [name |-> Name(es[i], "LEDGERNAME"),
                              amount |-> DecimalAmount(es[i], "AMOUNT")]]

ItemEntry(entry) ==
    [name |-> Name(entry, "STOCKITEMNAME"), quantity |-> Quantity(entry, "ACTUALQTY"),
     rate |-> Rate(entry, "RATE")]

\* Defective variant: both turns of the loop read the tag of TallyPrime 7.
InventoryEntries_Twice(elem) ==
    LET es == Named(elem, "ALLINVENTORYENTRIES", "ALLINVENTORYENTRIES", "STOCKITEMNAME")
    IN  [i \in DOMAIN es |-> ItemEntry(es[i])]

InventoryEntries(elem) ==
    LET es == Named(elem, "INVENTORYENTRIES", "ALLINVENTORYENTRIES", "STOCKITEMNAME")
    IN  [i \in DOMAIN es |-> ItemEntry(es[i])]

BuildVoucher(elem) ==
    [type |-> Name(elem, "VOUCHERTYPENAME"), year |-> TallyDate(elem, "DATE"),
     flag |-> BoolYes(elem, "ISCANCELLED"),
     entries |-> LedgerEntries(elem), items |-> InventoryEntries(elem)]

OrderItems(elem) ==
    LET es == Named(elem, "ALLINVENTORYENTRIES", "INVENTORYENTRIES", "STOCKITEMNAME")
    IN  [i \in DOMAIN es |-> ItemEntry(es[i])]

BuildOrder(elem) ==
    [year |-> TallyDate(elem, "DATE"), due |-> TallyDate(elem, "ORDERDUEDATE"),
     flag |-> BoolYes(elem, "ISCANCELLED"), items |-> OrderItems(elem)]

Build(r, elem) ==
    CASE r = "CMP" -> BuildCompany(elem)
      [] r = "MST" -> BuildMaster(elem)
      [] r = "LED" -> BuildLedger(elem)
      [] r = "SITM" -> BuildItem(elem)
      [] r = "VOC" -> BuildVoucher(elem)
      [] r = "PO" -> BuildOrder(elem)

(***************************************************************************)
(* The steps.                                                              *)
(***************************************************************************)

\* Tally's user enters an object.
Enter(o) ==
    /\ report = "" /\ Len(book) < MaxBook
    /\ book' = Append(book, o)
    /\ UNCHANGED <<report, answer, position, raw, rows>>

\* A request for a report, answered in the form Tally is configured for.
Ask(r, form) ==
    /\ report = ""
    /\ report' = r
    /\ answer' = LET objects == Exported(r)
                 IN  [i \in DOMAIN objects |-> Element(r, objects[i], form)]
    /\ UNCHANGED <<book, position, raw, rows>>

\* What elem.clear leaves.
Cleared == [tag \in {} |-> <<>>]

\* tostring(elem): with its tail, the white space up to the next element, if
\* that was in what the parser has been fed so far.
Serialised(elem, tail) == [element |-> elem, tail |-> tail]

\* A parser needs no tail.
Reparsed(bytes) == bytes.element

\* Defective variant: tostring after elem.clear().
Capture_AfterClear(tail) ==
    /\ raw = <<>> /\ position < Len(answer)
    /\ raw' = <<Serialised(Cleared, tail)>>
    /\ answer' = [answer EXCEPT ![position + 1] = Cleared]
    /\ UNCHANGED <<book, report, position, rows>>

\* Defective variant: the element is cleared before it is yielded.
Capture_ThenClear(tail) ==
    /\ raw = <<>> /\ position < Len(answer)
    /\ raw' = <<Serialised(answer[position + 1], tail)>>
    /\ answer' = [answer EXCEPT ![position + 1] = Cleared]
    /\ UNCHANGED <<book, report, position, rows>>

\* iter_collection_with_raw up to its yield.
Capture(tail) ==
    /\ raw = <<>> /\ position < Len(answer)
    /\ raw' = <<Serialised(answer[position + 1], tail)>>
    /\ UNCHANGED <<book, report, answer, position, rows>>

\* The parser that it has yielded to reads the element in the tree, and the
\* service puts the record and the bytes on its list.
Receive ==
    /\ raw # <<>> /\ Len(rows) = position
    /\ rows' = Append(rows, [record |-> Build(report, answer[position + 1]), raw |-> raw[1]])
    /\ UNCHANGED <<book, report, answer, position, raw>>

\* They ask for the next one: the generator goes on after its yield.
Resume ==
    /\ raw # <<>> /\ Len(rows) = position + 1
    /\ answer' = [answer EXCEPT ![position + 1] = Cleared]
    /\ position' = position + 1 /\ raw' = <<>>
    /\ UNCHANGED <<book, report, rows>>

\* The list is complete and goes to the service.
Done ==
    /\ report # "" /\ position = Len(answer)
    /\ report' = "" /\ answer' = <<>> /\ position' = 0 /\ rows' = <<>>
    /\ UNCHANGED <<book, raw>>

Next ==
    \/ \E o \in Objects : Enter(o)
    \/ \E r \in Reports, form \in Forms : Ask(r, form)
    \/ \E tail \in BOOLEAN : Capture(tail)
    \/ Receive
    \/ Resume
    \/ Done

Spec == Init /\ [][Next]_vars

(***************************************************************************)
(* Properties.                                                             *)
(***************************************************************************)

FirstCode(codes) ==
    LET given == SelectInSeq(codes, LAMBDA c : c # "")
    IN  IF given = 0 THEN "" ELSE codes[given]

Columns ==
    [CMP |-> {"name", "year", "code"}, MST |-> {"name", "flag"},
     LED |-> {"name", "amount", "code"}, SITM |-> {"name", "quantity", "rate", "amount", "code"},
     VOC |-> {"type", "year", "flag", "entries", "items"},
     PO |-> {"year", "due", "flag", "items"}]

NamedLines(lines) == Among(lines, {line \in ToSet(lines) : line.name # ""})

\* What the record of an object should say.
Meant(r, o) ==
    [c \in Columns[r] |->
        CASE c = "code" -> FirstCode(o.codes)
          [] c \in {"entries", "items"} -> NamedLines(o[c])
          [] OTHER -> o[c]]

\* The records are the objects the report is about, in order, each once,
\* every field with the sign and the century it has in Tally, whatever the
\* form of the export (app/parser/base.py:106-208).
RecordsAreTheObjects ==
    LET objects == Exported(report)
    IN  report # "" =>
            /\ Len(answer) = Len(objects) /\ Len(rows) \in {position, position + Len(raw)}
            /\ \A i \in DOMAIN rows : rows[i].record = Meant(report, objects[i])

\* The archived bytes of each record, parsed once more, give the object, though
\* its element in the tree is empty by then (app/parser/base.py:67-81, "archive
\* the original Tally XML verbatim").
RawReparses ==
    LET objects == Exported(report)
    IN  \A i \in DOMAIN rows : Build(report, Reparsed(rows[i].raw)) = Meant(report, objects[i])
=============================================================================
