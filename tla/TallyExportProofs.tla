------------------------- MODULE TallyExportProofs -------------------------
(***************************************************************************)
(* Every record is its object and the archived bytes give the object once  *)
(* more, for any objects, any number of lines and codes, and a report of   *)
(* any length: RecordsMeanObjects and RawGivesObject.                      *)
(*                                                                         *)
(* Extractors: each field extractor takes back what the report made of a   *)
(* value, whatever the form.  Builders: so does each parser.  Steps: the   *)
(* answer is the elements not parsed yet, after the cleared ones.          *)
(***************************************************************************)
EXTENDS TallyExport, LoopTheorems

(***************************************************************************)
(* Extractors.                                                             *)
(***************************************************************************)

\* Only the text of no name is empty.
LEMMA NameGiven ==
    ASSUME NEW n
    PROVE  n = "" <=> NameText(n) = <<>>
<1>1. <<Word(n)>> # <<>> OBVIOUS
<1> QED BY <1>1 DEF NameText

LEMMA NameBack ==
    ASSUME NEW n, NEW elem, NEW tag, Text(elem, tag) = NameText(n)
    PROVE  Name(elem, tag) = n
<1>1. CASE n = "" BY <1>1 DEF Name, NameText
<1>2. CASE n # ""
  <2>1. Text(elem, tag) = <<Word(n)>> BY <1>2 DEF NameText
  <2>2. <<Word(n)>> # <<>> /\ <<Word(n)>>[1] = Word(n) OBVIOUS
  <2>3. Word(n).word = n BY DEF Word
  <2> QED BY <1>2, <2>1, <2>2, <2>3 DEF Name
<1> QED BY <1>1, <1>2

LEMMA FlagBack ==
    ASSUME NEW b \in BOOLEAN, NEW elem, NEW tag, Text(elem, tag) = FlagText(b)
    PROVE  BoolYes(elem, tag) = b
BY DEF BoolYes, FlagText, Word

LEMMA AmountBack ==
    ASSUME NEW v \in Int, NEW form \in Forms, NEW elem, NEW tag,
           Text(elem, tag) = AmountText(v, form)
    PROVE  DecimalAmount(elem, tag) = v
<1>1. CASE v = 0 /\ form.blank
  BY <1>1 DEF DecimalAmount, AmountText
<1>2. CASE ~ (v = 0 /\ form.blank) /\ form.suffix /\ v < 0
  BY <1>2 DEF DecimalAmount, AmountText, Number, Word
<1>3. CASE ~ (v = 0 /\ form.blank) /\ form.suffix /\ v >= 0
  BY <1>3 DEF DecimalAmount, AmountText, Number, Word
<1>4. CASE ~ (v = 0 /\ form.blank) /\ ~form.suffix
  BY <1>4 DEF DecimalAmount, AmountText, Number
<1> QED BY <1>1, <1>2, <1>3, <1>4

LEMMA QuantityBack ==
    ASSUME NEW v \in Int, NEW form \in Forms, NEW elem, NEW tag,
           Text(elem, tag) = QuantityText(v, form)
    PROVE  Quantity(elem, tag) = v
<1>1. CASE v = 0 /\ form.blank
  BY <1>1 DEF Quantity, DecimalAmount, QuantityText
<1>2. CASE ~ (v = 0 /\ form.blank)
  BY <1>2, ExportAssumption DEF Quantity, DecimalAmount, QuantityText, Number, Word
<1> QED BY <1>1, <1>2

LEMMA RateBack ==
    ASSUME NEW v \in Int, NEW form \in Forms, NEW elem, NEW tag,
           Text(elem, tag) = RateText(v, form)
    PROVE  Rate(elem, tag) = v
BY DEF Rate, RateText

\* Two digits are enough for the years the parser can be given.
LEMMA DateBack ==
    ASSUME NEW year \in Years \cup {0}, NEW form \in Forms, NEW elem, NEW tag,
           Text(elem, tag) = DateText(year, form)
    PROVE  TallyDate(elem, tag) = year
<1>1. CASE year = 0 BY <1>1 DEF TallyDate, DateText
<1>2. CASE year # 0 /\ form.date = "%d-%b-%y"
  <2>1. year \in 1969..2068 BY <1>2 DEF Years
  <2>2. year % 100 = IF year < 2000 THEN year - 1900 ELSE year - 2000 BY <2>1
  <2>3. TallyDate(elem, tag) = (year % 100) + (IF year % 100 < 69 THEN 2000 ELSE 1900)
    BY <1>2 DEF TallyDate, DateText
  <2> QED BY <2>1, <2>2, <2>3
<1>3. CASE year # 0 /\ form.date # "%d-%b-%y" BY <1>3 DEF TallyDate, DateText
<1> QED BY <1>1, <1>2, <1>3

IsList(s, n) == s = [i \in 1..n |-> s[i]]

LEMMA SeqOfItself ==
    ASSUME NEW n \in Nat, NEW s, IsList(s, n)
    PROVE  s \in Seq(ToSet(s)) /\ Len(s) = n
<1>1. DOMAIN s = 1..n
  <2>1. DOMAIN [i \in 1..n |-> s[i]] = 1..n OBVIOUS
  <2> QED BY <2>1 DEF IsList
<1>2. \A i \in 1..n : s[i] \in ToSet(s) BY <1>1 DEF ToSet
<1>3. s \in [1..n -> ToSet(s)] BY <1>2 DEF IsList
<1> QED BY <1>1, <1>3

LEMMA CodeBack ==
    ASSUME NEW codes \in Seq(STRING), NEW elem, NEW list, NEW tag, Text(elem, tag) = <<>>,
           Text(elem, list) \in Seq(ToSet(Text(elem, list))),
           Len(Text(elem, list)) = Len(codes),
           \A i \in 1..Len(codes) : Text(Text(elem, list)[i], tag) = NameText(codes[i])
    PROVE  Code(elem, list, tag) = FirstCode(codes)
<1> DEFINE details == Text(elem, list)
           Given == {i \in 1..Len(codes) : codes[i] # ""}
           first == IF Given # {} THEN Min(Given) ELSE 0
<1>1. {i \in 1..Len(details) : Text(details[i], tag) # <<>>} = Given
  <2>1. ASSUME NEW i \in 1..Len(codes) PROVE codes[i] # "" <=> Text(details[i], tag) # <<>>
    <3>1. Text(details[i], tag) = NameText(codes[i]) OBVIOUS
    <3> HIDE DEF details
    <3> QED BY <3>1, NameGiven
  <2> QED BY <2>1
<1>2. SelectInSeq(codes, LAMBDA c : c # "") = first BY DEF SelectInSeq
<1>3. SelectInSeq(details, LAMBDA d : Text(d, tag) # <<>>) = first BY <1>1 DEF SelectInSeq
<1>4. Name(elem, tag) = "" BY DEF Name
<1>5. ASSUME Given # {} PROVE first \in 1..Len(codes)
  <2>1. Given \subseteq 1..Len(codes) /\ Given \in SUBSET Nat
    <3>1. 1..Len(codes) \subseteq Nat OBVIOUS
    <3> QED BY <3>1
  <2> HIDE DEF Given
  <2>2. \E m \in Given : \A n \in Given : m <= n BY <1>5, <2>1, Smallest
  <2>3. Min(Given) \in Given BY <2>2 DEF Min
  <2> QED BY <1>5, <2>1, <2>3
<1>6. CASE Given = {}
  BY <1>2, <1>3, <1>4, <1>6 DEF Code, FirstCode
<1>7. CASE Given # {}
  <2>1. Name(details[first], tag) = codes[first] BY <1>5, <1>7, NameBack
  <2>2. first # 0
    <3> HIDE DEF first, Given
    <3>1. first \in 1..Len(codes) BY <1>5, <1>7
    <3> QED BY <3>1
  <2> HIDE DEF first
  <2> QED BY <1>2, <1>3, <2>1, <2>2 DEF Code, FirstCode
<1> QED BY <1>6, <1>7

(***************************************************************************)
(* Builders.                                                               *)
(***************************************************************************)

\* t is the elements of the lines, and f what the parser makes of an element.
Reads(f, t, lines, key) ==
    /\ t = [i \in 1..Len(lines) |-> t[i]] /\ f = [e \in ToSet(t) |-> f[e]]
    /\ \A i \in 1..Len(lines) :
          f[t[i]] = lines[i] /\ Text(t[i], key) = NameText(lines[i].name)

\* t is what the element has under the two tags.
Lists(elem, tag, other, t) ==
    \/ Text(elem, tag) = t /\ Text(elem, other) = <<>>
    \/ Text(elem, tag) = <<>> /\ Text(elem, other) = t

Gives(f, t, es, lines) ==
    (\A i \in DOMAIN es : es[i] \in ToSet(t)) /\ Mapped(f, es) = NamedLines(lines)

LEMMA NamedBack ==
    ASSUME NEW R, NEW lines \in Seq(R), NEW t, NEW f, NEW elem, NEW tag, NEW other, NEW key,
           Reads(f, t, lines, key), Lists(elem, tag, other, t)
    PROVE  Gives(f, t, Named(elem, tag, other, key), lines)
<1> DEFINE S == {line \in ToSet(lines) : line.name # ""}
           T == {entry \in ToSet(t) : Text(entry, key) # <<>>}
           Q == ToSet(t)
<1>1. /\ t = [i \in 1..Len(lines) |-> t[i]] /\ Len(lines) \in Nat /\ DOMAIN t = 1..Len(lines)
      /\ f = [e \in ToSet(t) |-> f[e]]
      /\ \A i \in 1..Len(lines) :
            f[t[i]] = lines[i] /\ Text(t[i], key) = NameText(lines[i].name)
  <2>1. t = [i \in 1..Len(lines) |-> t[i]] BY DEF Reads
  <2>2. DOMAIN t = 1..Len(lines) /\ Len(lines) \in Nat
    <3>1. DOMAIN [i \in 1..Len(lines) |-> t[i]] = 1..Len(lines) OBVIOUS
    <3> QED BY <2>1, <3>1
  <2> QED BY <2>1, <2>2 DEF Reads
<1>2. t \in Seq(Q) /\ Len(t) = Len(lines)
  <2>1. \A i \in 1..Len(lines) : t[i] \in Q BY <1>1 DEF ToSet
  <2>2. t \in [1..Len(lines) -> Q] BY <1>1, <2>1
  <2> HIDE DEF Q
  <2> QED BY <1>1, <2>2
<1>3. Named(elem, tag, other, key) = Among(t, T)
  <2>1. Text(elem, tag) \o Text(elem, other) = t
    <3> HIDE DEF Q
    <3>1. t \o <<>> = t /\ <<>> \o t = t BY <1>2
    <3> QED BY <3>1 DEF Lists
  <2> QED BY <2>1 DEF Named
<1>4. ASSUME NEW i \in 1..Len(lines) PROVE f[t[i]] = lines[i] /\ (lines[i] \in S <=> t[i] \in T)
  <2>1. lines[i] \in ToSet(lines) /\ t[i] \in ToSet(t) BY <1>1 DEF ToSet
  <2>2. lines[i].name = "" <=> Text(t[i], key) = <<>>
    <3>1. Text(t[i], key) = NameText(lines[i].name) BY <1>1
    <3> QED BY <3>1, NameGiven
  <2> QED BY <1>1, <2>1, <2>2
<1>5. f \in [Q -> R]
  <2>1. ASSUME NEW e \in Q PROVE f[e] \in R
    <3>1. PICK i \in 1..Len(lines) : e = t[i] BY <1>1 DEF ToSet
    <3>2. lines[i] \in R OBVIOUS
    <3>3. f[t[i]] = lines[i] BY <1>1
    <3> QED BY <3>1, <3>2, <3>3
  <2> HIDE DEF Q
  <2>2. f = [e \in Q |-> f[e]] BY <1>1 DEF Q
  <2> QED BY <2>1, <2>2
<1> HIDE DEF S, T, Q
<1>6. Among(lines, S) = Mapped(f, Among(t, T))
  <2>1. Takes(f, t, T, lines, S) BY <1>4 DEF Takes
  <2> QED BY <1>2, <1>5, <2>1, AmongMapped
<1>7. Among(t, T) \in Seq(Q) BY <1>2, AmongIs
<1>8. \A i \in DOMAIN Among(t, T) : Among(t, T)[i] \in Q BY <1>7
<1> QED BY <1>3, <1>6, <1>8 DEF Gives, NamedLines, S, Q

Entries == [name : STRING, amount : Int]

EntryElement(e, form) ==
    [LEDGERNAME |-> NameText(e.name), AMOUNT |-> AmountText(e.amount, form)]

LEMMA EntriesBack ==
    ASSUME NEW lines \in Seq(Entries), NEW form \in Forms, NEW elem,
           Text(elem, "ALLLEDGERENTRIES") =
               [i \in 1..Len(lines) |-> EntryElement(lines[i], form)],
           Text(elem, "LEDGERENTRIES") = <<>>
    PROVE  LedgerEntries(elem) = NamedLines(lines)
<1> DEFINE t == [i \in 1..Len(lines) |-> EntryElement(lines[i], form)]
           f == [e \in ToSet(t) |-> [name |-> Name(e, "LEDGERNAME"),
                                     amount |-> DecimalAmount(e, "AMOUNT")]]
           es == Named(elem, "ALLLEDGERENTRIES", "LEDGERENTRIES", "LEDGERNAME")
<1>1. ASSUME NEW i \in 1..Len(lines)
      PROVE  f[t[i]] = lines[i] /\ Text(t[i], "LEDGERNAME") = NameText(lines[i].name)
  <2>1. t[i] = EntryElement(lines[i], form) OBVIOUS
  <2>2. t[i] \in ToSet(t) BY DEF ToSet
  <2> HIDE DEF t
  <2>3. /\ Text(t[i], "LEDGERNAME") = NameText(lines[i].name)
        /\ Text(t[i], "AMOUNT") = AmountText(lines[i].amount, form)
    BY <2>1 DEF Text, EntryElement
  <2>4. lines[i] \in Entries OBVIOUS
  <2>5. Name(t[i], "LEDGERNAME") = lines[i].name BY <2>3, NameBack
  <2>6. DecimalAmount(t[i], "AMOUNT") = lines[i].amount BY <2>3, <2>4, AmountBack DEF Entries
  <2>7. f[t[i]] = [name |-> lines[i].name, amount |-> lines[i].amount] BY <2>2, <2>5, <2>6
  <2> QED BY <2>3, <2>4, <2>7 DEF Entries
<1>2. t = [i \in 1..Len(lines) |-> t[i]] /\ Text(elem, "ALLLEDGERENTRIES") = t OBVIOUS
<1> HIDE DEF t
<1>3. f = [e \in ToSet(t) |-> f[e]] OBVIOUS
<1>4. Gives(f, t, es, lines)
  <2> HIDE DEF f
  <2>1. Reads(f, t, lines, "LEDGERNAME") BY <1>1, <1>2, <1>3 DEF Reads
  <2>2. Lists(elem, "ALLLEDGERENTRIES", "LEDGERENTRIES", t) BY <1>2 DEF Lists
  <2> QED BY <2>1, <2>2, NamedBack
<1>5. LedgerEntries(elem) = Mapped(f, es) BY <1>4 DEF LedgerEntries, Mapped, Gives
<1> QED BY <1>4, <1>5 DEF Gives

ItemLines == [name : STRING, quantity : Int, rate : Int]

LineElement(line, form) ==
    [STOCKITEMNAME |-> NameText(line.name), ACTUALQTY |-> QuantityText(line.quantity, form),
     RATE |-> RateText(line.rate, form)]

ItemEntries(es) == [i \in DOMAIN es |-> ItemEntry(es[i])]

LEMMA ItemsBack ==
    ASSUME NEW lines \in Seq(ItemLines), NEW form \in Forms, NEW elem, NEW tag, NEW other,
           Lists(elem, tag, other, [i \in 1..Len(lines) |-> LineElement(lines[i], form)])
    PROVE  ItemEntries(Named(elem, tag, other, "STOCKITEMNAME")) = NamedLines(lines)
<1> DEFINE t == [i \in 1..Len(lines) |-> LineElement(lines[i], form)]
           f == [e \in ToSet(t) |-> ItemEntry(e)]
           es == Named(elem, tag, other, "STOCKITEMNAME")
<1>1. ASSUME NEW i \in 1..Len(lines)
      PROVE  f[t[i]] = lines[i] /\ Text(t[i], "STOCKITEMNAME") = NameText(lines[i].name)
  <2>1. t[i] = LineElement(lines[i], form) OBVIOUS
  <2>2. t[i] \in ToSet(t) BY DEF ToSet
  <2> HIDE DEF t
  <2>3. /\ Text(t[i], "STOCKITEMNAME") = NameText(lines[i].name)
        /\ Text(t[i], "ACTUALQTY") = QuantityText(lines[i].quantity, form)
        /\ Text(t[i], "RATE") = RateText(lines[i].rate, form)
    BY <2>1 DEF Text, LineElement
  <2>4. lines[i] \in ItemLines OBVIOUS
  <2>5. Name(t[i], "STOCKITEMNAME") = lines[i].name BY <2>3, NameBack
  <2>6. Quantity(t[i], "ACTUALQTY") = lines[i].quantity
    BY <2>3, <2>4, QuantityBack DEF ItemLines
  <2>7. Rate(t[i], "RATE") = lines[i].rate BY <2>3, <2>4, RateBack DEF ItemLines
  <2>8. f[t[i]] = [name |-> lines[i].name, quantity |-> lines[i].quantity,
                   rate |-> lines[i].rate]
    BY <2>2, <2>5, <2>6, <2>7 DEF ItemEntry
  <2> QED BY <2>3, <2>4, <2>8 DEF ItemLines
<1>2. t = [i \in 1..Len(lines) |-> t[i]] /\ Lists(elem, tag, other, t) OBVIOUS
<1> HIDE DEF t
<1>3. f = [e \in ToSet(t) |-> f[e]] OBVIOUS
<1>4. Gives(f, t, es, lines)
  <2> HIDE DEF f
  <2>1. Reads(f, t, lines, "STOCKITEMNAME") BY <1>1, <1>2, <1>3 DEF Reads
  <2> QED BY <1>2, <2>1, NamedBack
<1>5. ItemEntries(es) = Mapped(f, es) BY <1>4 DEF ItemEntries, Mapped, Gives
<1> QED BY <1>4, <1>5 DEF Gives

\* What an object has, by its kind.
LEMMA ObjectHas ==
    ASSUME NEW o \in Objects
    PROVE  /\ o.kind = "company" => o.year \in Years /\ o.codes \in Seq(STRING)
           /\ o.kind = "master" => o.flag \in BOOLEAN
           /\ o.kind = "ledger" => o.amount \in Int /\ o.codes \in Seq(STRING)
           /\ o.kind = "item" => /\ o.quantity \in Int /\ o.rate \in Int /\ o.amount \in Int
                                 /\ o.codes \in Seq(STRING)
           /\ o.kind = "voucher" => /\ o.year \in Years /\ o.due \in Years \cup {0}
                                    /\ o.flag \in BOOLEAN /\ o.entries \in Seq(Entries)
                                    /\ o.items \in Seq(ItemLines)
<1>1. \A field \in DOMAIN o : o[field] \in Values[field] BY ExportAssumption
<1>2. DOMAIN o = Fields[o.kind] \cup {"kind"} BY ExportAssumption
<1>3. CASE o.kind = "company"
  <2>1. "year" \in DOMAIN o /\ "codes" \in DOMAIN o BY <1>2, <1>3 DEF Fields
  <2>2. o["year"] \in Values["year"] /\ o["codes"] \in Values["codes"] BY <1>1, <2>1
  <2> QED BY <1>3, <2>2 DEF Values
<1>4. CASE o.kind = "master"
  <2>1. "flag" \in DOMAIN o BY <1>2, <1>4 DEF Fields
  <2>2. o["flag"] \in Values["flag"] BY <1>1, <2>1
  <2> QED BY <1>4, <2>2 DEF Values
<1>5. CASE o.kind = "ledger"
  <2>1. "amount" \in DOMAIN o /\ "codes" \in DOMAIN o BY <1>2, <1>5 DEF Fields
  <2>2. o["amount"] \in Values["amount"] /\ o["codes"] \in Values["codes"] BY <1>1, <2>1
  <2> QED BY <1>5, <2>2 DEF Values
<1>6. CASE o.kind = "item"
  <2>1. {"quantity", "rate", "amount", "codes"} \subseteq DOMAIN o BY <1>2, <1>6 DEF Fields
  <2>2. /\ o["quantity"] \in Values["quantity"] /\ o["rate"] \in Values["rate"]
        /\ o["amount"] \in Values["amount"] /\ o["codes"] \in Values["codes"]
    BY <1>1, <2>1
  <2> QED BY <1>6, <2>2 DEF Values
<1>7. CASE o.kind = "voucher"
  <2>1. {"year", "due", "flag", "entries", "items"} \subseteq DOMAIN o
    BY <1>2, <1>7 DEF Fields
  <2>2. /\ o["year"] \in Values["year"] /\ o["due"] \in Values["due"]
        /\ o["flag"] \in Values["flag"] /\ o["entries"] \in Values["entries"]
        /\ o["items"] \in Values["items"]
    BY <1>1, <2>1
  <2> QED BY <1>7, <2>2 DEF Values, Entries, ItemLines
<1>8. o.kind \in {"company", "master", "ledger", "item", "voucher"}
  BY ExportAssumption DEF Fields
<1> QED BY <1>3, <1>4, <1>5, <1>6, <1>7, <1>8

LEMMA CompanyBack ==
    ASSUME NEW o \in Objects, o.kind = "company", NEW form \in Forms
    PROVE  BuildCompany(CompanyElement(o, form)) = Meant("CMP", o)
<1> DEFINE elem == CompanyElement(o, form)
           details == [i \in DOMAIN o.codes |-> [GSTIN |-> NameText(o.codes[i])]]
<1>1. o.year \in Years \cup {0} /\ o.codes \in Seq(STRING) BY ObjectHas
<1>2. /\ Text(elem, "NAME") = NameText(o.name) /\ Text(elem, "GSTIN") = <<>>
      /\ Text(elem, "BOOKSBEGINNINGFROM") = DateText(o.year, form)
      /\ Text(elem, "GSTDETAILS") = details
  BY DEF Text, CompanyElement
<1>3. /\ details \in Seq(ToSet(details)) /\ Len(details) = Len(o.codes)
      /\ \A i \in 1..Len(o.codes) : Text(details[i], "GSTIN") = NameText(o.codes[i])
  <2>1. DOMAIN o.codes = 1..Len(o.codes) /\ Len(o.codes) \in Nat BY <1>1
  <2>2. \A i \in 1..Len(o.codes) : details[i] = [GSTIN |-> NameText(o.codes[i])] BY <2>1
  <2>3. IsList(details, Len(o.codes)) BY <2>1 DEF IsList
  <2> HIDE DEF details
  <2>4. details \in Seq(ToSet(details)) /\ Len(details) = Len(o.codes)
    BY <2>1, <2>3, SeqOfItself
  <2>5. ASSUME NEW i \in 1..Len(o.codes)
        PROVE  Text(details[i], "GSTIN") = NameText(o.codes[i])
    <3>1. details[i] = [GSTIN |-> NameText(o.codes[i])] BY <2>2
    <3> QED BY <3>1 DEF Text
  <2> QED BY <2>4, <2>5
<1> HIDE DEF elem, details
<1>4. Name(elem, "NAME") = o.name BY <1>2, NameBack
<1>5. TallyDate(elem, "BOOKSBEGINNINGFROM") = o.year BY <1>1, <1>2, DateBack
<1>6. Code(elem, "GSTDETAILS", "GSTIN") = FirstCode(o.codes) BY <1>1, <1>2, <1>3, CodeBack
<1>7. Meant("CMP", o) = [name |-> o.name, year |-> o.year, code |-> FirstCode(o.codes)]
  BY DEF Meant, Columns
<1> QED BY <1>4, <1>5, <1>6, <1>7 DEF BuildCompany, elem

LEMMA MasterBack ==
    ASSUME NEW o \in Objects, o.kind = "master", NEW form \in Forms
    PROVE  BuildMaster(MasterElement(o, form)) = Meant("MST", o)
<1> DEFINE elem == MasterElement(o, form)
<1>1. o.flag \in BOOLEAN BY ObjectHas
<1>2. Text(elem, "NAME") = NameText(o.name) /\ Text(elem, "FLAG") = FlagText(o.flag)
  BY DEF Text, MasterElement
<1> HIDE DEF elem
<1>3. Name(elem, "NAME") = o.name BY <1>2, NameBack
<1>4. BoolYes(elem, "FLAG") = o.flag BY <1>1, <1>2, FlagBack
<1>5. Meant("MST", o) = [name |-> o.name, flag |-> o.flag] BY DEF Meant, Columns
<1> QED BY <1>3, <1>4, <1>5 DEF BuildMaster, elem

LEMMA LedgerBack ==
    ASSUME NEW o \in Objects, o.kind = "ledger", NEW form \in Forms
    PROVE  BuildLedger(LedgerElement(o, form)) = Meant("LED", o)
<1> DEFINE elem == LedgerElement(o, form)
           details == [i \in DOMAIN o.codes |-> [GSTIN |-> NameText(o.codes[i])]]
<1>1. o.amount \in Int /\ o.codes \in Seq(STRING) BY ObjectHas
<1>2. /\ Text(elem, "NAME") = NameText(o.name) /\ Text(elem, "GSTIN") = <<>>
      /\ Text(elem, "OPENINGBALANCE") = AmountText(o.amount, form)
      /\ Text(elem, "LEDGSTREGDETAILS") = details
  BY DEF Text, LedgerElement
<1>3. /\ details \in Seq(ToSet(details)) /\ Len(details) = Len(o.codes)
      /\ \A i \in 1..Len(o.codes) : Text(details[i], "GSTIN") = NameText(o.codes[i])
  <2>1. DOMAIN o.codes = 1..Len(o.codes) /\ Len(o.codes) \in Nat BY <1>1
  <2>2. \A i \in 1..Len(o.codes) : details[i] = [GSTIN |-> NameText(o.codes[i])] BY <2>1
  <2>3. IsList(details, Len(o.codes)) BY <2>1 DEF IsList
  <2> HIDE DEF details
  <2>4. details \in Seq(ToSet(details)) /\ Len(details) = Len(o.codes)
    BY <2>1, <2>3, SeqOfItself
  <2>5. ASSUME NEW i \in 1..Len(o.codes)
        PROVE  Text(details[i], "GSTIN") = NameText(o.codes[i])
    <3>1. details[i] = [GSTIN |-> NameText(o.codes[i])] BY <2>2
    <3> QED BY <3>1 DEF Text
  <2> QED BY <2>4, <2>5
<1> HIDE DEF elem, details
<1>4. Name(elem, "NAME") = o.name BY <1>2, NameBack
<1>5. DecimalAmount(elem, "OPENINGBALANCE") = o.amount BY <1>1, <1>2, AmountBack
<1>6. Code(elem, "LEDGSTREGDETAILS", "GSTIN") = FirstCode(o.codes)
  BY <1>1, <1>2, <1>3, CodeBack
<1>7. Meant("LED", o) = [name |-> o.name, amount |-> o.amount, code |-> FirstCode(o.codes)]
  BY DEF Meant, Columns
<1> QED BY <1>4, <1>5, <1>6, <1>7 DEF BuildLedger, elem

LEMMA ItemBack ==
    ASSUME NEW o \in Objects, o.kind = "item", NEW form \in Forms
    PROVE  BuildItem(ItemElement(o, form)) = Meant("SITM", o)
<1> DEFINE elem == ItemElement(o, form)
           details == [i \in DOMAIN o.codes |-> [HSNCODE |-> NameText(o.codes[i])]]
<1>1. o.quantity \in Int /\ o.rate \in Int /\ o.amount \in Int /\ o.codes \in Seq(STRING)
  BY ObjectHas
<1>2. /\ Text(elem, "NAME") = NameText(o.name) /\ Text(elem, "HSNCODE") = <<>>
      /\ Text(elem, "OPENINGBALANCE") = QuantityText(o.quantity, form)
      /\ Text(elem, "OPENINGRATE") = RateText(o.rate, form)
      /\ Text(elem, "OPENINGVALUE") = AmountText(o.amount, form)
      /\ Text(elem, "GSTDETAILS") = details
  BY DEF Text, ItemElement
<1>3. /\ details \in Seq(ToSet(details)) /\ Len(details) = Len(o.codes)
      /\ \A i \in 1..Len(o.codes) : Text(details[i], "HSNCODE") = NameText(o.codes[i])
  <2>1. DOMAIN o.codes = 1..Len(o.codes) /\ Len(o.codes) \in Nat BY <1>1
  <2>2. \A i \in 1..Len(o.codes) : details[i] = [HSNCODE |-> NameText(o.codes[i])] BY <2>1
  <2>3. IsList(details, Len(o.codes)) BY <2>1 DEF IsList
  <2> HIDE DEF details
  <2>4. details \in Seq(ToSet(details)) /\ Len(details) = Len(o.codes)
    BY <2>1, <2>3, SeqOfItself
  <2>5. ASSUME NEW i \in 1..Len(o.codes)
        PROVE  Text(details[i], "HSNCODE") = NameText(o.codes[i])
    <3>1. details[i] = [HSNCODE |-> NameText(o.codes[i])] BY <2>2
    <3> QED BY <3>1 DEF Text
  <2> QED BY <2>4, <2>5
<1> HIDE DEF elem, details
<1>4. Name(elem, "NAME") = o.name BY <1>2, NameBack
<1>5. Quantity(elem, "OPENINGBALANCE") = o.quantity BY <1>1, <1>2, QuantityBack
<1>6. Rate(elem, "OPENINGRATE") = o.rate BY <1>1, <1>2, RateBack
<1>7. DecimalAmount(elem, "OPENINGVALUE") = o.amount BY <1>1, <1>2, AmountBack
<1>8. Code(elem, "GSTDETAILS", "HSNCODE") = FirstCode(o.codes) BY <1>1, <1>2, <1>3, CodeBack
<1>9. Meant("SITM", o) = [name |-> o.name, quantity |-> o.quantity, rate |-> o.rate,
                          amount |-> o.amount, code |-> FirstCode(o.codes)]
  BY DEF Meant, Columns
<1> QED BY <1>4, <1>5, <1>6, <1>7, <1>8, <1>9 DEF BuildItem, elem

\* What a voucher's element has under its tags.
LEMMA VoucherTexts ==
    ASSUME NEW o \in Objects, o.kind = "voucher", NEW form \in Forms
    PROVE  LET elem == VoucherElement(o, form)
               items == [i \in 1..Len(o.items) |-> LineElement(o.items[i], form)]
           IN  /\ Text(elem, "VOUCHERTYPENAME") = NameText(o.type)
               /\ Text(elem, "DATE") = DateText(o.year, form)
               /\ Text(elem, "ISCANCELLED") = FlagText(o.flag)
               /\ Text(elem, "ALLLEDGERENTRIES") =
                      [i \in 1..Len(o.entries) |-> EntryElement(o.entries[i], form)]
               /\ Text(elem, "LEDGERENTRIES") = <<>>
               /\ elem.ALLINVENTORYENTRIES = items
               /\ Text(elem, "ALLINVENTORYENTRIES") = items
               /\ Text(elem, "INVENTORYENTRIES") = <<>>
<1>1. DOMAIN o.entries = 1..Len(o.entries) /\ DOMAIN o.items = 1..Len(o.items) BY ObjectHas
<1> QED BY <1>1 DEF Text, VoucherElement, EntryElement, LineElement

LEMMA VoucherBack ==
    ASSUME NEW o \in Objects, o.kind = "voucher", NEW form \in Forms
    PROVE  BuildVoucher(VoucherElement(o, form)) = Meant("VOC", o)
<1> DEFINE elem == VoucherElement(o, form)
           items == [i \in 1..Len(o.items) |-> LineElement(o.items[i], form)]
<1>1. /\ o.year \in Years \cup {0} /\ o.flag \in BOOLEAN /\ o.entries \in Seq(Entries)
      /\ o.items \in Seq(ItemLines)
  BY ObjectHas
<1>2. /\ Text(elem, "VOUCHERTYPENAME") = NameText(o.type)
      /\ Text(elem, "DATE") = DateText(o.year, form)
      /\ Text(elem, "ISCANCELLED") = FlagText(o.flag)
      /\ Text(elem, "ALLLEDGERENTRIES") =
             [i \in 1..Len(o.entries) |-> EntryElement(o.entries[i], form)]
      /\ Text(elem, "LEDGERENTRIES") = <<>>
      /\ Text(elem, "ALLINVENTORYENTRIES") = items
      /\ Text(elem, "INVENTORYENTRIES") = <<>>
  BY VoucherTexts
<1> HIDE DEF elem, items
<1>3. Name(elem, "VOUCHERTYPENAME") = o.type BY <1>2, NameBack
<1>4. TallyDate(elem, "DATE") = o.year BY <1>1, <1>2, DateBack
<1>5. BoolYes(elem, "ISCANCELLED") = o.flag BY <1>1, <1>2, FlagBack
<1>6. LedgerEntries(elem) = NamedLines(o.entries) BY <1>1, <1>2, EntriesBack
<1>7. InventoryEntries(elem) = NamedLines(o.items)
  <2>1. Lists(elem, "INVENTORYENTRIES", "ALLINVENTORYENTRIES", items) BY <1>2 DEF Lists
  <2>2. ItemEntries(Named(elem, "INVENTORYENTRIES", "ALLINVENTORYENTRIES", "STOCKITEMNAME"))
          = NamedLines(o.items)
    BY <1>1, <2>1, ItemsBack DEF items
  <2> QED BY <2>2 DEF InventoryEntries, ItemEntries
<1>8. Meant("VOC", o) = [type |-> o.type, year |-> o.year, flag |-> o.flag,
                         entries |-> NamedLines(o.entries), items |-> NamedLines(o.items)]
  BY DEF Meant, Columns
<1> QED BY <1>3, <1>4, <1>5, <1>6, <1>7, <1>8 DEF BuildVoucher, elem

LEMMA OrderBack ==
    ASSUME NEW o \in Objects, o.kind = "voucher", NEW form \in Forms
    PROVE  BuildOrder(OrderElement(o, form)) = Meant("PO", o)
<1> DEFINE elem == OrderElement(o, form)
           items == [i \in 1..Len(o.items) |-> LineElement(o.items[i], form)]
<1>1. /\ o.year \in Years \cup {0} /\ o.due \in Years \cup {0} /\ o.flag \in BOOLEAN
      /\ o.items \in Seq(ItemLines)
  BY ObjectHas
<1>2. /\ Text(elem, "DATE") = DateText(o.year, form)
      /\ Text(elem, "ORDERDUEDATE") = DateText(o.due, form)
      /\ Text(elem, "ISCANCELLED") = FlagText(o.flag)
      /\ Text(elem, "ALLINVENTORYENTRIES") = items
      /\ Text(elem, "INVENTORYENTRIES") = <<>>
  <2>1. VoucherElement(o, form).ALLINVENTORYENTRIES = items BY VoucherTexts
  <2> HIDE DEF items
  <2> QED BY <2>1 DEF Text, OrderElement
<1> HIDE DEF elem, items
<1>3. TallyDate(elem, "DATE") = o.year BY <1>1, <1>2, DateBack
<1>4. TallyDate(elem, "ORDERDUEDATE") = o.due BY <1>1, <1>2, DateBack
<1>5. BoolYes(elem, "ISCANCELLED") = o.flag BY <1>1, <1>2, FlagBack
<1>6. OrderItems(elem) = NamedLines(o.items)
  <2>1. Lists(elem, "ALLINVENTORYENTRIES", "INVENTORYENTRIES", items) BY <1>2 DEF Lists
  <2>2. ItemEntries(Named(elem, "ALLINVENTORYENTRIES", "INVENTORYENTRIES", "STOCKITEMNAME"))
          = NamedLines(o.items)
    BY <1>1, <2>1, ItemsBack DEF items
  <2> QED BY <2>2 DEF OrderItems, ItemEntries
<1>7. Meant("PO", o) = [year |-> o.year, due |-> o.due, flag |-> o.flag,
                        items |-> NamedLines(o.items)]
  BY DEF Meant, Columns
<1> QED BY <1>3, <1>4, <1>5, <1>6, <1>7 DEF BuildOrder, elem

\* Each parser takes back what its report says of an object.
LEMMA BuildMeans ==
    ASSUME NEW r \in Reports, NEW o \in Objects, Selected(r, o), NEW form \in Forms
    PROVE  Build(r, Element(r, o, form)) = Meant(r, o)
<1>1. CASE r = "CMP" BY <1>1, CompanyBack DEF Selected, Build, Element
<1>2. CASE r = "MST" BY <1>2, MasterBack DEF Selected, Build, Element
<1>3. CASE r = "LED" BY <1>3, LedgerBack DEF Selected, Build, Element
<1>4. CASE r = "SITM" BY <1>4, ItemBack DEF Selected, Build, Element
<1>5. CASE r = "VOC" BY <1>5, VoucherBack DEF Selected, Build, Element
<1>6. CASE r = "PO" BY <1>6, OrderBack DEF Selected, OrderSelected, Build, Element
<1> QED BY <1>1, <1>2, <1>3, <1>4, <1>5, <1>6 DEF Reports

(***************************************************************************)
(* Steps.                                                                  *)
(***************************************************************************)

\* The elements the parser at position p is past are cleared.
Answered(r, objects, form, p) ==
    [i \in 1..Len(objects) |-> IF i <= p THEN Cleared ELSE Element(r, objects[i], form)]

\* The report under way, in the form it was asked in: the parser holds the
\* bytes of the element it has yielded, and the rows so far are of the first
\* objects.
Underway(objects, form) ==
    /\ report \in Reports /\ position \in 0..Len(objects)
    /\ answer = Answered(report, objects, form, position)
    /\ \/ raw = <<>> /\ IsList(rows, position)
       \/ /\ position < Len(objects)
          /\ \E tail \in BOOLEAN :
                raw = <<Serialised(Element(report, objects[position + 1], form), tail)>>
          /\ IsList(rows, position) \/ IsList(rows, position + 1)
    /\ \A i \in DOMAIN rows :
          /\ rows[i].record = Meant(report, objects[i])
          /\ Reparsed(rows[i].raw) = Element(report, objects[i], form)

ExportInv ==
    /\ book \in Seq(Objects)
    /\ IF report = "" THEN answer = <<>> /\ raw = <<>> /\ rows = <<>> /\ position = 0
       ELSE \E form \in Forms : Underway(Exported(report), form)

\* What is exported is in the collection of the report.
LEMMA ExportedSelected ==
    ASSUME NEW r, book \in Seq(Objects)
    PROVE  /\ Exported(r) \in Seq(Objects) /\ Len(Exported(r)) \in Nat
           /\ DOMAIN Exported(r) = 1..Len(Exported(r))
           /\ \A i \in 1..Len(Exported(r)) :
                 Exported(r)[i] \in Objects /\ Selected(r, Exported(r)[i])
<1> DEFINE S == {o \in Objects : Selected(r, o)}
           objects == Exported(r)
<1>1. objects \in Seq(Objects) /\ ToSet(objects) = ToSet(book) \cap S
  <2> HIDE DEF S
  <2>1. Exported(r) = Among(book, S) BY DEF Exported, S
  <2> QED BY <2>1, AmongIs
<1> HIDE DEF objects
<1>2. DOMAIN objects = 1..Len(objects) /\ Len(objects) \in Nat BY <1>1
<1>3. ASSUME NEW i \in 1..Len(objects) PROVE objects[i] \in Objects /\ Selected(r, objects[i])
  <2>1. objects[i] \in ToSet(objects) BY <1>2 DEF ToSet
  <2>2. objects[i] \in S BY <1>1, <2>1
  <2> QED BY <2>2
<1> QED BY <1>1, <1>2, <1>3 DEF objects

LEMMA InitHolds == Init => ExportInv
<1>1. <<>> \in Seq(Objects) OBVIOUS
<1> QED BY <1>1 DEF Init, ExportInv

LEMMA EnterKeeps ==
    ASSUME NEW o \in Objects, ExportInv, Enter(o)
    PROVE  ExportInv'
<1>1. Append(book, o) \in Seq(Objects)
  <2>1. book \in Seq(Objects) BY DEF ExportInv
  <2> QED BY <2>1
<1> QED BY <1>1 DEF ExportInv, Enter

LEMMA AskKeeps ==
    ASSUME NEW r \in Reports, NEW form \in Forms, ExportInv, Ask(r, form)
    PROVE  ExportInv'
<1> PICK objects : objects = Exported(r) OBVIOUS
<1>1. /\ book \in Seq(Objects) /\ book' = book /\ report' = r /\ r # ""
      /\ position' = 0 /\ raw' = <<>> /\ rows' = <<>>
      /\ answer' = [i \in DOMAIN objects |-> Element(r, objects[i], form)]
  BY DEF ExportInv, Ask, Reports
<1>2. DOMAIN objects = 1..Len(objects) /\ Len(objects) \in Nat BY <1>1, ExportedSelected
<1>3. Exported(r)' = objects BY <1>1 DEF Exported
<1>4. answer' = Answered(r, objects, form, 0)
  <2>1. \A i \in 1..Len(objects) : ~ (i <= 0) BY <1>2
  <2>2. answer' = [i \in 1..Len(objects) |-> Element(r, objects[i], form)] BY <1>1, <1>2
  <2> QED BY <2>1, <2>2 DEF Answered
<1>5. IsList(rows', 0) /\ DOMAIN rows' = {}
  <2> DEFINE none == [i \in 1..0 |-> rows'[i]]
  <2>1. DOMAIN none = {} /\ IsList(none, 0) BY DEF IsList
  <2> HIDE DEF none
  <2>2. none = <<>> BY <2>1, SeqOfItself
  <2>3. rows' = none BY <1>1, <2>2
  <2> QED BY <2>1, <2>3
<1>6. Underway(objects, form)'
  <2>1. 0 \in 0..Len(objects) BY <1>2
  <2> QED BY <1>1, <1>4, <1>5, <2>1 DEF Underway
<1> QED BY <1>1, <1>3, <1>6 DEF ExportInv

LEMMA UnderwayLens ==
    ASSUME NEW objects, Len(objects) \in Nat, NEW form, Underway(objects, form)
    PROVE  /\ Len(answer) = Len(objects) /\ DOMAIN answer = 1..Len(objects)
           /\ Len(rows) \in {position, position + 1} /\ DOMAIN rows = 1..Len(rows)
           /\ IsList(rows, Len(rows)) /\ Len(rows) <= Len(objects)
           /\ raw = <<>> => Len(rows) = position
<1>1. DOMAIN answer = 1..Len(objects) BY DEF Underway, Answered
<1>2. position \in Nat /\ position <= Len(objects) BY DEF Underway
<1>3. IsList(answer, Len(objects)) BY <1>1 DEF Underway, Answered, IsList
<1>4. Len(answer) = Len(objects) BY <1>3, SeqOfItself
<1>5. CASE IsList(rows, position)
  BY <1>1, <1>2, <1>4, <1>5, SeqOfItself DEF IsList
<1>6. CASE ~IsList(rows, position)
  <2>1. /\ IsList(rows, position + 1) /\ position < Len(objects)
        /\ \E bytes : raw = <<bytes>>
    BY <1>6 DEF Underway
  <2>2. position + 1 \in Nat /\ position + 1 <= Len(objects) /\ raw # <<>> BY <1>2, <2>1
  <2> QED BY <1>1, <1>4, <2>1, <2>2, SeqOfItself DEF IsList
<1> QED BY <1>5, <1>6

\* The generator and its caller have a report under way.
LEMMA TurnOf ==
    ASSUME ExportInv, raw # <<>> \/ position < Len(answer)
    PROVE  /\ report # "" /\ book \in Seq(Objects)
           /\ Len(Exported(report)) \in Nat
           /\ \A i \in 1..Len(Exported(report)) :
                 Exported(report)[i] \in Objects /\ Selected(report, Exported(report)[i])
           /\ \E form \in Forms : Underway(Exported(report), form)
<1>1. book \in Seq(Objects) BY DEF ExportInv
<1>2. report # ""
  <2>1. ASSUME report = "" PROVE FALSE
    <3>1. position = 0 /\ Len(answer) = 0 /\ raw = <<>> BY <2>1 DEF ExportInv
    <3> QED BY <3>1
  <2> QED BY <2>1
<1> QED BY <1>1, <1>2, ExportedSelected DEF ExportInv

LEMMA CaptureKeeps ==
    ASSUME NEW tail \in BOOLEAN, ExportInv, Capture(tail)
    PROVE  ExportInv'
<1> PICK objects : objects = Exported(report) OBVIOUS
<1>1. /\ raw = <<>> /\ position < Len(answer)
      /\ raw' = <<Serialised(answer[position + 1], tail)>>
      /\ UNCHANGED <<book, report, answer, position, rows>>
  BY DEF Capture
<1>2. report # "" /\ book \in Seq(Objects) /\ Len(objects) \in Nat BY <1>1, TurnOf
<1>3. PICK form \in Forms : Underway(objects, form) BY <1>1, TurnOf
<1>4. Len(answer) = Len(objects) /\ Len(rows) = position /\ IsList(rows, position)
  BY <1>1, <1>2, <1>3, UnderwayLens
<1>5. /\ position \in 0..Len(objects)
      /\ answer = [i \in 1..Len(objects) |->
            IF i <= position THEN Cleared ELSE Element(report, objects[i], form)]
  BY <1>3 DEF Underway, Answered
<1>6. answer[position + 1] = Element(report, objects[position + 1], form)
  <2>1. position < Len(objects) BY <1>1, <1>4, Zenon
  <2>2. position \in 0..Len(objects) /\ Len(objects) \in Nat BY <1>2, <1>5, Zenon
  <2>3. position + 1 \in 1..Len(objects) /\ ~ (position + 1 <= position) BY <2>1, <2>2
  <2> QED BY <1>5, <2>3
<1>7. Underway(objects, form)' BY <1>1, <1>3, <1>4, <1>6 DEF Underway
<1>8. Exported(report)' = objects BY <1>1 DEF Exported
<1> QED BY <1>1, <1>2, <1>7, <1>8 DEF ExportInv

LEMMA ReceiveKeeps ==
    ASSUME ExportInv, Receive
    PROVE  ExportInv'
<1> PICK objects : objects = Exported(report) OBVIOUS
<1> DEFINE next == position + 1
           row == [record |-> Build(report, answer[next]), raw |-> raw[1]]
<1>1. /\ raw # <<>> /\ Len(rows) = position /\ rows' = Append(rows, row)
      /\ UNCHANGED <<book, report, answer, position, raw>>
  BY DEF Receive
<1>2. /\ report # "" /\ book \in Seq(Objects) /\ Len(objects) \in Nat
      /\ \A i \in 1..Len(objects) : objects[i] \in Objects /\ Selected(report, objects[i])
  BY <1>1, TurnOf
<1>3. PICK form \in Forms : Underway(objects, form) BY <1>1, TurnOf
<1>4. /\ report \in Reports /\ position \in 0..Len(objects) /\ position < Len(objects)
      /\ answer = [i \in 1..Len(objects) |->
            IF i <= position THEN Cleared ELSE Element(report, objects[i], form)]
      /\ \E tail \in BOOLEAN : raw = <<Serialised(Element(report, objects[next], form), tail)>>
  BY <1>1, <1>3 DEF Underway, Answered
<1>5. IsList(rows, position) BY <1>1, <1>2, <1>3, UnderwayLens
<1>6. next \in 1..Len(objects) /\ next \in Nat /\ position \in Nat
  <2>1. position \in 0..Len(objects) /\ position < Len(objects) /\ Len(objects) \in Nat
    BY <1>2, <1>4
  <2> QED BY <2>1
<1>7. answer[next] = Element(report, objects[next], form) BY <1>4, <1>6
<1>8. /\ row.record = Meant(report, objects[next])
      /\ Reparsed(row.raw) = Element(report, objects[next], form)
  <2>1. Build(report, Element(report, objects[next], form)) = Meant(report, objects[next])
    BY <1>2, <1>3, <1>4, <1>6, BuildMeans
  <2>2. row.raw = raw[1] OBVIOUS
  <2>3. PICK tail : raw[1] = Serialised(Element(report, objects[next], form), tail) BY <1>4
  <2> QED BY <1>7, <2>1, <2>2, <2>3 DEF Reparsed, Serialised
<1> HIDE DEF row
<1>9. /\ IsList(rows', next) /\ DOMAIN rows' = 1..next
      /\ rows'[next] = row /\ \A i \in 1..position : rows'[i] = rows[i]
  <2>1. rows = [i \in 1..position |-> rows[i]] BY <1>5 DEF IsList
  <2>2. /\ Append(rows, row) = [i \in 1..next |-> IF i = next THEN row ELSE rows[i]]
    BY <1>6, <2>1
  <2> QED BY <1>1, <1>6, <2>2 DEF IsList
<1>10. \A i \in DOMAIN rows' :
          /\ rows'[i].record = Meant(report, objects[i])
          /\ Reparsed(rows'[i].raw) = Element(report, objects[i], form)
  <2>1. \A i \in 1..position :
          /\ rows[i].record = Meant(report, objects[i])
          /\ Reparsed(rows[i].raw) = Element(report, objects[i], form)
    BY <1>3, <1>5 DEF Underway, IsList
  <2>2. \A i \in 1..next : i = next \/ i \in 1..position BY <1>6
  <2> QED BY <1>8, <1>9, <2>1, <2>2
<1>11. Underway(objects, form)' BY <1>1, <1>3, <1>4, <1>9, <1>10 DEF Underway
<1>12. Exported(report)' = objects BY <1>1 DEF Exported
<1> QED BY <1>1, <1>2, <1>11, <1>12 DEF ExportInv

LEMMA ResumeKeeps ==
    ASSUME ExportInv, Resume
    PROVE  ExportInv'
<1> PICK objects : objects = Exported(report) OBVIOUS
<1> DEFINE next == position + 1
<1>1. /\ raw # <<>> /\ Len(rows) = next /\ position' = next /\ raw' = <<>>
      /\ answer' = [answer EXCEPT ![next] = Cleared]
      /\ UNCHANGED <<book, report, rows>>
  BY DEF Resume
<1>2. report # "" /\ book \in Seq(Objects) /\ Len(objects) \in Nat BY <1>1, TurnOf
<1>3. PICK form \in Forms : Underway(objects, form) BY <1>1, TurnOf
<1>4. /\ report \in Reports /\ position \in 0..Len(objects) /\ position < Len(objects)
      /\ answer = [i \in 1..Len(objects) |->
            IF i <= position THEN Cleared ELSE Element(report, objects[i], form)]
  BY <1>1, <1>3 DEF Underway, Answered
<1>5. next \in 0..Len(objects) /\ next \in Nat
  <2>1. position \in 0..Len(objects) /\ position < Len(objects) /\ Len(objects) \in Nat
    BY <1>2, <1>4
  <2> QED BY <2>1
<1>6. IsList(rows, next) BY <1>1, <1>2, <1>3, UnderwayLens
<1>7. answer' = Answered(report, objects, form, next)
  <2>1. ASSUME NEW i \in 1..Len(objects)
        PROVE  [answer EXCEPT ![next] = Cleared][i] =
                   IF i <= next THEN Cleared ELSE Element(report, objects[i], form)
    <3>1. CASE i = next BY <1>4, <1>5, <3>1
    <3>2. CASE i # next
      <4>1. i <= next <=> i <= position BY <1>4, <3>2
      <4>2. [answer EXCEPT ![next] = Cleared][i] = answer[i] BY <1>4, <3>2
      <4> QED BY <1>4, <4>1, <4>2
    <3> QED BY <3>1, <3>2
  <2>2. DOMAIN answer = 1..Len(objects) BY <1>4
  <2> QED BY <1>1, <2>1, <2>2 DEF Answered
<1>8. Underway(objects, form)' BY <1>1, <1>3, <1>4, <1>5, <1>6, <1>7 DEF Underway
<1>9. Exported(report)' = objects BY <1>1 DEF Exported
<1> QED BY <1>1, <1>2, <1>8, <1>9 DEF ExportInv

LEMMA DoneKeeps ==
    ASSUME ExportInv, Done
    PROVE  ExportInv'
<1> PICK objects : objects = Exported(report) OBVIOUS
<1>1. /\ report # "" /\ position = Len(answer) /\ book \in Seq(Objects)
      /\ report' = "" /\ answer' = <<>> /\ position' = 0 /\ rows' = <<>>
      /\ UNCHANGED <<book, raw>>
  BY DEF ExportInv, Done
<1>2. PICK form \in Forms : Underway(objects, form) BY <1>1 DEF ExportInv
<1>3. Len(objects) \in Nat BY <1>1, ExportedSelected
<1>4. Len(answer) = Len(objects) BY <1>2, <1>3, UnderwayLens
<1>5. raw = <<>>
  <2>1. position \in 0..Len(objects) /\ (raw = <<>> \/ position < Len(objects))
    BY <1>2 DEF Underway
  <2>2. position = Len(objects) BY <1>1, <1>4, Zenon
  <2>3. ~ (position < Len(objects)) BY <1>3, <2>2
  <2> QED BY <2>1, <2>3
<1> QED BY <1>1, <1>5 DEF ExportInv

LEMMA ExportNext == ExportInv /\ [Next]_vars => ExportInv'
<1> SUFFICES ASSUME ExportInv, [Next]_vars PROVE ExportInv' OBVIOUS
<1>1. ASSUME NEW o \in Objects, Enter(o) PROVE ExportInv' BY <1>1, EnterKeeps
<1>2. ASSUME NEW r \in Reports, NEW form \in Forms, Ask(r, form) PROVE ExportInv'
  BY <1>2, AskKeeps
<1>3. ASSUME NEW tail \in BOOLEAN, Capture(tail) PROVE ExportInv' BY <1>3, CaptureKeeps
<1>4. CASE Receive BY <1>4, ReceiveKeeps
<1>5. CASE Resume BY <1>5, ResumeKeeps
<1>6. CASE Done BY <1>6, DoneKeeps
<1>7. CASE UNCHANGED vars BY <1>7 DEF vars, ExportInv, Underway, Exported
<1> QED BY <1>1, <1>2, <1>3, <1>4, <1>5, <1>6, <1>7 DEF Next

LEMMA ExportInvHolds == Spec => []ExportInv
<1>1. Init => ExportInv BY InitHolds
<1>2. ExportInv /\ [Next]_vars => ExportInv' BY ExportNext
<1> QED BY <1>1, <1>2, PTL DEF Spec

\* RecordsAreTheObjects: the parsers return the objects the report is about, in
\* order, each once, with the sign and the century they have in Tally.
THEOREM RecordsMeanObjects == Spec => []RecordsAreTheObjects
<1>1. ExportInv => RecordsAreTheObjects
  <2> SUFFICES ASSUME ExportInv, report # ""
               PROVE  LET objects == Exported(report)
                      IN  /\ Len(answer) = Len(objects)
                          /\ Len(rows) \in {position, position + Len(raw)}
                          /\ \A i \in DOMAIN rows : rows[i].record = Meant(report, objects[i])
    BY DEF RecordsAreTheObjects
  <2> DEFINE objects == Exported(report)
  <2>1. PICK form \in Forms : Underway(objects, form) BY DEF ExportInv
  <2>2. Len(objects) \in Nat BY ExportedSelected DEF ExportInv
  <2> HIDE DEF objects
  <2>3. /\ Len(answer) = Len(objects) /\ Len(rows) \in {position, position + 1}
        /\ raw = <<>> => Len(rows) = position
    BY <2>1, <2>2, UnderwayLens
  <2>4. raw = <<>> \/ Len(raw) = 1
    <3>1. \A bytes : Len(<<bytes>>) = 1 OBVIOUS
    <3>2. raw = <<>> \/ \E bytes : raw = <<bytes>> BY <2>1 DEF Underway
    <3> QED BY <3>1, <3>2, Zenon
  <2>5. \A i \in DOMAIN rows : rows[i].record = Meant(report, objects[i]) BY <2>1 DEF Underway
  <2> QED BY <2>3, <2>4, <2>5 DEF objects
<1> QED BY <1>1, ExportInvHolds, PTL

\* RawReparses: whatever is cleared, and whenever, the archived bytes of each
\* record give its object when they are parsed once more.
THEOREM RawGivesObject == Spec => []RawReparses
<1>1. ExportInv => RawReparses
  <2> SUFFICES ASSUME ExportInv, NEW i \in DOMAIN rows
               PROVE  Build(report, Reparsed(rows[i].raw)) = Meant(report, Exported(report)[i])
    BY DEF RawReparses
  <2> DEFINE objects == Exported(report)
  <2>1. report # ""
    <3>1. ASSUME report = "" PROVE FALSE
      <4>1. rows = <<>> BY <3>1 DEF ExportInv
      <4> QED BY <4>1
    <3> QED BY <3>1
  <2>2. PICK form \in Forms : Underway(objects, form) BY <2>1 DEF ExportInv
  <2>3. /\ Len(objects) \in Nat
        /\ \A j \in 1..Len(objects) : objects[j] \in Objects /\ Selected(report, objects[j])
    BY ExportedSelected DEF ExportInv
  <2> HIDE DEF objects
  <2>4. DOMAIN rows = 1..Len(rows) /\ Len(rows) <= Len(objects) /\ Len(rows) \in Nat
    BY <2>2, <2>3, UnderwayLens DEF Underway
  <2>5. i \in 1..Len(objects) BY <2>3, <2>4
  <2>6. Reparsed(rows[i].raw) = Element(report, objects[i], form) BY <2>2 DEF Underway
  <2>7. Build(report, Element(report, objects[i], form)) = Meant(report, objects[i])
    BY <2>2, <2>3, <2>5, BuildMeans DEF Underway
  <2> QED BY <2>6, <2>7 DEF objects
<1> QED BY <1>1, ExportInvHolds, PTL
=============================================================================
