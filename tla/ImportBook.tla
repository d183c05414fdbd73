------------------------------ MODULE ImportBook ----------------------------
(***************************************************************************)
(* The files of the exchanges: uploads are parsed into rows, rows into the *)
(* table exchange_imports and the lots of btc_lots, and the tax reports    *)
(* and the reconstructed history of the portfolio are made of those.       *)
(*                                                                         *)
(* A line is what a file says: out is the currency that leaves the         *)
(* account, amounts are magnitudes, price and cost are two columns more of *)
(* Strike's file (the price of a bitcoin, and the cost basis), and comma   *)
(* tells whether the dollar amount has a thousands separator, and is       *)
(* quoted, and what the fee column has then.  A row is what a parser makes *)
(* of a line.                                                              *)
(***************************************************************************)
EXTENDS CostBasis

CONSTANTS
    Line,       \* the lines the exchanges may put in a file
    ApiRow,     \* rows the APIs of Strike and Coinbase return
    MaxLines    \* bound: lines of an upload

Source == {"strike", "river", "coinbase", "swan"}
NoRef == ""
Composite(r) == [ref |-> NoRef, at |-> r.at, type |-> r.type, sat |-> r.sat]
Ref(r) == [ref |-> r.ref, at |-> 0, type |-> "", sat |-> 0]

\* Types of rows: those of Strike are the tags of its file.
Type == {l.tag : l \in Line} \cup {r.type : r \in ApiRow}
        \cup {"purchase", "buy", "sale", "receive", "send", "deposit", "withdrawal"}
RowOf(src, refs) == [src : {src}, ref : refs, at : Nat, type : Type, sat : Int, usd : Nat, cost : Nat]

\* The API of Strike names what was received, and returns nothing else.
ASSUME BookAssumption ==
    /\ MaxLines \in Nat \ {0}
    /\ \A l \in Line :
         l \in [src : Source, ref : {l.ref}, at : Nat, tag : {l.tag}, out : {l.out}, sat : Nat, usd : Nat,
               price : Nat, cost : Nat, comma : {"none", "dollar fee", "no fee"}]
    /\ \A r \in ApiRow :
         \/ r \in RowOf("strike", {r.ref}) /\ r.ref # NoRef /\ r.type = "receive"
         \/ r \in RowOf("coinbase", {r.ref})

VARIABLES
    imports,   \* exchange_imports: (source, external_id, tx_type) -> row
    lots,      \* btc_lots: (source, external_id) -> [n, at, sat, usd]
    form       \* the lines of the Strike preview the browser holds

book == [imports |-> imports, lots |-> lots]
bookVars == <<imports, lots, form>>

-----------------------------------------------------------------------------
(* Parsers: the rows of a line, none or one.                                *)

Lines(src) == UNION {[1 .. n -> {l \in Line : l.src = src}] : n \in 1 .. MaxLines}

Row(l, type, sat, usd, cost) ==
    [src |-> l.src, ref |-> l.ref, at |-> l.at, type |-> type, sat |-> sat, usd |-> usd, cost |-> cost]

\* The type and the signs are as in the file.
parseStrikeRow(l) == {Row(l, l.tag, IF l.out = "btc" THEN -l.sat ELSE l.sat, l.usd, l.cost)}

\* A line without a reference is an error.
ParseStrikeCSV(l) == IF l.ref = NoRef THEN {} ELSE parseStrikeRow(l)

\* What stands before the thousands separator of an amount.
Thousands(usd) == usd \div 1000

\* The fields joined by commas and read again.  A quoted amount falls apart and
\* shifts the columns after it: a fee with a dollar sign is then no BTC amount and
\* the line an error, without one the BTC amount is what the fee column says, and
\* the cost basis what the column of the price says.
ParseStrikeRawLine(l) ==
    CASE l.comma = "none"       -> parseStrikeRow(l)
      [] l.comma = "dollar fee" -> {}
      [] l.comma = "no fee"     -> {Row(l, l.tag, 0, Thousands(l.usd), l.price)}

\* An unknown tag is a send or a receive by what moved, and no row if no BTC did.
parseRiverRow(l) ==
    LET sent == l.out = "btc" IN
    CASE l.tag = "buy"     -> {Row(l, "buy", l.sat, l.usd, l.usd)}
      [] l.tag = "sell"    -> {Row(l, "sale", IF sent THEN -l.sat ELSE 0, l.usd, 0)}
      [] l.tag = "receive" -> {Row(l, "receive", l.sat, 0, 0)}
      [] l.tag \in {"withdrawal", ""} ->
            {Row(l, "send", IF sent THEN -l.sat ELSE 0, IF sent THEN 0 ELSE l.usd, 0)}
      [] OTHER -> IF l.sat = 0 THEN {}
                  ELSE {Row(l, IF sent THEN "send" ELSE "receive", IF sent THEN -l.sat ELSE l.sat, 0, 0)}

\* The id in the file is not read.
parseCoinbaseRow(l) ==
    LET k == [l EXCEPT !.ref = NoRef]
        signed == IF l.out = "btc" THEN -l.sat ELSE l.sat
    IN CASE l.tag \in {"buy", "advanced trade buy"}   -> {Row(k, "buy", l.sat, 0, l.usd)}
         [] l.tag \in {"sell", "advanced trade sell"} -> {Row(k, "sale", -l.sat, l.usd, 0)}
         [] l.tag \in {"send", "receive"}             -> {Row(k, l.tag, signed, 0, 0)}
         [] l.tag = "convert"                         -> {Row(k, "sale", signed, l.usd, 0)}
         [] l.tag = "staking income"                  -> {Row(k, "receive", signed, 0, l.usd)}
         [] OTHER -> {}

\* Lines of another asset are skipped.
ParseCoinbaseCSV(l) == IF l.out = "other" THEN {} ELSE parseCoinbaseRow(l)

\* Three files; purchases and deposits have no id, a USD deposit is no row, and no
\* line without an amount is one.
parseSwanTradeRow(l) ==
    IF l.sat > 0 THEN {Row([l EXCEPT !.ref = NoRef], "purchase", l.sat, l.usd, l.usd)} ELSE {}
ParseSwanTransfersCSV(l) == IF l.sat > 0 THEN {Row([l EXCEPT !.ref = NoRef], "deposit", l.sat, 0, 0)} ELSE {}
ParseSwanWithdrawalsCSV(l) == IF l.sat > 0 THEN {Row(l, "withdrawal", -l.sat, 0, 0)} ELSE {}

ParseSwan(l) ==
    CASE l.tag = "trade" -> parseSwanTradeRow(l)
      [] l.tag = "deposit" -> ParseSwanTransfersCSV(l)
      [] l.tag = "withdrawal" -> ParseSwanWithdrawalsCSV(l)
      [] OTHER -> {}

Purchase(r) == r.type \in {"Purchase", "purchase", "buy"}

\* Mutant: rows of a loan's collateral are booked.
IgnoredButCollateral(r) ==
    ~Purchase(r) /\ r.type \notin {"Receive", "receive", "Sale", "Loan collateral"}

Ignored(r) == ~Purchase(r) /\ r.type \notin {"Receive", "receive", "Sale"}
Price(r) == IF r.cost # 0 THEN r.cost ELSE r.usd

\* What is made of a line: rows of a file, the lines a preview shows, the rows of
\* those lines when they come back, and of these the ones that are booked.
Made(reader, l) ==
    CASE reader = "strike"    -> ParseStrikeCSV(l)
      [] reader = "shown"     -> {l : r \in {k \in ParseStrikeCSV(l) : ~Ignored(k)}}
      [] reader = "form"      -> ParseStrikeRawLine(l)
      [] reader = "confirmed" -> {r \in ParseStrikeRawLine(l) : ~Ignored(r)}
      [] reader = "river"     -> parseRiverRow(l)
      [] reader = "coinbase"  -> ParseCoinbaseCSV(l)
      [] reader = "swan"      -> ParseSwan(l)

\* A line that cannot be read is reported and left out.
Read(reader, lines) == FoldLeft(LAMBDA made, l : made \o SetToSeq(Made(reader, l)), <<>>, lines)

-----------------------------------------------------------------------------
(* One row of an import.                                                    *)

\* The row of a key, inserted or replaced.
Put(f, key, row) == [k \in DOMAIN f \cup {key} |-> IF k = key THEN row ELSE f[k]]

\* Mutant: a lot that is there gets the amount of the row on top.
AddToLot(ls, key, at, sat, usd) ==
    IF key \in DOMAIN ls THEN [ls EXCEPT ![key].usd = @ + usd]
    ELSE Put(ls, key, [n |-> key, at |-> at, sat |-> sat, usd |-> usd])

\* A lot that is there keeps its date and amount.
SetLot(ls, key, at, sat, usd) ==
    IF key \in DOMAIN ls THEN [ls EXCEPT ![key].usd = usd]
    ELSE Put(ls, key, [n |-> key, at |-> at, sat |-> sat, usd |-> usd])

\* No lot without a price.
PurchaseLot(ls, id, r) ==
    IF Purchase(r) /\ r.sat > 0 /\ Price(r) # 0 THEN SetLot(ls, <<r.src, id>>, r.at, r.sat, Price(r))
    ELSE ls

\* Swan's transfers are lots without a price, a withdrawal one with a negative amount.
SwanLot(ls, id, r) ==
    IF Purchase(r) /\ r.sat > 0 THEN SetLot(ls, <<r.src, id>>, r.at, r.sat, Price(r))
    ELSE IF (r.type = "deposit" /\ r.sat > 0) \/ (r.type = "withdrawal" /\ r.sat < 0)
    THEN SetLot(ls, <<r.src, id>>, r.at, r.sat, 0)
    ELSE ls

\* Mutant: the type is not part of the key.
UpsertByReference(b, r, id, lotsAfter) ==
    LET key == <<r.src, id, "any">> IN
    IF key \in DOMAIN b.imports /\ b.imports[key] = r THEN b
    ELSE [imports |-> Put(b.imports, key, r), lots |-> lotsAfter]

\* A row that is known as it is changes nothing.
Upsert(b, r, id, lotsAfter) ==
    LET key == <<r.src, id, r.type>> IN
    IF key \in DOMAIN b.imports /\ b.imports[key] = r THEN b
    ELSE [imports |-> Put(b.imports, key, r), lots |-> lotsAfter]

StableId(r) == IF r.ref # NoRef THEN Ref(r) ELSE Composite(r)

\* A row of a file, or of an API, of one exchange.
ImportRow(src, b, r) ==
    LET id == CASE src = "strike" -> Ref(r)
                [] src = "river" -> Composite(r)
                [] OTHER -> StableId(r)
    IN Upsert(b, r, id, IF src = "swan" THEN SwanLot(b.lots, id, r) ELSE PurchaseLot(b.lots, id, r))

ImportRows(src, b, rows) == FoldLeft(LAMBDA k, r : ImportRow(src, k, r), b, rows)

ImportStrikeCSV(b, rows) == ImportRows("strike", b, rows)
ImportRiverCSV(b, rows) == ImportRows("river", b, rows)
ImportCoinbaseCSV(b, rows) == ImportRows("coinbase", b, rows)
ImportSwanCSV(b, rows) == ImportRows("swan", b, rows)

-----------------------------------------------------------------------------
(* Requests.  An import is one transaction; one that fails changes nothing. *)
(* The backfill an import starts is in module Portfolio.                    *)

BookInit ==
    /\ imports = <<>> /\ lots = <<>>
    /\ form = <<>>

Write(b) == imports' = b.imports /\ lots' = b.lots

\* The first request: the rows are shown and stay in the page.
StrikePreview(lines) ==
    /\ Read("strike", lines) # <<>>
    /\ form' = Read("shown", lines)
    /\ UNCHANGED <<imports, lots>>

\* The second, confirm=yes: the lines of the form are read again.
HandleStrikeImport ==
    /\ Read("form", form) # <<>>
    /\ Write(ImportStrikeCSV(book, Read("confirmed", form)))
    /\ form' = <<>>

HandleRiverImport(lines) ==
    /\ Read("river", lines) # <<>>
    /\ Write(ImportRiverCSV(book, Read("river", lines)))
    /\ UNCHANGED form

HandleCoinbaseImport(lines) ==
    /\ Read("coinbase", lines) # <<>>
    /\ Write(ImportCoinbaseCSV(book, Read("coinbase", lines)))
    /\ UNCHANGED form

HandleSwanImport(lines) ==
    /\ Read("swan", lines) # <<>>
    /\ Write(ImportSwanCSV(book, Read("swan", lines)))
    /\ UNCHANGED form

\* What the API sync hands over; no backfill follows.
ApiImport(r) ==
    /\ Write(IF r.src = "strike" THEN ImportStrikeCSV(book, <<r>>) ELSE ImportCoinbaseCSV(book, <<r>>))
    /\ UNCHANGED form

\* Mutant: the lots stay.
ClearImportsOnly(src) ==
    /\ \E key \in DOMAIN imports : key[1] = src
    /\ Write([imports |-> Restrict(imports, {key \in DOMAIN imports : key[1] # src}), lots |-> lots])
    /\ UNCHANGED form

\* Lots and rows of one exchange, in one transaction; no backfill follows.
ClearExchangeSource(src) ==
    /\ \E key \in DOMAIN imports : key[1] = src
    /\ Write([imports |-> Restrict(imports, {key \in DOMAIN imports : key[1] # src}),
             lots |-> Restrict(lots, {key \in DOMAIN lots : key[1] # src})])
    /\ UNCHANGED form

BookNext ==
    \/ \E lines \in Lines("strike") : StrikePreview(lines)
    \/ HandleStrikeImport
    \/ \E lines \in Lines("river") : HandleRiverImport(lines)
    \/ \E lines \in Lines("coinbase") : HandleCoinbaseImport(lines)
    \/ \E lines \in Lines("swan") : HandleSwanImport(lines)
    \/ \E r \in ApiRow : ApiImport(r)
    \/ \E src \in Source : ClearExchangeSource(src)

Spec == BookInit /\ [][BookNext]_bookVars

-----------------------------------------------------------------------------
(* What the reports read.                                                   *)

ListBTCLots == {lots[key] : key \in DOMAIN lots}

\* Sales of BTC; sends and withdrawals go to the owner's own wallet.
ListDisposals ==
    {LET r == imports[key]
         m == IF r.sat < 0 THEN -r.sat ELSE r.sat
     IN [ref |-> key, at |-> r.at, sat |-> m, usd |-> r.usd] :
        key \in {k \in DOMAIN imports : imports[k].type \in {"Sale", "sale"} /\ imports[k].sat # 0}}

\* The CSV of a year; the JSON summary and the page have the same events.
HandleTaxExport(method, year) ==
    Form8949(EventsOfYear(Match(ListBTCLots, ListDisposals, method).events, year))

\* The page, for a year: its summary and what could be harvested on a day.
TaxPage(method, year, usdPerSat, asOf) ==
    LET m == Match(ListBTCLots, ListDisposals, method) IN
    [summary |-> Summarize(EventsOfYear(m.events, year), m.unmatched),
     harvest |-> Harvest(ListBTCLots, ListDisposals, method, usdPerSat, asOf)]

-----------------------------------------------------------------------------
(* Properties.                                                              *)

Id == [ref : {l.ref : l \in Line} \cup {r.ref : r \in ApiRow} \cup {NoRef}, at : Nat,
       type : Type \cup {""}, sat : Int]

TypeOK ==
    /\ \A key \in DOMAIN imports :
         key \in Source \X Id \X Type /\ imports[key].src = key[1] /\ imports[key].type = key[3]
    /\ \A key \in DOMAIN lots :
         key \in Source \X Id /\ lots[key] \in [n : {key}, at : Nat, sat : Int \ {0}, usd : Nat]
    /\ \A i \in DOMAIN form : form[i] \in Line /\ form[i].src = "strike"

Methods == {FIFO, LIFO}

\* However files are repeated, corrected, mixed with the API's rows and cleared,
\* a lot has a row of its exchange behind it, and a purchase with a price has its
\* lot: at the price of the row unless another type shares the reference, and in
\* its amount where the amount is part of the id.
LotsAgreeWithImports ==
    /\ \A lot \in DOMAIN lots : \E key \in DOMAIN imports : <<key[1], key[2]>> = lot
    /\ \A key \in DOMAIN imports :
         LET r == imports[key]
             lot == <<key[1], key[2]>>
             shared == \E k \in DOMAIN imports \ {key} : <<k[1], k[2]>> = lot
         IN Purchase(r) /\ r.sat > 0 /\ Price(r) # 0 =>
              /\ lot \in DOMAIN lots
              /\ ~shared => lots[lot].usd = Price(r)
              /\ key[2].ref = NoRef => lots[lot].sat = r.sat

\* Loading a file a second time changes nothing.
ReimportChangesNothing ==
    \A first, second \in Line :
        LET file == <<first, second>>
            River(b) == ImportRiverCSV(b, Read("river", file))
            Strike(b) == ImportStrikeCSV(b, Read("form", file))
        IN /\ first.src = "river" /\ second.src = "river" => River(River(book)) = River(book)
           /\ first.src = "strike" /\ second.src = "strike" => Strike(Strike(book)) = Strike(book)

\* Every sat of a lot is sold once or still open, and never both: what the
\* events take from a lot is at most its amount, what the harvester offers is
\* what they leave, and what a sale does not get from the lots is reported.
SatsMatchedOnce ==
    \A method \in Methods :
        LET m == Match(ListBTCLots, ListDisposals, method)
            page == TaxPage(method, 0, 1, Year)
        IN /\ \A l \in ListBTCLots : Consumed(m.events, l) \in 0 .. (IF l.sat > 0 THEN l.sat ELSE 0)
           /\ \A c \in page.harvest.candidates : \E l \in ListBTCLots :
                l.n = c.lot /\ c.sat + Consumed(m.events, l) = l.sat
           /\ SumFunction([d \in ListDisposals |-> d.sat])
                = page.summary.unmatched + Total(LAMBDA e : e.sat, m.events)

ClosedYears == {YearOf(l.at) : l \in {k \in Line : \E m \in Line : YearOf(m.at) > YearOf(k.at)}}

\* The Form 8949 of a year that is over does not depend on what is bought or sold
\* after it, although everything is matched before a year is picked, and on its
\* last day the page's gain of the year to date is that of the form.
ClosedYearsStay ==
    \A method \in Methods, year \in ClosedYears :
        LET form8949 == HandleTaxExport(method, year)
            lastDay == (year + 1) * Year - 1
            known == Match({l \in ListBTCLots : YearOf(l.at) <= year},
                           {d \in ListDisposals : YearOf(d.at) <= year}, method)
        IN /\ form8949 = Form8949(EventsOfYear(known.events, year))
           /\ TaxPage(method, year, 1, lastDay).harvest.ytd = Total(LAMBDA row : row.gain, form8949)

\* What the preview shows is what the confirmation imports: each row the parser
\* made of the file is in the table after it.
ConfirmBooksThePreview ==
    [][HandleStrikeImport =>
          \A i \in DOMAIN form : \A r \in ParseStrikeCSV(form[i]) :
              \E key \in DOMAIN imports' : imports'[key] = r]_bookVars
=============================================================================
