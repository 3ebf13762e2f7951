---------------------------- MODULE ListingImport ----------------------------
(***************************************************************************)
(* Reading an uploaded catalogue: services/listing_import.py parse_csv.    *)
(* A cell is one of the shapes the parsers tell apart, a file its size,    *)
(* its columns, its rows and the records csv.reader cannot split, of which *)
(* 0 is the header. A row is a record as csv.reader delivers it: a quote   *)
(* left open makes one record of many lines. A step reads one.             *)
(***************************************************************************)
EXTENDS Naturals, Sequences, FiniteSets

CONSTANTS
  MAX_ROWS,  \* listings in a file at most
  Files      \* the files agents upload

VARIABLES
  file,      \* the upload
  line,      \* rows read so far, the one that raised included
  listings,  \* the rows that became listings, by number
  errors,    \* the errors reported, by row; 0 is about the whole file
  skipped,   \* blank rows
  reading    \* "header", "rows", "done", or "raised" for a 500

import == <<file, line, listings, errors, skipped, reading>>

REQUIRED == {"title", "city", "price"}
Columns == REQUIRED \cup {"property_type", "status", "bhk"}

-----------------------------------------------------------------------------
(* What a cell of text does to its parser. "1.2.3 cr" and "nan" are        *)
(* matched, and then decimal.InvalidOperation is not a ValueError.         *)
Amounts == {"amount", "lakh", "crore", "zero lakh"}
NoAmounts == {"", "words", "zero"}
Garbled == {"garbled crore", "nan"}
parse_price(cell) ==
  CASE cell \in Amounts -> "ok"
    [] cell \in NoAmounts -> "ValueError"
    [] cell \in Garbled -> "InvalidOperation"

Row == {row \in [Columns -> STRING] : row["price"] \in Amounts \cup NoAmounts \cup Garbled}

ASSUME ImportAssumption ==
  /\ MAX_ROWS \in Nat \ {0}
  /\ \A f \in Files : f.rows \in Seq(Row) /\ f.unreadable \subseteq Nat

(* A type or a status may be left out, a word nobody knows may not be used.*)
parse_choice(cell) == IF cell \in {"", "alias"} THEN "ok" ELSE "ValueError"
parse_int(cell) == IF cell \in {"", "digits"} THEN "ok" ELSE "ValueError"
_require(cell) == IF cell = "" THEN "ValueError" ELSE "ok"

(* The cells of the columns the file has, the others empty.                *)
Cell(row, column) == IF column \in file.columns THEN row[column] ELSE ""

(* Read in this order: the first parser to complain decides.               *)
Parsers(row) ==
  <<_require(Cell(row, "title")), _require(Cell(row, "city")), parse_price(Cell(row, "price")),
    parse_choice(Cell(row, "property_type")), parse_choice(Cell(row, "status")),
    parse_int(Cell(row, "bhk"))>>

Parsed(row) ==
  LET bad == {i \in 1..6 : Parsers(row)[i] # "ok"}
  IN IF bad = {} THEN "ok" ELSE Parsers(row)[CHOOSE i \in bad : \A j \in bad : i <= j]

Blank(row) == \A column \in DOMAIN row : row[column] = ""

-----------------------------------------------------------------------------
ImportInit ==
  /\ file \in Files
  /\ line = 0
  /\ listings = <<>>
  /\ errors = {}
  /\ skipped = {}
  /\ reading = "header"

(* A carriage return on its own, or a quote left open for 131072           *)
(* characters, is a csv.Error, which nothing between the reader and the    *)
(* response catches.                                                       *)
HeaderRaises ==
  /\ reading = "header" /\ file.size = "fits" /\ 0 \in file.unreadable
  /\ reading' = "raised"
  /\ UNCHANGED <<file, line, listings, errors, skipped>>

(* A file that is too large, empty or without a required column is refused.*)
ReadHeader ==
  /\ reading = "header"
  /\ file.size = "fits" => 0 \notin file.unreadable
  /\ IF file.size # "fits" \/ ~(REQUIRED \subseteq file.columns)
       THEN errors' = {0} /\ reading' = "done"
       ELSE reading' = "rows" /\ UNCHANGED errors
  /\ UNCHANGED <<file, line, listings, skipped>>

NextRow == file.rows[line + 1]
AtRecord == reading = "rows" /\ line < Len(file.rows)
AtRow == AtRecord /\ line + 1 \notin file.unreadable

RowRaises ==
  /\ AtRecord /\ line + 1 \in file.unreadable
  /\ line' = line + 1
  /\ reading' = "raised"
  /\ UNCHANGED <<file, listings, errors, skipped>>

SkipBlank ==
  /\ AtRow
  /\ Blank(NextRow)
  /\ skipped' = skipped \cup {line + 1}
  /\ line' = line + 1
  /\ UNCHANGED <<file, listings, errors, reading>>

(* Mutant: the surplus is left out and the import goes on.                 *)
Surplus_silent ==
  /\ AtRow
  /\ ~Blank(NextRow)
  /\ Len(listings) >= MAX_ROWS
  /\ reading' = "done"
  /\ UNCHANGED <<file, line, listings, errors, skipped>>

(* The file holds more listings than it may: the rest is not read.         *)
Surplus ==
  /\ AtRow
  /\ ~Blank(NextRow)
  /\ Len(listings) >= MAX_ROWS
  /\ errors' = errors \cup {line + 1}
  /\ reading' = "done"
  /\ UNCHANGED <<file, line, listings, skipped>>

(* A row becomes a listing or an error, or ends the request.               *)
ReadRow ==
  /\ AtRow
  /\ ~Blank(NextRow)
  /\ Len(listings) < MAX_ROWS
  /\ CASE Parsed(NextRow) = "ok" ->
            listings' = Append(listings, line + 1) /\ UNCHANGED <<errors, reading>>
       [] Parsed(NextRow) = "ValueError" ->
            errors' = errors \cup {line + 1} /\ UNCHANGED <<listings, reading>>
       [] Parsed(NextRow) = "InvalidOperation" ->
            reading' = "raised" /\ UNCHANGED <<listings, errors>>
  /\ line' = line + 1
  /\ UNCHANGED <<file, skipped>>

Finish ==
  /\ reading = "rows"
  /\ line = Len(file.rows)
  /\ errors' = IF listings = <<>> /\ errors = {} THEN {0} ELSE errors
  /\ reading' = "done"
  /\ UNCHANGED <<file, line, listings, skipped>>

ImportNext ==
  HeaderRaises \/ ReadHeader \/ RowRaises \/ SkipBlank \/ Surplus \/ ReadRow \/ Finish

-----------------------------------------------------------------------------
Imported == {listings[i] : i \in DOMAIN listings}
Rows == DOMAIN file.rows

(* The records that end the upload with a 500 and no row named: one that   *)
(* csv.reader cannot split, and one whose price is garbled.                *)
Ends(n) == n \in file.unreadable \/ (n \in Rows /\ Parsed(file.rows[n]) = "InvalidOperation")

(* Every row of an upload is accounted for: a file that is taken became,   *)
(* row by row, its listings, and had no record that ends an upload; a file *)
(* that is refused names a row for each that cannot be read, up to the     *)
(* first beyond the limit; and an upload ends with neither only at such a  *)
(* record (listing_import.py:157-232; lines 6-7 promise that every row     *)
(* that cannot be read is reported with its number, which these are not).  *)
NothingDropped ==
  /\ reading = "done" /\ errors = {} =>
       /\ \A n \in 0..Len(file.rows) : ~Ends(n)
       /\ Rows = Imported \cup {n \in Rows : Blank(file.rows[n])}
       /\ Len(listings) \in 1..MAX_ROWS
       /\ \A i, j \in DOMAIN listings : i < j => listings[i] < listings[j]
  /\ reading = "done" /\ errors # {} /\ 0 \notin errors =>
       /\ \A n \in Rows : Parsed(file.rows[n]) = "ValueError" /\ ~Blank(file.rows[n])
              => n \in errors \/ \E e \in errors : e < n /\ Cardinality({k \in Imported : k < e}) = MAX_ROWS
       /\ errors \cap Imported = {}
  /\ reading = "raised" => Ends(line)

-----------------------------------------------------------------------------
(* Why nothing is dropped: what is known of the rows read so far.          *)
ImportType ==
  /\ file \in Files
  /\ line \in 0..Len(file.rows)
  /\ listings \in Seq(1..line)
  /\ errors \subseteq 0..Len(file.rows)
  /\ reading \in {"header", "rows", "done", "raised"}

RowsRead ==
  /\ Len(listings) <= MAX_ROWS
  /\ \A i, j \in DOMAIN listings : i < j => listings[i] < listings[j]
  /\ \A n \in Imported : ~Blank(file.rows[n]) /\ Parsed(file.rows[n]) = "ok"
  /\ errors \cap Imported = {}
  /\ reading # "raised" => \A n \in 1..line : n \in Imported \cup errors \/ Blank(file.rows[n])

Stage ==
  /\ reading = "header" => line = 0 /\ errors = {}
  /\ reading = "rows" => \A e \in errors : e \in 1..line
  /\ reading = "done" => \/ 0 \in errors
                         \/ line = Len(file.rows) /\ (listings # <<>> \/ errors # {})
                         \/ line + 1 \in errors /\ Len(listings) = MAX_ROWS
  /\ reading = "raised" => Ends(line)

(* A reader that went on has met no record that ends the upload.           *)
Unbroken ==
  reading \in {"rows", "done"} => 0 \in errors \/ \A n \in 0..line : ~Ends(n)

ImportInv == ImportType /\ RowsRead /\ Stage /\ Unbroken
=============================================================================
