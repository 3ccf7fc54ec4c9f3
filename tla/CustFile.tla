------------------------------ MODULE CustFile ------------------------------
(***************************************************************************)
(* How the sysmodule finds its table in hoc.kip (file/kip.hpp): the     *)
(* file is read in pieces that overlap by one byte less than the magic,    *)
(* until one holds it; the table is then read or written in place if the   *)
(* file is long enough. A byte is one of the magic's four or another; a    *)
(* piece is short.                                                         *)
(***************************************************************************)
EXTENDS Integers, Sequences

CONSTANTS CustFiles,   \* files that may be on the card
          PieceSize,   \* sizeof(buf), 512 in the code
          TableSize    \* sizeof(CustomizeTable)

VARIABLES custFile,    \* the bytes of hoc.kip
          kipOp,       \* "read" or "write" under way, or "none"
          custScan,    \* the search: next position, and "idle", "on", "found" or "absent"
          custDone     \* the last operation: what it did, its offset and whether it was true

custVars == <<custFile, kipOp, custScan, custDone>>

CUST_MAGIC == <<"C", "U", "S", "T">>
CUST_MAGIC_LEN == 4

HasMagic(s, i) == SubSeq(s, i + 1, i + CUST_MAGIC_LEN) = CUST_MAGIC

\* fread of a piece: less than asked at the end of the file.
Fread(pos) ==
    LET end == IF pos + PieceSize < Len(custFile) THEN pos + PieceSize ELSE Len(custFile)
    IN  SubSeq(custFile, pos + 1, end)

CustInit ==
    /\ custFile \in CustFiles
    /\ kipOp = "none"
    /\ custScan = [pos |-> 0, at |-> "idle"]
    /\ custDone = [op |-> "none", off |-> 0, ok |-> FALSE]

\* cust_read_table or cust_write_table opens the file.
OpenKip ==
    /\ kipOp = "none"
    /\ kipOp' \in {"read", "write"}
    /\ custScan' = [pos |-> 0, at |-> "on"]
    /\ UNCHANGED <<custFile, custDone>>

\* One turn of cust_find_offset: the places of the magic in this piece, and where
\* the next piece begins.
Places(piece) ==
    {i \in 0..(Len(piece) - CUST_MAGIC_LEN) : HasMagic(piece, i)}

WholePiece(r) == r
Advance(r) == r - (CUST_MAGIC_LEN - 1)

FindOffset ==
    LET piece == Fread(custScan.pos)
        hits  == Places(piece)
    IN  /\ custScan.at = "on"
        /\ custScan' =
              IF Len(piece) < CUST_MAGIC_LEN THEN [custScan EXCEPT !.at = "absent"]
              ELSE IF hits = {} THEN [custScan EXCEPT !.pos = @ + Advance(Len(piece))]
              ELSE [pos |-> custScan.pos + CHOOSE i \in hits : \A j \in hits : i <= j,
                    at |-> "found"]
        /\ UNCHANGED <<custFile, kipOp, custDone>>

\* A table the sysmodule writes begins with the magic it read.
Table == [i \in 1..TableSize |-> IF i <= CUST_MAGIC_LEN THEN CUST_MAGIC[i] ELSE "new"]

InTable(off, i) == i - off \in 1..TableSize

Written(off) ==
    [i \in DOMAIN custFile |-> IF InTable(off, i) THEN Table[i - off] ELSE custFile[i]]

Fits(off) == off + TableSize <= Len(custFile)

CloseKip ==
    LET off == custScan.pos
        ok  == custScan.at = "found" /\ Fits(off)
    IN  /\ custScan.at \in {"found", "absent"}
        /\ custFile' = IF ok /\ kipOp = "write" THEN Written(off) ELSE custFile
        /\ custDone' = [op |-> kipOp, off |-> off, ok |-> ok]
        /\ kipOp' = "none"
        /\ custScan' = [pos |-> 0, at |-> "idle"]

CustNext == OpenKip \/ FindOffset \/ CloseKip

CustTypeOK ==
    /\ kipOp \in {"none", "read", "write"}
    /\ custScan.at \in {"idle", "on", "found", "absent"}
    /\ custScan.pos \in 0..Len(custFile)

---------------------------------------------------------------------------

Occurrences(s) == {i \in 0..(Len(s) - CUST_MAGIC_LEN) : HasMagic(s, i)}

\* The search in pieces finds the first magic of the file wherever it lies, across
\* the seam of two pieces too, and gives up only where there is none; so a table
\* that was written is where the next read finds it, and a file too short for
\* its table is refused and left as it is (cust_find_offset, cust_read_table,
\* cust_write_table).
FirstMagicFound ==
    /\ custScan.at = "absent" => Occurrences(custFile) = {}
    /\ custScan.at = "found" =>
          /\ custScan.pos \in Occurrences(custFile)
          /\ \A i \in Occurrences(custFile) : custScan.pos <= i
    /\ custDone.op = "write" /\ custDone.ok =>
          SubSeq(custFile, custDone.off + 1, custDone.off + TableSize) = Table
=============================================================================
