---------------------------- MODULE HBFPlacement ----------------------------
(***************************************************************************)
(* Loading an explicit placement table (hbf_load_placement_table): a file  *)
(* of page,channel lines is read line by line into a scratch table, which  *)
(* replaces the destination in one step at the end.  The controller and    *)
(* the FTL of every cube load the file into tables of their own.           *)
(*                                                                         *)
(* A line is a record of what the scanner finds, in the order it looks:    *)
(*   long   the line fills the buffer                                      *)
(*   blank  nothing but white space or a comment                           *)
(*   page   a number, or Negative, or Garbage (no number, out of range)    *)
(*   sep    a comma or white space follows the page                        *)
(*   chan   a number, or Negative, or Garbage                              *)
(*   rest   something other than a comment follows the channel             *)
(***************************************************************************)
EXTENDS Integers, Sequences

CONSTANTS
  Files,        \* the files, sequences of lines
  Channels,     \* num_channels
  OldTable      \* the table before the call

Negative == -1
Garbage  == -2

ASSUME PlacementAssumption ==
  /\ Channels \in Nat
  /\ \A f \in Files : Len(f) \in Nat /\ DOMAIN f = 1 .. Len(f)
  /\ \A f \in Files : \A i \in DOMAIN f :
       /\ f[i].page \in Int /\ f[i].chan \in Int
       /\ {f[i].long, f[i].blank, f[i].sep, f[i].rest} \subseteq BOOLEAN

VARIABLES
  file,    \* the lines of the file that was opened
  lineNo,  \* the next line
  parsed,  \* the scratch table, a set of <<page, channel>>
  table,   \* the caller's table
  result   \* "called", "reading", "ok", "error"

placementVars == <<file, lineNo, parsed, table, result>>

IsEntry(l) == ~l.long /\ ~l.blank

\* The checks of one line, without the comparison with earlier lines.
Malformed(l) ==
  \/ l.long
  \/ IsEntry(l) /\ \/ l.page < 0 \/ ~l.sep \/ l.chan < 0 \/ l.rest
                   \/ l.chan >= Channels

\* The page is in the table with another channel.
Conflicts(l, t) == \E e \in t : e[1] = l.page /\ e[2] # l.chan

PlacementInit == /\ file \in Files /\ lineNo = 1 /\ parsed = {}
                 /\ table = OldTable /\ result = "called"

\* The arguments are checked and the file is opened, which may fail.
Open == /\ result = "called"
        /\ result' \in IF Channels = 0 THEN {"error"} ELSE {"reading", "error"}
        /\ UNCHANGED <<file, lineNo, parsed, table>>

CurrentLine == file[lineNo]

ReadLine == /\ result = "reading" /\ lineNo <= Len(file)
            /\ ~Malformed(CurrentLine)
            /\ IF IsEntry(CurrentLine)
                 THEN /\ ~Conflicts(CurrentLine, parsed)
                      /\ parsed' = parsed \cup {<<CurrentLine.page, CurrentLine.chan>>}
                 ELSE UNCHANGED parsed
            /\ lineNo' = lineNo + 1
            /\ UNCHANGED <<file, table, result>>

RejectLine == /\ result = "reading" /\ lineNo <= Len(file)
              /\ Malformed(CurrentLine) \/ (IsEntry(CurrentLine) /\ Conflicts(CurrentLine, parsed))
              /\ result' = "error"
              /\ UNCHANGED <<file, lineNo, parsed, table>>

\* fgets fails before the end of the file: ferror is set.
ReadError == /\ result = "reading"
             /\ result' = "error"
             /\ UNCHANGED <<file, lineNo, parsed, table>>

\* The destination is swapped before the scratch table is looked at.
EndOfFile_Bug == /\ result = "reading" /\ lineNo > Len(file)
                 /\ table' = parsed
                 /\ result' = IF parsed = {} THEN "error" ELSE "ok"
                 /\ UNCHANGED <<file, lineNo, parsed>>

EndOfFile == /\ result = "reading" /\ lineNo > Len(file)
             /\ IF parsed = {}
                  THEN result' = "error" /\ UNCHANGED table
                  ELSE result' = "ok" /\ table' = parsed
             /\ UNCHANGED <<file, lineNo, parsed>>

PlacementNext == Open \/ ReadLine \/ RejectLine \/ ReadError \/ EndOfFile

PlacementSpec == PlacementInit /\ [][PlacementNext]_placementVars

(***************************************************************************)
(* Properties.                                                             *)
(***************************************************************************)
\* What a file says: its entries, whatever their order and number.
Entries(f) == {<<f[i].page, f[i].chan>> : i \in {j \in DOMAIN f : IsEntry(f[j])}}

\* A file that may be used: every line is well formed, no page has two
\* channels, there is an entry.
Usable(f) == /\ \A i \in DOMAIN f : ~Malformed(f[i])
             /\ \A d, e \in Entries(f) : d[1] = e[1] => d = e
             /\ Entries(f) # {}

\* The table of an accepted file places each of its pages on one existing
\* channel.
TableWellFormed ==
  /\ result \in {"called", "reading", "ok", "error"}
  /\ lineNo \in 1 .. Len(file) + 1
  /\ result = "ok" =>
       \A e \in table : /\ e[1] \in Nat /\ e[2] \in 0 .. Channels - 1
                        /\ \A d \in table : d[1] = e[1] => d = e

\* "Parse the entire file before replacing table" (hbf_mapping.h:24): the
\* caller's table changes at most once, to all that a usable file says; after
\* any error, however late, it is what it was.
AllOrNothing ==
  /\ result = "ok"  => Usable(file) /\ table = Entries(file)
  /\ result # "ok" => table = OldTable

\* The scratch table holds the lines read so far, and only a usable prefix
\* is read (the inductive invariant of AllOrNothing).
PrefixParsed ==
  LET prefix == {i \in DOMAIN file : i < lineNo}
  IN /\ parsed = {<<file[i].page, file[i].chan>> :
                    i \in {j \in prefix : IsEntry(file[j])}}
     /\ \A i \in prefix : ~Malformed(file[i])
     /\ \A d, e \in parsed : d[1] = e[1] => d = e
\* The loader never uses a line it should refuse, nor part of a file.
LoadSound == TableWellFormed /\ PrefixParsed /\ AllOrNothing
=============================================================================
