------------------------------ MODULE DmiTable ------------------------------
(***************************************************************************)
(* The DMI decoder, dmidecode.c, which main calls once.  It looks through  *)
(* the paragraphs of the BIOS segment for the anchor of the SMBIOS entry   *)
(* point, walks the table the entry point names from structure to          *)
(* structure, and takes the names of the BIOS, the system and the board    *)
(* from the strings that follow each structure.                            *)
(*                                                                         *)
(* A table is built from structures here, cut short at any byte, and its   *)
(* header may claim a length that is wrong; the decoder sees bytes only.   *)
(***************************************************************************)
EXTENDS Integers, Sequences, SequencesExt

CONSTANTS
  Segments,  \* the BIOS segments: sequences of paragraphs
  Tables,    \* the tables: sequences of structures
  MaxLost,   \* bound: bytes of the last structure that len leaves out
  MaxText    \* what snprintf leaves of a string (49)

Byte == 0..255

StructureType == [type : Byte, claims : Byte, index : [1..4 -> Byte], strings : Seq(Seq(Byte))]

ASSUME TablesAssumption == Tables \subseteq Seq(StructureType)
ASSUME BoundsAssumption == MaxLost \in Nat /\ MaxText \in Nat \ {0}
ASSUME SegmentsAssumption == \A s \in Segments : s \in Seq({"SM", "DMI", "other"})

VARIABLES
  segment,   \* of a paragraph: "SM" (the anchor, checksum right), "DMI" or "other"
  memory,    \* how much of /dev/mem can be mapped: "all", "segment" or "none"
  table,     \* the structures the BIOS has made, [type, claims, index, strings]
  buf, len, num,
  pc,        \* "scan" (do_dmi_decode), "walk" (dmi_table), "done", or "exited"
             \* (the segment cannot be mapped, and the program ends)
  fp,        \* the paragraph
  found,
  data, i,   \* the offset of the structure, and its number
  dmi_data,  \* by type of structure and position of its string index
  reach      \* history: the highest offset of the table that was read

bios == <<segment, memory, table, buf, len, num>>
vars == <<bios, pc, fp, found, data, i, dmi_data, reach>>

-----------------------------------------------------------------------------
(***************************************************************************)
(* The BIOS                                                                *)
(***************************************************************************)

Types == 0..2  \* BIOS, system, base board

\* Bytes before the strings: type, length, handle, the string indices, the rest.
BodySize(t) == CASE t = 0 -> 18 [] t \in {1, 2} -> 8 [] OTHER -> 4

Body(st) ==
  SubSeq(<<st.type, st.claims, 0, 1>> \o st.index \o [k \in 1..18 |-> 0], 1, BodySize(st.type))

\* The strings of a structure, each with its NUL, and one NUL more; without
\* strings two NULs.
Strings(st) ==
  IF st.strings = <<>> THEN <<0, 0>>
  ELSE FlattenSeq([k \in DOMAIN st.strings |-> st.strings[k] \o <<0>>]) \o <<0>>

Bytes(structures) == FlattenSeq([k \in DOMAIN structures |-> Body(structures[k]) \o Strings(structures[k])])

Init ==
  /\ segment \in Segments
  /\ memory \in {"all", "segment", "none"}
  /\ table \in Tables
  /\ buf = Bytes(table)
  /\ \E lost \in 0..MaxLost : len = IF Len(buf) > lost THEN Len(buf) - lost ELSE 0
  /\ num \in {Len(table) - 1, Len(table), Len(table) + 1} \cap Nat
  /\ pc = IF memory = "none" THEN "exited" ELSE "scan"
  /\ fp = 1
  /\ found = 0
  /\ data = 0
  /\ i = 0
  /\ dmi_data = [t \in Types |-> [f \in 1..4 |-> <<>>]]
  /\ reach = -1

-----------------------------------------------------------------------------
(***************************************************************************)
(* do_dmi_decode: the loop over the paragraphs                             *)
(***************************************************************************)

Anchor(k) == segment[k] = "SM" /\ k < Len(segment)

\* smbios_decode: the second half follows in the next paragraph.
EntryPoint(k) == segment[k + 1] = "DMI"

\* A paragraph is passed over after every anchor, good or bad.
NextParagraph(k) == IF Anchor(k) THEN k + 2 ELSE k + 1

Scan ==
  /\ pc = "scan"
  /\ IF fp > Len(segment)
     THEN pc' = "done" /\ UNCHANGED <<fp, found, data, i>>
     ELSE /\ fp' = NextParagraph(fp)
          /\ IF Anchor(fp) /\ EntryPoint(fp)
             THEN /\ found' = found + 1
                  /\ data' = 0 /\ i' = 0
                  /\ pc' = IF memory = "all" THEN "walk" ELSE "scan"
             ELSE UNCHANGED <<pc, found, data, i>>
  /\ UNCHANGED <<bios, dmi_data, reach>>

-----------------------------------------------------------------------------
(***************************************************************************)
(* dmi_string                                                              *)
(***************************************************************************)

\* Beyond the table there is any byte; a NUL stands for it, and InBounds says
\* that none is read.
At(n) == IF n < len THEN buf[n + 1] ELSE 0

\* Where the string that begins at n ends.
Nul(n) == CHOOSE k \in n..(n + len) : At(k) = 0 /\ \A j \in n..(k - 1) : At(j) # 0

\* bp after s - 1 rounds of the loop; it stays at an empty string.
StringAt(d, s) ==
  LET bp[k \in 1..s] == IF k = 1 THEN d + At(d + 1)
                        ELSE IF At(bp[k - 1]) = 0 THEN bp[k - 1] ELSE Nul(bp[k - 1]) + 1
  IN  bp[s]

NotSpecified == <<-2>>  \* "Not Specified"
BadIndex == <<-1>>      \* "<bad index>"

\* ASCII filtering; the bytes are signed, so those from 128 on are below 32.
Printable(c) == IF c < 32 \/ c >= 127 THEN 46 ELSE c

Filtered(str) == [k \in DOMAIN str |-> Printable(str[k])]

dmi_string(d, s) ==
  IF s = 0 THEN NotSpecified
  ELSE LET bp == StringAt(d, s)
       IN  IF At(bp) = 0 THEN BadIndex
           ELSE Filtered([k \in 1..(Nul(bp) - bp) |-> At(bp + k - 1)])

\* The last byte dmi_string looks at.
StringReach(d, s) == IF s = 0 THEN -1 ELSE Nul(StringAt(d, s))

-----------------------------------------------------------------------------
(***************************************************************************)
(* dmi_decode and dmi_table                                                *)
(***************************************************************************)

Fields(t) == IF t = 0 THEN 1..3 ELSE 1..4

LongEnough(t, length) == length >= (IF t = 0 THEN 18 ELSE 8)

\* Mutant: sprintf for snprintf.
Whole(str) == str

\* snprintf
Cut(str) == SubSeq(str, 1, IF Len(str) < MaxText THEN Len(str) ELSE MaxText)

\* Blanks at both ends go; the filter has left no other white space.
trim(str) ==
  LET ink == {k \in DOMAIN str : str[k] # 32}
  IN  IF ink = {} THEN <<>> ELSE SubSeq(str, Min(ink), Max(ink))

\* board_vendor, board_product and bios_version
Trimmed(t, f) == <<t, f>> \in {<<2, 1>>, <<2, 2>>, <<0, 2>>}

dmi_decode ==
  LET t == At(data)
      Decodes(u) == u = t /\ LongEnough(t, At(data + 1))
      Text(u, f) == IF Decodes(u) /\ f \in Fields(u)
                    THEN Cut(dmi_string(data, At(data + 3 + f))) ELSE dmi_data[u][f]
  IN  dmi_data' = [u \in Types |-> [f \in 1..4 |->
                    IF Trimmed(u, f) THEN trim(Text(u, f)) ELSE Text(u, f)]]

\* Mutant: the scan compares a byte beyond the end.
NoNext(n) == n >= len

\* There is no room for two more bytes.
AtEnd(n) == n + 1 >= len

\* data + h->length
StringsFrom == data + At(data + 1)

\* "look for the next handle": where two NULs end the strings, or the end.
Terminator ==
  LET Stops(n) == AtEnd(n) \/ (At(n) = 0 /\ At(n + 1) = 0)
  IN  CHOOSE n \in StringsFrom..(StringsFrom + len) : Stops(n) /\ \A m \in StringsFrom..(n - 1) : ~Stops(m)

\* Mutant: a structure that ends with the table is left out.
FitsBefore(next) == next < len

Fits(next) == next <= len

Decode(next) == IF Fits(next) THEN dmi_decode ELSE UNCHANGED dmi_data

\* The last byte the scan compares when it stops at n.
ScanReach(n) ==
  IF ~AtEnd(n) THEN n + 1 ELSE IF n = StringsFrom THEN -1 ELSE n

DecodeReach(next) ==
  IF Fits(next) /\ At(data) \in Types /\ LongEnough(At(data), At(data + 1))
  THEN {StringReach(data, At(data + 3 + f)) : f \in Fields(At(data))} ELSE {}

Walk ==
  /\ pc = "walk"
  /\ IF i < num /\ data + 4 <= len
     THEN LET next == Terminator + 2
              read == {reach, data + 1, ScanReach(Terminator)} \cup DecodeReach(next)
          IN  /\ Decode(next)
              /\ data' = next
              /\ i' = i + 1
              /\ reach' = Max(read)
              /\ UNCHANGED pc
     ELSE pc' = "scan" /\ UNCHANGED <<data, i, dmi_data, reach>>
  /\ UNCHANGED <<bios, fp, found>>

Next == Scan \/ Walk

Spec == Init /\ [][Next]_vars

-----------------------------------------------------------------------------
TypeOK ==
  /\ pc \in {"scan", "walk", "done", "exited"}
  /\ fp \in 1..(Len(segment) + 1)
  /\ found \in 0..Len(segment)
  /\ data \in Nat /\ i \in 0..num
  /\ \A t \in Types, f \in 1..4 : Len(dmi_data[t][f]) <= MaxText
  /\ reach \in Int

\* No byte outside the table is looked at, wherever len cuts it short and
\* whatever length a structure claims: not by the search for the two NULs,
\* nor by the search for a string that is not there.
InBounds == reach < len

\* The structures of which len and num leave nothing out.
Complete == {k \in 1..Len(table) : k <= num /\ Len(Bytes(SubSeq(table, 1, k))) <= len}

\* What a structure says of a field, by its list of strings.
Said(st, f) ==
  LET s == st.index[f]
  IN  CASE s = 0 -> NotSpecified
        [] s > Len(st.strings) -> BadIndex
        [] OTHER -> Cut(Filtered(st.strings[s]))

Expected(t, f) ==
  LET of == {k \in Complete : table[k].type = t}
      text == IF of = {} \/ f \notin Fields(t) THEN <<>> ELSE Said(table[Max(of)], f)
  IN  IF Trimmed(t, f) THEN trim(text) ELSE text

\* A structure ends where it says, and a string at its NUL; a string has a byte.
GoodStructure(st) ==
  /\ st.claims = BodySize(st.type)
  /\ \A s \in 1..Len(st.strings) : st.strings[s] # <<>> /\ \A p \in 1..Len(st.strings[s]) : st.strings[s][p] # 0

WellFormed == \A k \in 1..Len(table) : GoodStructure(table[k])

\* A segment with one anchor, which is good.
OneEntry ==
  \E k \in 1..(Len(segment) - 1) :
    segment[k] = "SM" /\ segment[k + 1] = "DMI" /\ \A j \in 1..Len(segment) : segment[j] = "SM" => j = k

\* The decoder undoes what the BIOS has done: every name is that of the last
\* complete structure of its type, and a structure that len or num cuts off
\* leaves no trace.  breakin.dat and the windows show these names.
Decoded ==
  pc = "done" /\ memory = "all" /\ OneEntry /\ WellFormed =>
    \A t \in Types, f \in 1..4 : dmi_data[t][f] = Expected(t, f)
=============================================================================
