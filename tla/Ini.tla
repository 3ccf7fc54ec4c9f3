--------------------------------- MODULE Ini ----------------------------------
(***************************************************************************)
(* lib/minIni/dev/minIni.c: INI files as sequences of lines.  A line is    *)
(* the head of a section, a key with its value, or neither (blank, a       *)
(* comment): spaces, quotes and the case of names are left out, and so are *)
(* the blank lines minIni adds behind a section.                           *)
(***************************************************************************)
EXTENDS Integers, Sequences

Line == [kind : {"section", "key", "other"}, name : STRING, value : Nat]

SectionLine(name)      == [kind |-> "section", name |-> name, value |-> 0]
ValueLine(name, value) == [kind |-> "key", name |-> name, value |-> value]
Other                  == [kind |-> "other", name |-> "", value |-> 0]

\* The first line at or after i that is a head, 1 + Len(lines) if there is none.
NextHead(lines, i) ==
    LET heads == {j \in i..Len(lines) : lines[j].kind = "section"}
    IN IF heads = {} THEN Len(lines) + 1
       ELSE CHOOSE j \in heads : \A k \in heads : j <= k

\* The first line that opens section, 0 if there is none: the loop that every
\* function of minIni starts with.
FirstHead(lines, section) ==
    LET heads == {j \in DOMAIN lines : lines[j] = SectionLine(section)}
    IN IF heads = {} THEN 0 ELSE CHOOSE j \in heads : \A k \in heads : j <= k

\* Line i lies in section: the last head at or above it is one of that name.
LiesIn(lines, i, section) ==
    \E j \in 1..i : /\ lines[j] = SectionLine(section)
                   /\ \A k \in (j + 1)..i : lines[k].kind # "section"

\* ini_browse: the lines for which it calls back with this section and key, in
\* the order of the file.
Callbacks(lines, section, key) ==
    {i \in DOMAIN lines : /\ lines[i].kind = "key" /\ lines[i].name = key
                          /\ LiesIn(lines, i, section)}

\* putsection: nothing at all when there are no keys.
Section(section, keys) ==
    IF keys = <<>> THEN <<>> ELSE <<SectionLine(section)>> \o keys

\* Mutant: the rest of the file is not copied.
IniPutSectionLast(lines, section, keys) ==
    LET i == FirstHead(lines, section)
    IN SubSeq(lines, 1, IF i = 0 THEN Len(lines) ELSE i - 1)
         \o Section(section, keys)

\* ini_putsection on a file that exists: the first section of that name gives
\* way to the new one, and a new one goes to the end of the file.
IniPutSection(lines, section, keys) ==
    LET i == FirstHead(lines, section)
    IN IF i = 0
       THEN lines \o Section(section, keys)
       ELSE SubSeq(lines, 1, i - 1) \o Section(section, keys)
              \o SubSeq(lines, NextHead(lines, i + 1), Len(lines))

\* getkeystring: the line of a key in the first section of that name, or 0.
KeyLine(lines, section, key) ==
    LET i    == FirstHead(lines, section)
        keys == {j \in i + 1..NextHead(lines, i + 1) - 1 :
                   lines[j].kind = "key" /\ lines[j].name = key}
    IN IF i = 0 \/ keys = {} THEN 0
       ELSE CHOOSE j \in keys : \A k \in keys : j <= k

\* ini_puts with a key and a value: the line of the key is replaced, whether in
\* place or through the temporary file; a new key goes to the end of its
\* section, a new section to the end of the file.
IniPuts(lines, section, key, value) ==
    LET i == FirstHead(lines, section)
        j == KeyLine(lines, section, key)
    IN IF i = 0 THEN lines \o Section(section, <<ValueLine(key, value)>>)
       ELSE IF j # 0 THEN [lines EXCEPT ![j] = ValueLine(key, value)]
       ELSE LET end == NextHead(lines, i + 1)
            IN SubSeq(lines, 1, end - 1) \o <<ValueLine(key, value)>>
                 \o SubSeq(lines, end, Len(lines))
==============================================================================
