------------------------------ MODULE IniFile ------------------------------
(***************************************************************************)
(* The configuration reader: the dictionary of dictionary.c, slot by slot, *)
(* and the queries of iniparser.c on it, as operators.                     *)
(*                                                                         *)
(* A key is a pair <<section, item>>: "section:item" in the code, and the  *)
(* section alone, without a colon, when item is "".  A line of a file is a *)
(* record [type, a, b], what iniparser_line makes of it: a section line    *)
(* has its name in a, a value line its item in a and its value in b.       *)
(* Continuation lines are one line.                                        *)
(***************************************************************************)
EXTENDS Integers, FiniteSets, Sequences

CONSTANT MinSize   \* DICTMINSZ

NoKey == <<>>      \* a NULL key: the slot is free
NoVal == "NULL"    \* a NULL value

Line(type, a, b) == [type |-> type, a |-> a, b |-> b]

\* n free slots
Blank(n, null) == <<>> \o [i \in 1 .. n |-> null]

DictNew == [size |-> MinSize, n |-> 0, key |-> Blank(MinSize, NoKey), val |-> Blank(MinSize, NoVal)]

Slots(d) == 1 .. d.size

\* dictionary_grow: twice the slots, the old ones first
DictGrow(d) == [size |-> 2 * d.size, n |-> d.n,
                key |-> d.key \o Blank(d.size, NoKey), val |-> d.val \o Blank(d.size, NoVal)]

\* The slot a new key goes to: the first free one after the first n, wrapping
\* at size.
Slot(d, o) == ((d.n + o) % d.size) + 1
FreeSlot(d) ==
  Slot(d, CHOOSE o \in 0 .. d.size - 1 :
            /\ d.key[Slot(d, o)] = NoKey
            /\ \A p \in 0 .. o - 1 : d.key[Slot(d, p)] # NoKey)

Holding(d, k) == {i \in Slots(d) : d.key[i] = k}

(***************************************************************************)
(* dictionary_set.  fail names the allocation that fails, if any: the      *)
(* larger table ("grow": nothing changes and the caller sees -1), the copy *)
(* of the key ("key": the slot stays free but is counted), the copy of the *)
(* value ("val").                                                          *)
(***************************************************************************)
GrowNeeded(d, k) == Holding(d, k) = {} /\ d.n = d.size

\* Mutant: a key that is already there keeps its first value.
DictSetKeepsOld(d, k, v, fail) ==
  LET g == IF d.n = d.size THEN DictGrow(d) ELSE d
  IN  IF Holding(d, k) # {} \/ fail = "grow" THEN d
      ELSE [g EXCEPT !.n = @ + 1, !.key[FreeSlot(g)] = k, !.val[FreeSlot(g)] = v]

DictSet(d, k, v, fail) ==
  LET copy == IF fail = "val" THEN NoVal ELSE v
      g == IF d.n = d.size THEN DictGrow(d) ELSE d
      i == FreeSlot(g)
  IN  CASE Holding(d, k) # {} ->
             [d EXCEPT !.val[CHOOSE j \in Holding(d, k) : TRUE] = copy]
        [] GrowNeeded(d, k) /\ fail = "grow" -> d
        [] OTHER -> [g EXCEPT !.n = @ + 1,
                              !.key[i] = IF fail = "key" THEN NoKey ELSE k,
                              !.val[i] = copy]

\* iniparser_getstring with NULL for what is not found
GetString(d, k) ==
  IF Holding(d, k) = {} THEN NoVal ELSE d.val[CHOOSE j \in Holding(d, k) : TRUE]

\* strtol: text that does not start with a number is 0
Strtol(v) == CASE v = "1" -> 1 [] v = "2" -> 2 [] v = "9" -> 9 [] v = "-1" -> -1 [] OTHER -> 0

\* iniparser_getint with -1 for what is not found
GetInt(d, k) == IF Holding(d, k) = {} THEN -1 ELSE Strtol(GetString(d, k))

\* The key is there and its value is NULL, which strtol is given.
GetIntCrashes(d, k) == Holding(d, k) # {} /\ GetString(d, k) = NoVal

SectionSlots(d) == {i \in Slots(d) : d.key[i] # NoKey /\ d.key[i][2] = ""}

GetNSec(d) == Cardinality(SectionSlots(d))

GetSecName(d, n) ==
  LET i == CHOOSE i \in SectionSlots(d) :
             Cardinality({j \in SectionSlots(d) : j < i}) = n
  IN  d.key[i][1]
-----------------------------------------------------------------------------
(***************************************************************************)
(* What a file says, without a dictionary: the entry every line stands     *)
(* for, the sections in order of first appearance, the last value given    *)
(* for an item.                                                            *)
(***************************************************************************)
SectionAt(file, i) ==
  LET above == {j \in 1 .. i : file[j].type = "section"}
  IN  IF above = {} THEN "" ELSE file[CHOOSE j \in above : \A l \in above : l <= j].a

Names(file, i, s) == file[i].type = "section" /\ file[i].a = s

Gives(file, i, s, item) == file[i].type = "value" /\ SectionAt(file, i) = s /\ file[i].a = item

\* lines is the set of lines that count.
NewSections(file, lines) ==
  {i \in lines : file[i].type = "section" /\ \A j \in lines : j < i => ~Names(file, j, file[i].a)}

Setting(file, lines, s, item) ==
  LET given == {i \in lines : Gives(file, i, s, item)}
  IN  IF given = {} THEN NoVal
      ELSE file[CHOOSE i \in given : \A j \in given : j <= i].b
=============================================================================
