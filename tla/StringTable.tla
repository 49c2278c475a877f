---------------------------- MODULE StringTable ----------------------------
(***************************************************************************)
(* The string-interning table of the compiler frontend                     *)
(* (src/compiler_frontend/symbols/string_interning.rs).                    *)
(*                                                                         *)
(* A table hands out StringIds 0, 1, 2, ... in the order in which new      *)
(* strings are interned and never removes one, so a table is the sequence  *)
(* of its strings and the id of a string is its position minus one.  A     *)
(* fork shares the strings of its source as an immutable prefix ("base")   *)
(* and appends its own; the code splits a fork into base and suffix, and   *)
(* every operation reads the two as one sequence, as this module does.     *)
(***************************************************************************)
EXTENDS Naturals, Sequences

\* The id is issued by this table.
Issued(table, id) == id \in Nat /\ id < Len(table)

Resolve(table, id) == table[id + 1]

Known(table, s) == \E i \in DOMAIN table : table[i] = s

\* The table after a string was interned.
Intern(table, s) == IF Known(table, s) THEN table ELSE Append(table, s)

\* What a lookup of a string the table holds returns.
IdOf(table, s) == (CHOOSE i \in DOMAIN table : table[i] = s) - 1

(***************************************************************************)
(* The remap a merge builds, one string of the source suffix at a time:    *)
(* ids below prefix are the same in both tables, id prefix + k of the      *)
(* source is suffix[k + 1] in the target, and identity caches whether      *)
(* every id seen so far kept its number.                                   *)
(***************************************************************************)
NewRemap(baseLen) == [prefix |-> baseLen, suffix |-> << >>, identity |-> TRUE]

\* A plausible bug: the identity flag of the last string instead of all.
RemapNextOnly(remap, newId) ==
    [remap EXCEPT
        !.suffix = Append(@, newId),
        !.identity = newId = remap.prefix + Len(remap.suffix)]

\* One iteration of merge_delta_from.
RemapNext(remap, newId) ==
    [remap EXCEPT
        !.suffix = Append(@, newId),
        !.identity = @ /\ newId = remap.prefix + Len(remap.suffix)]

RemapGet(remap, old) ==
    IF old < remap.prefix THEN old ELSE remap.suffix[old - remap.prefix + 1]

\* No string has two ids.
NoDuplicates(table) ==
    \A i, j \in DOMAIN table : table[i] = table[j] => i = j

(***************************************************************************)
(* The reference a merged table is held against.  An occurrence is a       *)
(* string at a place: the number of a text and a position in it.           *)
(***************************************************************************)
Occurrences(text, number) ==
    {[text |-> text[j], at |-> <<number, j>>] : j \in DOMAIN text}

Precedes(p, q) == p[1] < q[1] \/ (p[1] = q[1] /\ p[2] < q[2])

\* The table lists the strings that occur, each once, in the order of their
\* first occurrence.
ListsByOccurrence(table, occurrences) ==
    /\ NoDuplicates(table)
    /\ {table[i] : i \in DOMAIN table} = {o.text : o \in occurrences}
    /\ \A i, j \in DOMAIN table : i < j =>
          \E o \in occurrences :
              /\ o.text = table[i]
              /\ \A q \in occurrences :
                    q.text = table[j] => Precedes(o.at, q.at)
=============================================================================
