------------------------------- MODULE Naming -------------------------------
(***************************************************************************)
(* Names that have to fit (engine/protocol/naming.go).  A child index is   *)
(* named after parent and partition, cut and tagged with a hash when that  *)
(* is too long; a leftover of REINDEX CONCURRENTLY is named by PostgreSQL  *)
(* after its base, cut to make room for the suffix.  A name is a sequence  *)
(* of symbols of different widths: runes, and tags, which are what a hash  *)
(* looks like and somebody may use in a name of his own.                   *)
(***************************************************************************)
EXTENDS Naturals, FiniteSets, SequencesExt

CONSTANTS
  WidthOf,     \* the bytes of each symbol
  Tag,         \* the symbols that look like a tag
  TagBytes,    \* the bytes of a tag, its underscore included
  SuffixBytes, \* the bytes of _ccnew and of _ccold
  Digit,       \* the numbers PostgreSQL appends, none for the first
  MaxBytes,    \* MaxIdentifierBytes
  Prefix,      \* the parent's name and the underscore after it
  MaxSymbols   \* the longest partition name looked at

Symbol == DOMAIN WidthOf

ASSUME WidthAssumption ==
  /\ WidthOf \in [Symbol -> Nat \ {0}] /\ Tag \subseteq Symbol
  /\ \A t \in Tag : WidthOf[t] = TagBytes
  /\ {TagBytes, SuffixBytes, MaxBytes, MaxSymbols} \subseteq Nat
  /\ TagBytes <= MaxBytes /\ SuffixBytes + 1 <= MaxBytes
  /\ Prefix \in Seq(Symbol)

Bytes(s) ==
  LET upto[k \in 0..Len(s)] == IF k = 0 THEN 0 ELSE upto[k - 1] + WidthOf[s[k]]
  IN  upto[Len(s)]

(* The longest prefix that fits and splits no rune.                        *)
truncateUTF8(s, budget) ==
  LET Fits == {k \in 0..Len(s) : Bytes(SubSeq(s, 1, k)) <= budget}
  IN  SubSeq(s, 1, CHOOSE k \in Fits : \A m \in Fits : m <= k)

Partition ==
  {s \in UNION {[1..n -> Symbol] : n \in 1..MaxSymbols} : Bytes(s) <= MaxBytes}

-----------------------------------------------------------------------------
(* Child index names *)

looksTagged(s) == s # <<>> /\ Last(s) \in Tag

(* Mutant: a name that fits is left as it is. *)
FitsAlready(s) == Bytes(s) <= MaxBytes

Natural(s) == Bytes(s) <= MaxBytes /\ ~looksTagged(s)

(* tag: the hash of parent and partition.                                  *)
ChildIndexName(partition, tag) ==
  LET natural == Prefix \o partition
  IN  IF Natural(natural) THEN natural
      ELSE Append(truncateUTF8(natural, MaxBytes - TagBytes), tag)

(* Two partitions of one schema get two names, and each name fits, unless  *)
(* their hashes collide: nobody can name a partition after what another is *)
(* cut to (ChildIndexNames would refuse the tree).                         *)
ChildrenApart ==
  \A p, q \in Partition : p # q =>
    \A s, t \in Tag :
      /\ Bytes(ChildIndexName(p, s)) <= MaxBytes
      /\ s # t => ChildIndexName(p, s) # ChildIndexName(q, t)

-----------------------------------------------------------------------------
(* Leftovers: a stem and a suffix; every other name is all stem *)

Kind == {"ccnew", "ccold"}

Plain(s) == [stem |-> s, kind |-> "none", digit |-> 0]

SuffixOf(n) == SuffixBytes + IF n.digit = 0 THEN 0 ELSE 1

(* PostgreSQL: the base cut to fit, with the first number that is free.    *)
Derived(base, kind, digit) ==
  LET n == [stem |-> <<>>, kind |-> kind, digit |-> digit]
  IN  [n EXCEPT !.stem = truncateUTF8(base.stem, MaxBytes - SuffixOf(n))]

Rebuild(base, kind, taken) ==
  LET Free == {d \in Digit : Derived(base, kind, d) \notin taken}
  IN  Derived(base, kind, CHOOSE d \in Free : \A e \in Free : d <= e)

DerivesLeftover(base, leftover) ==
  /\ leftover.kind # "none"
  /\ leftover = Derived(base, leftover.kind, leftover.digit)

(* Mutant: an index named exactly like the stem is the base. *)
BasesStemFirst(leftover, candidates) ==
  LET Exact == {c \in candidates : c = Plain(leftover.stem)}
  IN  IF Exact # {} THEN Exact
      ELSE {c \in candidates : c.kind = "none" /\ DerivesLeftover(c, leftover)}

(* A leftover is never the base of another.                                *)
Bases(leftover, candidates) ==
  {c \in candidates : c.kind = "none" /\ DerivesLeftover(c, leftover)}

(* One base is the answer; none or several are no answer.                  *)
ResolveLeftoverBase(leftover, candidates) ==
  IF Cardinality(Bases(leftover, candidates)) = 1
  THEN CHOOSE b \in candidates : Bases(leftover, candidates) = {b}
  ELSE Plain(<<>>)

(* Whichever two indexes a partition has, and in whatever order rebuilds of*)
(* them die, each leftover is resolved to the index it was made from, or to*)
(* none when the cut has made the two alike: never to the other one, whose *)
(* marker would then license the drop (authorizeLeftover).                 *)
BaseIsFound ==
  \A p, q \in Partition : p # q =>
    LET names == {Plain(p), Plain(q)} IN
    \A k1, k2 \in Kind :
      LET first  == Rebuild(Plain(q), k1, names)
          second == Rebuild(Plain(p), k2, names \cup {first})
          all    == names \cup {first, second}
          alike  == DerivesLeftover(Plain(q), second)
      IN  /\ Bytes(second.stem) + SuffixOf(second) <= MaxBytes
          /\ ResolveLeftoverBase(second, all) = IF alike THEN Plain(<<>>) ELSE Plain(p)

=============================================================================
