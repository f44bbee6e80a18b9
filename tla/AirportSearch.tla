---------------------------- MODULE AirportSearch ----------------------------
(***************************************************************************)
(* The offline airport reference of internal/services/airports and the     *)
(* list GET /api/v1/airports answers with.  No state: the dataset is read  *)
(* once and never changes, so every operation is an operator on its rows.  *)
(*                                                                         *)
(* A text is a sequence of code points, which is how Go compares strings.  *)
(* A row keeps what the lookups and the ranking read: iata, city, name,    *)
(* type and scheduled.                                                     *)
(***************************************************************************)
EXTENDS Integers, FiniteSets, Sequences, SequencesExt

CONSTANTS
    Chars,      \* the code points of queries and of the dataset
    Space, Hyphen, Slash,
    Capitals,       \* A to Z, which airport codes are made of
    FoldChar,       \* FoldChar[c]: what fold leaves of c, in lower case and
                    \*   without accents; nothing of a combining mark
    UpperChar,      \* UpperChar[c]: c in upper case
    SearchLimit,    \* hits in an answer: 8
    BrowseLimit     \* hubs in the browse list: 20

ASSUME CharsAssumption ==
    /\ Chars \subseteq Nat /\ {Space, Hyphen, Slash} \subseteq Chars
    /\ FoldChar \in [Chars -> Seq(Chars)] /\ UpperChar \in [Chars -> Chars]
    /\ \A c \in {Space, Hyphen, Slash} : FoldChar[c] = <<c>> /\ UpperChar[c] = c
ASSUME CapitalsAssumption ==
    /\ Capitals \subseteq Chars \ {Space}
    /\ \A c \in Capitals : UpperChar[c] = c
    /\ \A c \in Chars : UpperChar[c] \in Capitals => FoldChar[c] # <<>>
ASSUME LimitsAssumption == {SearchLimit, BrowseLimit} \subseteq Nat \ {0}

-----------------------------------------------------------------------------
(* Texts *)

TrimSpace(s) ==
    LET solid == {i \in DOMAIN s : s[i] # Space}
    IN  IF solid = {} THEN <<>> ELSE SubSeq(s, Min(solid), Max(solid))

(* fold, letter by letter.  Letters that its last step, NFC, joins to a    *)
(* new one (Hangul, some Indic vowel signs) are not in the dataset.        *)
Folded(s) ==
    LET fold[n \in 0 .. Len(s)] == IF n = 0 THEN <<>> ELSE fold[n - 1] \o FoldChar[s[n]]
    IN  fold[Len(s)]

ToUpper(s) == [i \in DOMAIN s |-> UpperChar[s[i]]]

(* s < t as Go compares strings. *)
TextLess(s, t) ==
    \E i \in DOMAIN t :
        /\ i > Len(s) \/ s[i] < t[i]
        /\ \A j \in 1 .. i - 1 : j <= Len(s) /\ s[j] = t[j]

(* Mutant of WordPrefix: only a whole word matches. *)
WholeWord(s, q) ==
    \E i \in 0 .. Len(s) - Len(q) :
        /\ i > 0 => s[i] \in {Space, Hyphen, Slash}
        /\ i + Len(q) < Len(s) => s[i + Len(q) + 1] \in {Space, Hyphen, Slash}
        /\ SubSeq(s, i + 1, i + Len(q)) = q

(* Some word of s starts with q: q is found at the start of s or right     *)
(* after a separator.                                                      *)
WordPrefix(s, q) ==
    \E i \in 0 .. Len(s) :
        /\ i > 0 => s[i] \in {Space, Hyphen, Slash}
        /\ IsPrefix(q, SubSeq(s, i + 1, Len(s)))

-----------------------------------------------------------------------------
(* The dataset: all is the sequence of rows, in the order of the file *)

(* A row as scripts/prepare-airports keeps it: its code is capital letters *)
(* and no more (iataRe).                                                   *)
IsRow(a) ==
    /\ a.iata \in Seq(Capitals) \ {<<>>}
    /\ a.city \in Seq(Chars) /\ a.name \in Seq(Chars)
    /\ a.scheduled \in BOOLEAN
IsDataset(all) == all \in Seq(ToSet(all)) /\ \A i \in DOMAIN all : IsRow(all[i])

Codes(all) == {all[i].iata : i \in DOMAIN all}

(* byIATA: the last row with a code is the one kept. *)
ByIATA(all, code) == all[Max({i \in DOMAIN all : all[i].iata = code})]

Exists(all, code) == ToUpper(code) \in Codes(all)
Get(all, code) == ByIATA(all, ToUpper(code))

(* Mutant of PopularBefore: airports of one city are left unordered. *)
PopularBeforeByCity(a, b) == TextLess(a.city, b.city)

PopularBefore(a, b) ==
    \/ TextLess(a.city, b.city)
    \/ a.city = b.city /\ TextLess(a.iata, b.iata)

(* Every list New may leave in popular: the rows are collected in the      *)
(* order a Go map is walked, which is any, and sort.Slice may permute rows *)
(* neither of which comes before the other.                                *)
PopularLists(all) ==
    LET hubs == {a \in {ByIATA(all, code) : code \in Codes(all)} :
                    a.type = "large_airport" /\ a.scheduled}
    IN  {p \in SetToSeqs(hubs) :
            \A i, j \in DOMAIN p : PopularBefore(p[i], p[j]) => i < j}

Popular(popular, limit) ==
    IF limit <= 0 THEN popular ELSE SubSeq(popular, 1, Min({limit, Len(popular)}))

-----------------------------------------------------------------------------
(* Search *)

TypeRank(type) ==
    CASE type = "large_airport" -> 0
      [] type = "medium_airport" -> 1
      [] OTHER -> 2

MatchNone == 4

(* Mutant of Tier: an exact code is one more prefix of a code. *)
TierWithoutExact(a, q) ==
    IF WordPrefix(Folded(a.city), Folded(q)) THEN 1
    ELSE IF WordPrefix(Folded(a.name), Folded(q)) THEN 2
    ELSE IF IsPrefix(ToUpper(q), a.iata) THEN 3
    ELSE MatchNone

Tier(a, q) ==
    IF a.iata = ToUpper(q) THEN 0
    ELSE IF WordPrefix(Folded(a.city), Folded(q)) THEN 1
    ELSE IF WordPrefix(Folded(a.name), Folded(q)) THEN 2
    ELSE IF IsPrefix(ToUpper(q), a.iata) THEN 3
    ELSE MatchNone

Better(a, b, q) ==
    \/ Tier(a, q) < Tier(b, q)
    \/ /\ Tier(a, q) = Tier(b, q)
       /\ \/ a.scheduled /\ ~b.scheduled
          \/ /\ a.scheduled = b.scheduled
             /\ \/ TypeRank(a.type) < TypeRank(b.type)
                \/ TypeRank(a.type) = TypeRank(b.type) /\ TextLess(a.city, b.city)

(* The rows that match, by their place in the file. *)
Hits(all, q) == {i \in DOMAIN all : Tier(all[i], q) # MatchNone}

(* sort.SliceStable: before a hit go the better ones, and the earlier ones *)
(* that are no worse; how many they are is its place.                      *)
Ahead(all, q, i) ==
    {j \in Hits(all, q) :
        \/ Better(all[j], all[i], q)
        \/ j < i /\ ~Better(all[i], all[j], q)}

Ranked(all, q) ==
    [place \in 1 .. Cardinality(Hits(all, q)) |->
        all[CHOOSE i \in Hits(all, q) : Cardinality(Ahead(all, q, i)) = place - 1]]

(* A query of nothing but combining marks finds nothing.                   *)
Search(all, query, limit) ==
    LET q == TrimSpace(query)
    IN  IF Folded(q) = <<>> \/ limit <= 0 THEN <<>>
        ELSE SubSeq(Ranked(all, q), 1, Min({limit, Cardinality(Hits(all, q))}))

(* handleSearchAirports: an empty query browses the hubs. *)
HandleSearchAirports(all, popular, q) ==
    IF TrimSpace(q) = <<>> THEN Popular(popular, BrowseLimit)
    ELSE Search(all, TrimSpace(q), SearchLimit)
=============================================================================
