---------------------------- MODULE StringSearch ----------------------------
(***************************************************************************)
(* Comparing and searching characters: char_traits and the char_traits_*   *)
(* functions of include/MSTL/core/string_view.hpp, and the members of      *)
(* basic_string_view and basic_string that call them. Characters are       *)
(* numbers; the sets of characters are kept by their low byte, which for a *)
(* type wider than char is not the character. 0 ends a C string.           *)
(***************************************************************************)
EXTENDS Integers, Sequences, SequencesExt, FiniteSetsExt

CONSTANTS
    Chars,      \* characters
    Byte,       \* the low byte of c is c % Byte
    MaxText,    \* bound: characters of the text
    MaxWord     \* bound: characters of what is looked for

VARIABLE st     \* text: what is searched; word: what for; wide: more than a byte

Npos == -1                                       \* what a failed search returns
All  == MaxText + MaxWord                        \* npos, as a position to start at
Less(i, j) == IF i < j THEN i ELSE j
At(s, i) == s[i + 1]
Part(s, i, n) == SubSeq(s, i + 1, i + n)
FirstWith(P, none) == IF P = {} THEN none ELSE Min(P)
LastWith(P) == IF P = {} THEN Npos ELSE Max(P)

-----------------------------------------------------------------------------
(* char_traits: compare of n characters, find of one, length.              *)

RECURSIVE CompareN(_, _, _)
CompareN(s, t, n) ==
    IF n = 0 THEN 0
    ELSE IF s[1] # t[1] THEN IF s[1] < t[1] THEN -1 ELSE 1
    ELSE CompareN(Tail(s), Tail(t), n - 1)
Scan(s, i, n, c) == FirstWith({k \in i .. i + n - 1 : At(s, k) = c}, Npos)
Length(s) == FirstWith({k \in 0 .. Len(s) - 1 : At(s, k) = 0}, Len(s))
CStr(s)   == Part(s, 0, Length(s))

Equal(s, t) == Len(s) = Len(t) /\ CompareN(s, t, Len(s)) = 0
Compare(s, t) ==
    LET c == CompareN(s, t, Less(Len(s), Len(t)))
    IN  IF c # 0 THEN c
        ELSE IF Len(s) < Len(t) THEN -1 ELSE IF Len(s) > Len(t) THEN 1 ELSE 0

-----------------------------------------------------------------------------
(* The searches. A candidate begins with the first character looked for.   *)

RECURSIVE FindFrom(_, _, _)
FindFrom(s, w, i) ==
    LET k == Scan(s, i, Len(s) - Len(w) + 1 - i, w[1])
    IN  IF k = Npos THEN Npos
        ELSE IF CompareN(Part(s, k, Len(w)), w, Len(w)) = 0 THEN k ELSE FindFrom(s, w, k + 1)
Find(s, i, w) ==
    IF Len(w) > Len(s) \/ i > Len(s) - Len(w) THEN Npos
    ELSE IF w = <<>> THEN i ELSE FindFrom(s, w, i)
FindChar(s, i, c) == IF i < Len(s) THEN Scan(s, i, Len(s) - i, c) ELSE Npos

RECURSIVE RFindFrom(_, _, _)
RFindFrom(s, w, i) ==
    IF At(s, i) = w[1] /\ CompareN(Part(s, i, Len(w)), w, Len(w)) = 0 THEN i
    ELSE IF i = 0 THEN Npos ELSE RFindFrom(s, w, i - 1)
RFind_whole(s, i, w) ==
    IF w = <<>> THEN Less(i, Len(s))
    ELSE IF Len(w) <= Len(s) THEN RFindFrom(s, w, Less(i, Len(s) - 1)) ELSE Npos
RFind(s, i, w) ==
    IF w = <<>> THEN Less(i, Len(s))
    ELSE IF Len(w) <= Len(s) THEN RFindFrom(s, w, Less(i, Len(s) - Len(w))) ELSE Npos
RFindChar(s, i, c) == RFind(s, i, <<c>>)

(* __string_bitmap: marks and matches low bytes.                           *)
Low(c)          == IF st.wide THEN c % Byte ELSE c
Matches(w, c)   == \E k \in DOMAIN w : Low(w[k]) = Low(c)
Ahead(s, i)     == i .. Len(s) - 1
Behind(s, i)    == 0 .. Less(i, Len(s) - 1)

FindFirstOf(s, i, w)    == FirstWith({k \in Ahead(s, i) : Matches(w, At(s, k))}, Npos)
FindFirstNotOf(s, i, w) == FirstWith({k \in Ahead(s, i) : ~Matches(w, At(s, k))}, Npos)
FindLastOf(s, i, w)     == LastWith({k \in Behind(s, i) : Matches(w, At(s, k))})
FindLastNotOf(s, i, w)  == LastWith({k \in Behind(s, i) : ~Matches(w, At(s, k))})
FindNotChar(s, i, c)    == FirstWith({k \in Ahead(s, i) : At(s, k) # c}, Npos)
RFindNotChar(s, i, c)   == LastWith({k \in Behind(s, i) : At(s, k) # c})

-----------------------------------------------------------------------------
(* Members of both classes.                                                *)

SubView(s, off, n)      == Part(s, off, Less(n, Len(s) - off))
RemovePrefix(s, n)      == Part(s, n, Len(s) - n)
RemoveSuffix(s, n)      == Part(s, 0, Len(s) - n)
CompareParts(s, i, n, t, j, m) == Compare(SubView(s, i, n), SubView(t, j, m))
StartsWith(s, w)        == Len(w) <= Len(s) /\ CompareN(s, w, Len(w)) = 0
EndsWith(s, w)          ==
    Len(w) <= Len(s) /\ CompareN(Part(s, Len(s) - Len(w), Len(w)), w, Len(w)) = 0
ContainsWord(s, w)      == Find(s, 0, w) # Npos
Count(s, c, i)          == Cardinality({k \in Ahead(s, i) : At(s, k) = c})
(* Each search where it starts when not told, and its place for one        *)
(* character: those forwards start at 0, those backwards at npos, but for  *)
(* basic_string::rfind of a view, which starts at 0.                       *)
Searches(s, w, back) ==
    [find          |-> Find(s, 0, w),          rfind        |-> RFind(s, back, w),
     find_first_of |-> FindFirstOf(s, 0, w),   find_last_of |-> FindLastOf(s, All, w),
     find_first_not_of |-> FindFirstNotOf(s, 0, w),
     find_last_not_of  |-> FindLastNotOf(s, All, w)]
ViewSearches(s, w)   == Searches(s, w, All)
StringSearches(s, w) == Searches(s, w, 0)
CharSearches(s, c) ==
    [find          |-> FindChar(s, 0, c),      rfind        |-> RFindChar(s, All, c),
     find_first_of |-> FindChar(s, 0, c),      find_last_of |-> RFindChar(s, All, c),
     find_first_not_of |-> FindNotChar(s, 0, c),
     find_last_not_of  |-> RFindNotChar(s, All, c)]
(* The order of the operators. >= of two strings asks whether the second   *)
(* is less than the first, as <= does.                                     *)
ViewOrder(s, t)   ==
    LET c == Compare(s, t) IN [lt |-> c < 0, gt |-> c > 0, le |-> c <= 0, ge |-> c >= 0]
StringOrder(s, t) ==
    LET c == Compare(s, t) IN [lt |-> c < 0, gt |-> c > 0, le |-> ~(c > 0), ge |-> ~(c > 0)]

-----------------------------------------------------------------------------

Words(n) == UNION {[1 .. k -> Chars] : k \in 0 .. n}
InitSearch == st \in [text : {<<>>}, word : Words(MaxWord), wide : BOOLEAN]
NextSearch == Len(st.text) < MaxText /\ \E c \in Chars : st' = [st EXCEPT !.text = Append(@, c)]

s == st.text
w == st.word
Starts == 0 .. Len(s) + 1 \cup {All}
OccursAt(t, k) == k + Len(t) <= Len(s) /\ Part(s, k, Len(t)) = t
Has(c) == c \in {w[k] : k \in DOMAIN w}
(* First and last position that satisfies P and is not before, not after i *)
IsFirst(r, i, P) == r = FirstWith({k \in P : k >= i}, Npos)
IsLast(r, i, P)  == r = LastWith({k \in P : k <= i})
Positions == 0 .. Len(s)
Among     == {k \in 0 .. Len(s) - 1 : Has(At(s, k))}
NotAmong  == (0 .. Len(s) - 1) \ Among

(* The lexicographical order: the first difference decides.                *)
Before(a, b) ==
    \E k \in 0 .. Less(Len(a), Len(b)) :
        /\ Part(a, 0, k) = Part(b, 0, k)
        /\ IF k = Len(a) THEN k < Len(b) ELSE k < Len(b) /\ At(a, k) < At(b, k)

(* A search finds the first, or the last, place where the word occurs.     *)
FindsPlaces ==
    \A i \in Starts :
       /\ IsFirst(Find(s, i, w), i, {k \in Positions : OccursAt(w, k)})
       /\ IsLast(RFind(s, i, w), i, {k \in Positions : OccursAt(w, k)})
       /\ \A c \in Chars :
             /\ IsFirst(FindChar(s, i, c), i, {k \in Positions : OccursAt(<<c>>, k)})
             /\ IsLast(RFindChar(s, i, c), i, {k \in Positions : OccursAt(<<c>>, k)})
             /\ IsFirst(FindNotChar(s, i, c), i, {k \in 0 .. Len(s) - 1 : At(s, k) # c})
             /\ IsLast(RFindNotChar(s, i, c), i, {k \in 0 .. Len(s) - 1 : At(s, k) # c})

(* A search for any of a set of characters finds the first or last one of  *)
(* them, or not of them, unless the characters are wide and the text has   *)
(* one whose low byte alone is in the set.                                 *)
Clash == st.wide /\ \E k \in NotAmong : Matches(w, At(s, k))
FindsSets ==
    ~Clash <=> \A i \in Starts :
       /\ IsFirst(FindFirstOf(s, i, w), i, Among)
       /\ IsFirst(FindFirstNotOf(s, i, w), i, NotAmong)
       /\ IsLast(FindLastOf(s, i, w), i, Among)
       /\ IsLast(FindLastNotOf(s, i, w), i, NotAmong)

(* Comparing tells the lexicographical order, except that >= of strings    *)
(* answers for <=; words are found at either end, and counted; a search    *)
(* that is not told where to start looks through the whole text, except    *)
(* that a string looks for the last occurrence of a view at 0 only.        *)
ComparesSound ==
    /\ Equal(s, w) <=> s = w
    /\ (Compare(s, w) < 0) <=> Before(s, w)
    /\ (Compare(s, w) > 0) <=> Before(w, s)
    /\ ViewOrder(s, w) = [lt |-> Before(s, w), gt |-> Before(w, s),
                          le |-> ~Before(w, s), ge |-> ~Before(s, w)]
    /\ (StringOrder(s, w) = ViewOrder(s, w)) <=> s = w
    /\ StartsWith(s, w) <=> OccursAt(w, 0)
    /\ EndsWith(s, w) <=> (Len(w) <= Len(s) /\ OccursAt(w, Len(s) - Len(w)))
    /\ ContainsWord(s, w) <=> \E k \in Positions : OccursAt(w, k)
    /\ 0 \notin {CStr(s)[k] : k \in 1 .. Length(s)} /\ (Length(s) < Len(s) => At(s, Length(s)) = 0)
    /\ \A i \in Positions : /\ RemoveSuffix(s, Len(s) - i) \o RemovePrefix(s, i) = s
                            /\ SubView(s, i, All) = RemovePrefix(s, i)
                            /\ CompareParts(s, i, All, w, 0, All) = Compare(RemovePrefix(s, i), w)
    /\ \A c \in Chars : Count(s, c, 0) = Len(SelectSeq(s, LAMBDA d : d = c))
    /\ (ViewSearches(s, w) = StringSearches(s, w)) <=> \A k \in Positions : OccursAt(w, k) => k = 0
    /\ (Len(w) = 1 /\ ~st.wide) => ViewSearches(s, w) = CharSearches(s, w[1])

SearchSound == FindsPlaces /\ FindsSets /\ ComparesSound

=============================================================================
