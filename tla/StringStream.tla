---------------------------- MODULE StringStream ----------------------------
(***************************************************************************)
(* include/MSTL/core/stringstream.hpp. A stringstream is an input and an   *)
(* output stream, each with a buffer of its own: text is what is read,     *)
(* gpos how far, flags the bits of iostate, out what was written. Integers *)
(* are unsigned numbers below Modulus; a signed one that overflows is      *)
(* undefined and not looked at.                                            *)
(***************************************************************************)
EXTENDS Integers, Sequences, SequencesExt, FiniteSetsExt

CONSTANTS
    Letters,    \* characters
    MaxText,    \* bound: characters of the text
    MaxOut,     \* bound: characters written
    Modulus     \* the integers that are read are below it

VARIABLE st     \* [text, gpos, flags, out]

C == INSTANCE Characters

NewLine == 10
Ended == {"eof", "fail"}
Size(d) == Len(d.text)
Rest(d) == d.gpos .. Size(d) - 1                \* the positions not read yet
At(d, i) == d.text[i + 1]
Part(d, i, j) == SubSeq(d.text, i + 1, j)
Fail(d) == d.flags \cap {"fail", "bad"} # {}
Mark(d, fs) == [d EXCEPT !.flags = @ \cup fs]
First(P, none) == IF P = {} THEN none ELSE Min(P)

(* What a call leaves: the stream, and what it reads, as a sequence.       *)
Gives(d, x) == [st |-> d, got |-> x]
Refuses(d, fs) == Gives(Mark(d, fs), <<>>)

-----------------------------------------------------------------------------
(* Reading. Only the formatted reads look at the state first.              *)

PastSpaces(d) == [d EXCEPT !.gpos = First({i \in Rest(d) : ~C!IsSpaceChar(At(d, i))}, Size(d))]
Value(s) == FoldLeft(LAMBDA n, c : (10 * n + c - 48) % Modulus, 0, s)

(* A sign stays consumed when no digit comes behind it.                    *)
ExtractInteger(d) ==
    LET e     == PastSpaces(d)
        sign  == e.gpos < Size(d) /\ At(e, e.gpos) \in {43, 45}
        start == IF sign THEN e.gpos + 1 ELSE e.gpos
        end   == First({i \in start .. Size(d) - 1 : ~C!IsDigitChar(At(d, i))}, Size(d))
        value == Value(Part(d, start, end))
    IN  IF Fail(d) THEN Gives(d, <<>>)
        ELSE IF e.gpos >= Size(d) THEN Refuses(e, Ended)
        ELSE IF end = start THEN Refuses([e EXCEPT !.gpos = start], {"fail"})
        ELSE Gives([e EXCEPT !.gpos = end],
                   <<IF sign /\ At(e, e.gpos) = 45 THEN (-value) % Modulus ELSE value>>)

ExtractChar(d) ==
    LET e == PastSpaces(d)
    IN  IF Fail(d) THEN Gives(d, <<>>)
        ELSE IF e.gpos >= Size(d) THEN Refuses(e, Ended)
        ELSE Gives([e EXCEPT !.gpos = @ + 1], Part(d, e.gpos, e.gpos + 1))

(* The string that is read into is emptied first, whatever happens.        *)
ExtractString_keeps(d) ==
    LET e   == PastSpaces(d)
        end == First({i \in Rest(e) : C!IsSpaceChar(At(d, i))}, Size(d))
    IN  IF Fail(d) THEN Gives(d, <<>>)
        ELSE Gives([e EXCEPT !.gpos = end], Part(d, e.gpos, end))
ExtractString(d) ==
    LET e   == PastSpaces(d)
        end == First({i \in Rest(e) : C!IsSpaceChar(At(d, i))}, Size(d))
    IN  IF Fail(d) THEN Gives(d, <<>>)
        ELSE IF end > e.gpos THEN Gives([e EXCEPT !.gpos = end], Part(d, e.gpos, end))
        ELSE Gives(Mark(e, Ended), <<>>)

Get(d) ==
    IF d.gpos < Size(d) THEN Gives([d EXCEPT !.gpos = @ + 1], Part(d, d.gpos, d.gpos + 1)) ELSE Refuses(d, Ended)

GetLine(d) ==
    LET end == First({i \in Rest(d) : At(d, i) = NewLine}, Size(d))
    IN  IF Rest(d) = {} THEN Refuses(d, Ended)
        ELSE Gives([d EXCEPT !.gpos = IF end < Size(d) THEN end + 1 ELSE end], Part(d, d.gpos, end))

-----------------------------------------------------------------------------
(* Position, state, text, writing. The position is a size_t: one before    *)
(* the start is a large one. clear() empties the buffer, clear(state) does *)
(* not.                                                                    *)

SeekG(d, off, base) ==
    LET p == base + off
    IN  IF p \in 0 .. Size(d) THEN [d EXCEPT !.gpos = p, !.flags = {}] ELSE Mark(d, {"fail"})
Bases(d) == {0, d.gpos, Size(d)}                \* seekdir::beg, cur, end

Str(d, s)       == [text |-> s, gpos |-> 0, flags |-> {}, out |-> s]
Clear(d)        == [d EXCEPT !.text = <<>>, !.gpos = 0, !.flags = {}]
ClearState(d, fs) == [d EXCEPT !.flags = fs]
Insert(d, c)    == [d EXCEPT !.out = Append(@, c)]          \* operator<<
StrOf(d)        == d.text                                   \* stringstream::str()
View(d)         == d.out                                    \* basic_ostringstream::view()

-----------------------------------------------------------------------------

Texts == UNION {[1 .. n -> Letters] : n \in 0 .. MaxText}
InitStreams == st \in {[text |-> s, gpos |-> 0, flags |-> {}, out |-> s] : s \in {<<>>}}

Read == \E r \in {ExtractInteger(st), ExtractChar(st), ExtractString(st), Get(st), GetLine(st)} :
            st' = r.st
Seek == \E b \in Bases(st), off \in -MaxText - 1 .. MaxText + 1 : st' = SeekG(st, off, b)
Reset == \/ \E s \in Texts : st' = Str(st, s)
         \/ st' = Clear(st)
         \/ \E fs \in {{}, {"bad"}} : st' = ClearState(st, fs)
Write == \E c \in Letters : Len(st.out) < MaxOut /\ st' = Insert(st, c)

NextStreams == Read \/ Seek \/ Reset \/ Write

-----------------------------------------------------------------------------

Reads == {ExtractInteger(st), ExtractChar(st), ExtractString(st), Get(st), GetLine(st)}
Formatted == {ExtractInteger(st), ExtractChar(st), ExtractString(st)}
Space(c) == c \in C!Spaces
NoFalseSpace == \A i \in DOMAIN st.text : C!IsSpaceChar(st.text[i]) => Space(st.text[i])

(* The words, or lines, a loop of reads gets from a text before it fails.  *)
RECURSIVE Words(_, _)
Words(d, got) ==
    LET r == ExtractString(d) IN IF Fail(r.st) THEN got ELSE Words(r.st, Append(got, r.got))
RECURSIVE Lines(_, _)
Lines(d, got) ==
    LET r == GetLine(d) IN IF Fail(r.st) THEN got ELSE Lines(r.st, Append(got, r.got))
AllOf(s, Sep(_)) ==                             \* the runs of s between separators
    LET ends == {b \in 1 .. Len(s) : ~Sep(s[b]) /\ (b = Len(s) \/ Sep(s[b + 1]))}
        from(b) == 1 + Max({0} \cup {a \in 1 .. b : Sep(s[a])})
        nth(k) == CHOOSE b \in ends : Cardinality({e \in ends : e <= b}) = k
    IN  [k \in 1 .. Cardinality(ends) |-> SubSeq(s, from(nth(k)), nth(k))]
Fresh(s) == [text |-> s, gpos |-> 0, flags |-> {}, out |-> s]

(* Reading goes forward within the text, past what it returned and spaces  *)
(* before it only; after a failure formatted reads change nothing until    *)
(* the state is cleared; the end is noticed only by a read that finds      *)
(* nothing, so a number that ends the text does not set eof.               *)
ReadsSound ==
    /\ st.gpos \in 0 .. Size(st)
    /\ \A r \in Reads : r.st.gpos \in st.gpos .. Size(st) /\ r.st.text = st.text
                        /\ st.flags \subseteq r.st.flags
    /\ Fail(st) => \A r \in Formatted : r.st = st
    /\ \A r \in Reads : ("eof" \in r.st.flags \ st.flags) => r.got = <<>>
    /\ LET r == ExtractInteger(st)
       IN  r.got # <<>> => /\ r.st.flags = st.flags
                           /\ r.st.gpos = Size(st) \/ ~C!Digit(At(st, r.st.gpos))
                           /\ C!Digit(At(st, r.st.gpos - 1))
    /\ \A b \in Bases(st), off \in -MaxText - 1 .. MaxText + 1 :
          Fail(SeekG(st, off, b)) <=> b + off \notin 0 .. Size(st)

(* A loop of reads splits a text at spaces, a loop of getline at new lines *)
(* - unless it holds one of the letters that is_space takes for a space.   *)
SplitsSound ==
    /\ (Words(Fresh(st.text), <<>>) = AllOf(st.text, Space)) <=> NoFalseSpace
    /\ LET lines == Lines(Fresh(st.text), <<>>)
           whole == FlattenSeq([k \in DOMAIN lines |-> Append(lines[k], NewLine)])
       IN  whole = st.text \/ whole = Append(st.text, NewLine)

(* What is written to a stringstream is never read from it.                *)
WritesSound == \A c \in Letters : StrOf(Insert(st, c)) = StrOf(st)
                                  /\ View(Insert(st, c)) = Append(View(st), c)

StreamsSound == ReadsSound /\ SplitsSound /\ WritesSound

=============================================================================
