-------------------------------- MODULE Json --------------------------------
(***************************************************************************)
(* include/MSTL/core/json.hpp: json_parser, json_builder and the printing  *)
(* of values. A text is a sequence of units: characters, and words that    *)
(* are never split. A value is a sequence that starts with its type; the   *)
(* number m * 10^e is <<m, e>>, m no multiple of ten.                      *)
(***************************************************************************)
EXTENDS Integers, Sequences, SequencesExt, FiniteSetsExt

CONSTANTS
    Units,      \* the units of texts
    Seeds,      \* texts that are looked at with one unit changed
    MaxText,    \* bound: units of the texts that are looked at all
    Decimals,   \* the decimals printed of a number that is not whole
    MaxExp,     \* the largest decimal exponent of a double
    Leaves,     \* values that a builder is given
    KeyNames,   \* keys that a builder is given
    Scripts,    \* sequences of calls made by a function or for a container
    MaxCalls    \* bound: units that a builder has written

VARIABLE st     \* a parser or a builder

Quote == "quote"
Back  == "\\"
Digit == {"0", "1"}
Words == {"true", "null"}
Alpha == Words \cup {"e", "n", "v", "u", "a", "I"}
Blank == {" ", "newline"}
IsSpace(c) == c \in Blank \cup {"vertical", "I"}        \* as Characters has it

At(t, i) == IF i < Len(t) THEN t[i + 1] ELSE "nul"      \* current()
Failed == [ok |-> FALSE, v |-> <<"none">>, at |-> 0]    \* an exception
Gives(v, i) == [ok |-> TRUE, v |-> v, at |-> i]
First(P, none) == IF P = {} THEN none ELSE Min(P)
Skip(t, i, P(_)) == First({k \in i .. Len(t) - 1 : ~P(t[k + 1])}, Len(t))
SkipSpace(t, i)  == Skip(t, i, IsSpace)
SkipDigits(t, i) == Skip(t, i, LAMBDA c : c \in Digit)
SkipAlpha(t, i)  == Skip(t, i, LAMBDA c : c \in Alpha)

Missing == <<"none">>                                   \* a null pointer
Null   == <<"null">>
Bool(b) == <<"bool", b>>
Str(s) == <<"string", s>>
Arr(s) == <<"array", s>>
Obj(f) == <<"object", f>>
NoMembers == [k \in {} |-> Null]
AddElement(v, x)   == Arr(Append(v[2], x))
AddMember(v, k, x) == Obj([y \in DOMAIN v[2] \cup {k} |-> IF y = k THEN x ELSE v[2][y]])
GetElement(v, i) == IF i < Len(v[2]) THEN v[2][i + 1] ELSE Missing
GetMember(v, k)  == IF k \in DOMAIN v[2] THEN v[2][k] ELSE Missing

-----------------------------------------------------------------------------
(* Numbers. External: Value, which is strtod; it refuses what no double    *)
(* holds.                                                                  *)

RECURSIVE Power(_), Normal(_, _)
Power(n) == IF n = 0 THEN 1 ELSE 10 * Power(n - 1)
Normal(m, e) == IF m = 0 THEN <<0, 0>> ELSE IF m % 10 = 0 THEN Normal(m \div 10, e + 1) ELSE <<m, e>>
Digits(s)  == FoldLeft(LAMBDA n, c : 10 * n + (IF c = "1" THEN 1 ELSE 0), 0, s)
Value(t, i, j) ==
    LET neg  == At(t, i) = "-"
        a    == IF neg THEN i + 1 ELSE i
        b    == SkipDigits(t, a)
        c    == IF At(t, b) = "." THEN SkipDigits(t, b + 1) ELSE b
        frac == IF c > b THEN SubSeq(t, b + 2, c) ELSE <<>>
        esig == c + 1 < j /\ At(t, c + 1) \in {"+", "-"}
        exp  == IF c < j THEN Digits(SubSeq(t, IF esig THEN c + 3 ELSE c + 2, j)) ELSE 0
        e    == IF esig /\ At(t, c + 1) = "-" THEN -exp ELSE exp
        n    == Normal(Digits(SubSeq(t, a + 1, b) \o frac), e - Len(frac))
    IN  IF n[1] # 0 /\ n[2] \notin -MaxExp .. MaxExp THEN Failed
        ELSE Gives(<<"number", <<IF neg THEN -n[1] ELSE n[1], n[2]>>>>, j)

ParseNumber(t, start) ==
    LET a == IF At(t, start) = "-" THEN start + 1 ELSE start
        b == IF At(t, a) = "0" THEN a + 1 ELSE SkipDigits(t, a)
        c == IF At(t, b) = "." THEN SkipDigits(t, b + 1) ELSE b
        s == IF At(t, c + 1) \in {"+", "-"} THEN c + 2 ELSE c + 1
        d == IF At(t, c) = "e" THEN SkipDigits(t, s) ELSE c
    IN  IF b = a \/ c = b + 1 \/ (At(t, c) = "e" /\ d = s) THEN Failed ELSE Value(t, start, d)

-----------------------------------------------------------------------------
(* json_parser                                                             *)

(* An escape that has no meaning stands for its letter: so do u and v.     *)
Unescape(c) == IF c = "n" THEN "newline" ELSE c
Scan(r, c) ==
    IF r.ok THEN r
    ELSE IF r.escaped THEN [r EXCEPT !.escaped = FALSE, !.v = Append(@, Unescape(c)), !.at = @ + 1]
    ELSE IF c = Quote THEN [r EXCEPT !.ok = TRUE, !.at = @ + 1]
    ELSE IF c = Back THEN [r EXCEPT !.escaped = TRUE, !.at = @ + 1]
    ELSE [r EXCEPT !.v = Append(@, c), !.at = @ + 1]
ParseString(t, i) ==
    LET r == FoldLeft(Scan, [ok |-> FALSE, escaped |-> FALSE, v |-> <<>>, at |-> i + 1],
                      SubSeq(t, i + 2, Len(t)))
    IN  IF r.ok THEN Gives(Str(r.v), r.at) ELSE Failed

ParseKeyword(t, i) ==
    LET end == SkipAlpha(t, i)
        run == SubSeq(t, i + 1, end)
    IN  IF run = <<"true">> THEN Gives(Bool(TRUE), end)
        ELSE IF run = <<"null">> THEN Gives(Null, end) ELSE Failed

(* A parser: text and at are the string and the position, open is the      *)
(* stack of the calls of parse_array and parse_object that have not        *)
(* returned, as <<what was added, key>>, and v is what the last call       *)
(* returned, Missing while a value is to be parsed. end tells how it came  *)
(* out.                                                                    *)
NewParser(t) == [text |-> t, at |-> 0, open |-> <<>>, v |-> Missing, end |-> "none"]
Fail(p) == [p EXCEPT !.end = "thrown", !.v = Missing]
Return(p, r) == IF r.ok THEN [p EXCEPT !.v = r.v, !.at = r.at] ELSE Fail(p)
Innermost(p, frame) == [p EXCEPT !.open[Len(p.open)] = frame]
Enter(p, v, i) == [p EXCEPT !.open = Append(@, <<v, <<>>>>), !.at = i]

ParseArray(p, i) ==
    LET a == SkipSpace(p.text, i + 1)
    IN  IF At(p.text, a) = "]" THEN Return(p, Gives(Arr(<<>>), a + 1)) ELSE Enter(p, Arr(<<>>), a)
(* The key of a member that starts at i, in the innermost object.          *)
ParseKey(p, i) ==
    LET key == ParseString(p.text, i)
        c   == SkipSpace(p.text, key.at)
    IN  IF At(p.text, i) # Quote \/ ~key.ok THEN Fail(p)
        ELSE IF At(p.text, c) # ":" THEN Fail(p)
        ELSE [Innermost(p, <<Last(p.open)[1], key.v[2]>>) EXCEPT !.v = Missing, !.at = SkipSpace(p.text, c + 1)]
ParseObject(p, i) ==
    LET a == SkipSpace(p.text, i + 1)
    IN  IF At(p.text, a) = "}" THEN Return(p, Gives(Obj(NoMembers), a + 1))
        ELSE ParseKey(Enter(p, Obj(NoMembers), a), a)

ParseValue(p) ==
    LET a == SkipSpace(p.text, p.at)
        c == At(p.text, a)
    IN  CASE c = "{"   -> ParseObject(p, a)
          [] c = "["   -> ParseArray(p, a)
          [] c = Quote -> Return(p, ParseString(p.text, a))
          [] c \in Digit \cup {"-"}   -> Return(p, ParseNumber(p.text, a))
          [] c \in Words \cup {"n"}   -> Return(p, ParseKeyword(p.text, a))
          [] OTHER -> Fail(p)

(* A value has returned to the loop of parse_array or parse_object.        *)
Leave(p, v, i) == [p EXCEPT !.open = Front(@), !.v = v, !.at = i]
Elements_lax(p) ==
    LET v == AddElement(Last(p.open)[1], p.v)
        j == SkipSpace(p.text, p.at)
        n == SkipSpace(p.text, j + 1)
    IN  CASE At(p.text, j) = "]" -> Leave(p, v, j + 1)
          [] At(p.text, j) = "," /\ At(p.text, n) = "]" -> Leave(p, v, n + 1)
          [] At(p.text, j) = "," /\ At(p.text, n) # "]" ->
                [Innermost(p, <<v, <<>>>>) EXCEPT !.v = Missing, !.at = n]
          [] OTHER -> Fail(p)
Elements(p) ==
    LET v == AddElement(Last(p.open)[1], p.v)
        j == SkipSpace(p.text, p.at)
    IN  CASE At(p.text, j) = "]" -> Leave(p, v, j + 1)
          [] At(p.text, j) = "," ->
                [Innermost(p, <<v, <<>>>>) EXCEPT !.v = Missing, !.at = SkipSpace(p.text, j + 1)]
          [] OTHER -> Fail(p)
Members(p) ==
    LET v == AddMember(Last(p.open)[1], Last(p.open)[2], p.v)
        j == SkipSpace(p.text, p.at)
    IN  CASE At(p.text, j) = "}" -> Leave(p, v, j + 1)
          [] At(p.text, j) = "," ->
                ParseKey(Innermost(p, <<v, <<>>>>), SkipSpace(p.text, j + 1))
          [] OTHER -> Fail(p)
Parse(p) ==                                     \* parse() behind parse_value
    IF SkipSpace(p.text, p.at) = Len(p.text) THEN [p EXCEPT !.end = "parsed"] ELSE Fail(p)

Parsed(p) ==
    IF p.v = Missing THEN ParseValue(p)
    ELSE IF p.open = <<>> THEN Parse(p)
    ELSE IF Last(p.open)[1][1] = "array" THEN Elements(p) ELSE Members(p)

-----------------------------------------------------------------------------
(* json_value_to_string. Members come in the order of the map, here in     *)
(* some order; \' does not occur. Doubles are taken to be exact, decimals  *)
(* are cut, which rounds these digits.                                     *)

Joined(parts) == FlattenSeq([i \in DOMAIN parts |-> IF i = 1 THEN parts[i] ELSE <<",">> \o parts[i]])
Escaped(c) ==
    CASE c \in {Quote, Back} -> <<Back, c>>
      [] c = "newline"       -> <<Back, "n">>
      [] c = "vertical"      -> <<Back, "v">>
      [] c = "control"       -> <<Back, "u", "0", "0", "0", "1">>
      [] OTHER               -> <<c>>
StringText(s) == <<Quote>> \o FlattenSeq([i \in DOMAIN s |-> Escaped(s[i])]) \o <<Quote>>

RECURSIVE Numeral(_, _)
Numeral(n, width) ==
    IF n = 0 /\ width <= 0 THEN <<>>
    ELSE Append(Numeral(n \div 10, width - 1), IF n % 10 = 0 THEN "0" ELSE "1")
NumberText(m, e) ==
    LET size  == IF m < 0 THEN -m ELSE m
        fixed == IF Decimals + e >= 0 THEN size * Power(Decimals + e) ELSE size \div Power(-(Decimals + e))
        frac  == Numeral(fixed % Power(Decimals), Decimals)
        last  == Max({0} \cup {i \in DOMAIN frac : frac[i] # "0"})
    IN  (IF m < 0 THEN <<"-">> ELSE <<>>) \o Numeral(fixed \div Power(Decimals), 1)
        \o (IF last = 0 THEN <<>> ELSE <<".">> \o SubSeq(frac, 1, last))

RECURSIVE ToText(_)
ToText(v) ==
    CASE v[1] = "null"   -> <<"null">>
      [] v[1] = "bool"   -> <<"true">>
      [] v[1] = "number" -> NumberText(v[2][1], v[2][2])
      [] v[1] = "string" -> StringText(v[2])
      [] v[1] = "array"  -> <<"[">> \o Joined([i \in DOMAIN v[2] |-> ToText(v[2][i])]) \o <<"]">>
      [] OTHER ->
            LET keys == SetToSeq(DOMAIN v[2])
                member(k) == StringText(k) \o <<":">> \o ToText(v[2][k])
            IN  <<"{">> \o Joined([i \in DOMAIN keys |-> member(keys[i])]) \o <<"}">>

-----------------------------------------------------------------------------
(* json_builder: root, the open containers as the path from root to the    *)
(* innermost, and the key that waits for a value; log is the text that was *)
(* written by the calls so far. A call is [name, x, calls]; an empty key   *)
(* counts as none. Calls give [ok, b], b as an exception leaves it.        *)

NewBuilder == [root |-> Missing, contexts |-> <<>>, key |-> <<>>, log |-> <<>>]
Step(v, x)      == IF v[1] = "array" THEN GetElement(v, x) ELSE GetMember(v, x)
Follow(v, path) == FoldLeft(Step, v, path)
RECURSIVE Changed(_, _, _)
Changed(v, path, new) ==
    IF path = <<>> THEN new
    ELSE [v EXCEPT ![2][IF v[1] = "array" THEN Head(path) + 1 ELSE Head(path)] = Changed(@, Tail(path), new)]

Open(b)  == b.contexts # <<>>
PathOf(b) == Tail(b.contexts)                   \* the first context is the root itself
Top(b)   == Follow(b.root, PathOf(b))
InObject(b) == Open(b) /\ Top(b)[1] = "object"
Done(b)   == [ok |-> TRUE, b |-> b]
Thrown(b) == [ok |-> FALSE, b |-> b]
(* What a writer of text puts down for a value or a key.                   *)
Write(b, units) ==
    [b EXCEPT !.log = @ \o (IF @ = <<>> \/ Last(@) \in {"[", "{", ":"} THEN <<>> ELSE <<",">>) \o units]

(* A value goes to the root, the open array or the open object; where is   *)
(* the step of the path that leads to it.                                  *)
Place(b, v) ==
    LET top   == Top(b)
        where == IF Open(b) /\ top[1] = "array" THEN Len(top[2]) ELSE b.key
        more  == IF top[1] = "array" THEN AddElement(top, v) ELSE AddMember(top, b.key, v)
    IN  IF ~Open(b) THEN IF b.root # Missing THEN [ok |-> FALSE, b |-> b, where |-> 0]
                         ELSE [ok |-> TRUE, b |-> [b EXCEPT !.root = v], where |-> 0]
        ELSE IF InObject(b) /\ b.key = <<>> THEN [ok |-> FALSE, b |-> b, where |-> 0]
        ELSE [ok |-> TRUE, where |-> where,
              b |-> [b EXCEPT !.root = Changed(@, PathOf(b), more), !.key = IF InObject(b) THEN <<>> ELSE @]]

PutValue(b, v) ==                               \* value_impl
    LET p == Place(b, v) IN IF p.ok THEN Done(Write(p.b, ToText(v))) ELSE Thrown(b)
Begin(b, v, unit) ==
    LET p == Place(b, v)
    IN  IF p.ok THEN Done([Write(p.b, <<unit>>) EXCEPT !.contexts = Append(@, p.where)]) ELSE Thrown(b)
BeginObject(b) == Begin(b, Obj(NoMembers), "{")
BeginArray(b)  == Begin(b, Arr(<<>>), "[")
End(b, unit) == Done([b EXCEPT !.contexts = Front(@), !.log = Append(@, unit)])
EndObject_pending(b) == IF ~InObject(b) THEN Thrown(b) ELSE End(b, "}")
EndObject(b) == IF ~InObject(b) \/ b.key # <<>> THEN Thrown(b) ELSE End(b, "}")
EndArray(b)  == IF ~Open(b) \/ InObject(b) THEN Thrown(b) ELSE End(b, "]")
SetKey(b, k) ==
    IF ~InObject(b) \/ b.key # <<>> THEN Thrown(b)
    ELSE IF k = <<>> THEN Done(b)
    ELSE Done([Write(b, StringText(k) \o <<":">>) EXCEPT !.key = k])
Build(b) ==
    IF Open(b) \/ b.key # <<>> \/ b.root = Missing THEN Thrown(b)
    ELSE Done([b EXCEPT !.root = Missing, !.log = <<>>])

Call(name) == [name |-> name, x |-> <<>>, calls |-> <<>>]
Plain(b, c) ==
    CASE c.name = "begin_object" -> BeginObject(b)
      [] c.name = "begin_array"  -> BeginArray(b)
      [] c.name = "end_object"   -> EndObject(b)
      [] c.name = "end_array"    -> EndArray(b)
      [] c.name = "key"          -> SetKey(b, c.x)
      [] c.name = "value"        -> PutValue(b, c.x)
Run(b, calls) == FoldLeft(LAMBDA r, c : IF r.ok THEN Plain(r.b, c) ELSE r, Done(b), calls)
(* value_object and value_array build in a builder of their own; a map or  *)
(* another container is written into this one, call by call.               *)
Around(c) ==
    IF c.name \in {"value_object", "map"} THEN <<Call("begin_object")>> \o c.calls \o <<Call("end_object")>>
    ELSE <<Call("begin_array")>> \o c.calls \o <<Call("end_array")>>
Apply(b, c) ==
    IF c.name \in {"map", "list"} THEN Run(b, Around(c))
    ELSE IF c.name \notin {"value_object", "value_array"} THEN Plain(b, c)
    ELSE LET r == Run(NewBuilder, Around(c)) IN IF r.ok THEN PutValue(b, r.b.root) ELSE Thrown(b)

-----------------------------------------------------------------------------

(* A parser at work, with the number of changes left to the text and the   *)
(* value that it should find, if it has one to find; a builder; a builder  *)
(* before and after a call that threw but changed it.                      *)
Parsing(p, n, v) == <<"parser", p, n, v>>
Builder(b) == <<"builder", b>>
IsParser == st[1] = "parser"
Ended == IsParser /\ st[2].end # "none"
p0 == st[2]
t0 == st[2].text
(* A word is one unit, which no escape may split.                          *)
Whole(t) == \A i \in 2 .. Len(t) : t[i - 1] = Back => t[i] \notin Words
Fresh(t, n) == Whole(t) /\ st' = Parsing(NewParser(t), n, Missing)

InitJson == st \in {Parsing(NewParser(t), 1, Missing) : t \in Seeds}
                \cup {Parsing(NewParser(<<>>), 0, Missing), Builder(NewBuilder)}

Change(t, i, c) == {[t EXCEPT ![i] = c], SubSeq(t, 1, i) \o <<c>> \o SubSeq(t, i + 1, Len(t)), RemoveAt(t, i)}
NextParser ==
    \/ IsParser /\ ~Ended /\ st' = [st EXCEPT ![2] = Parsed(p0)]
    \/ Ended /\ p0.end = "parsed" /\ st[4] = Missing /\ st' = Parsing(NewParser(ToText(p0.v)), 2, p0.v)
    \/ Ended /\ st[3] = 1 /\ \E i \in DOMAIN t0, c \in Units : \E t \in Change(t0, i, c) : Fresh(t, 2)
    \/ Ended /\ st[3] = 0 /\ Len(t0) < MaxText /\ \E c \in Units : Fresh(Append(t0, c), 0)

Calls == {Call(n) : n \in {"begin_object", "begin_array", "end_object", "end_array"}}
    \cup {[Call("key") EXCEPT !.x = k] : k \in KeyNames}
    \cup {[Call("value") EXCEPT !.x = v] : v \in Leaves}
    \cup {[Call(n) EXCEPT !.calls = s] : n \in {"value_object", "value_array", "map", "list"}, s \in Scripts}
NextBuilder ==
    \/ /\ st[1] = "builder"
       /\ \E c \in Calls : \E r \in {Apply(p0, c)} :
             /\ Len(r.b.log) <= MaxCalls
             /\ st' = IF r.ok \/ r.b = p0 THEN Builder(r.b) ELSE <<"broken", r.b, p0, c.name>>
    \/ st[1] = "builder" /\ Build(p0).ok /\ st' = Parsing(NewParser(p0.log), 2, p0.root)
    \/ st[1] = "broken" /\ st' = Builder(p0)
NextJson == NextParser \/ NextBuilder

-----------------------------------------------------------------------------

(* The grammar, read from the outside in. Between i and j of the text is:  *)
Gap(i, j) == \A k \in i + 1 .. j : IsSpace(t0[k])
Slashes(i, k) == k - 1 - Max({i + 1} \cup {m \in i + 2 .. k - 1 : t0[m] # Back})
IsString(i, j) ==
    /\ j >= i + 2 /\ t0[i + 1] = Quote /\ t0[j] = Quote
    /\ \A k \in i + 2 .. j : t0[k] = Quote => (k = j <=> Slashes(i, k) % 2 = 0)
IsDigits(i, j) == i < j /\ \A k \in i + 1 .. j : t0[k] \in Digit
IsWhole(i, j)  == IsDigits(i, j) /\ (t0[i + 1] = "0" => j = i + 1)
IsExponent(i, j) == i < j /\ t0[i + 1] = "e" /\ (IsDigits(i + 1, j) \/ (i + 1 < j /\ t0[i + 2] = "-" /\ IsDigits(i + 2, j)))
IsNumber(i, j) ==
    \E a \in {i} \cup (IF i < j /\ t0[i + 1] = "-" THEN {i + 1} ELSE {}), b, c \in i .. j :
       /\ IsWhole(a, b) /\ (c = b \/ (b < c /\ t0[b + 1] = "." /\ IsDigits(b + 1, c)))
       /\ (c = j \/ IsExponent(c, j))
RECURSIVE IsValue(_, _), IsList(_, _, _)
IsMember(i, j) ==
    \E a \in i .. j, c \in i + 1 .. j :
       /\ t0[c] = ":" /\ Gap(i, a)
       /\ \E b \in a .. c - 1 : IsString(a, b) /\ Gap(b, c - 1)
       /\ IsValue(c, j)
IsItem(i, j, named) == IF named THEN IsMember(i, j) ELSE IsValue(i, j)
IsList(i, j, named) ==
    \/ IsItem(i, j, named)
    \/ \E k \in i + 1 .. j : t0[k] = "," /\ IsItem(i, k - 1, named) /\ IsList(k, j, named)
IsValue(i, j) ==
    LET ends == {k \in i + 1 .. j : ~IsSpace(t0[k])}
        a == Min(ends) - 1
        b == Max(ends)
    IN  /\ ends # {}
        /\ \/ b = a + 1 /\ t0[b] \in Words /\ At(t0, b) \notin Alpha
           \/ IsString(a, b)
           \/ IsNumber(a, b)
           \/ /\ b > a + 1 /\ t0[a + 1] = "[" /\ t0[b] = "]"
              /\ Gap(a + 1, b - 1) \/ IsList(a + 1, b - 1, FALSE)
           \/ /\ b > a + 1 /\ t0[a + 1] = "{" /\ t0[b] = "}"
              /\ Gap(a + 1, b - 1) \/ IsList(a + 1, b - 1, TRUE)

RECURSIVE Inside(_)
Inside(v) ==                                    \* v and the values in it
    {v} \cup IF v[1] = "array" THEN UNION {Inside(v[2][i]) : i \in DOMAIN v[2]}
             ELSE IF v[1] = "object" THEN UNION {Inside(v[2][k]) \cup {Str(k)} : k \in DOMAIN v[2]} ELSE {}
Survives(x) ==
    CASE x[1] = "string" -> \A i \in DOMAIN x[2] : x[2][i] \notin {"vertical", "control"}
      [] x[1] = "number" -> x[2][2] >= -Decimals
      [] OTHER -> TRUE

(* A text is parsed exactly when the grammar has it - with spaces, control *)
(* characters and escapes that JSON has not, but no letter behind a word   *)
(* that is_space takes for a space - and no number is too large.           *)
(* Printed and parsed, a value is the same again unless there is a control *)
(* character in a string or a decimal too many; so is a value that was     *)
(* built, from a text of the calls that built it.                          *)
ParsesSound ==
    Ended =>
        /\ p0.end = "parsed" => IsValue(0, Len(t0))
        /\ p0.end = "thrown" /\ IsValue(0, Len(t0)) => \E i, j \in 0 .. Len(t0) : IsNumber(i, j) /\ ~Value(t0, i, j).ok
        /\ st[4] # Missing => (p0.v = st[4] <=> \A x \in Inside(st[4]) : Survives(x))

(* Whatever the calls, the path of open containers leads to containers, a  *)
(* key waits in an object only, and what was begun can be ended. A call    *)
(* that throws changes nothing, but for a container that it leaves half    *)
(* written and open.                                                       *)
Closers(b) == [i \in DOMAIN b.contexts |->
    LET c == Follow(b.root, SubSeq(PathOf(b), 1, Len(b.contexts) - i))
    IN  Call(IF c[1] = "array" THEN "end_array" ELSE "end_object")]
BuildsSound ==
    /\ ~IsParser =>
         LET r == Run(p0, Closers(p0))
         IN  /\ \A i \in DOMAIN p0.contexts : Follow(p0.root, SubSeq(PathOf(p0), 1, i - 1))[1] \in {"array", "object"}
             /\ p0.key # <<>> => InObject(p0)
             /\ p0.key = <<>> => r.ok /\ ~Open(r.b)
    /\ st[1] = "broken" => st[4] \in {"map", "list"} /\ Len(p0.contexts) > Len(st[3].contexts)

JsonSound == ParsesSound /\ BuildsSound

=============================================================================
