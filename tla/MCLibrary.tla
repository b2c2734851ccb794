----------------------------- MODULE MCLibrary ------------------------------
(***************************************************************************)
(* Instances for TLC of the sequential parts of the library other than its *)
(* containers. They do not interact: a behaviour picks one part and keeps  *)
(* its state in st; values that hold values are in held, and pointers that *)
(* share in owners.                                                        *)
(***************************************************************************)
EXTENDS Values, SharedOwners

VARIABLES part, st

Algos == INSTANCE Algorithms WITH Keys <- 1 .. 3, MaxTotal <- 5, Byte <- 2, Threshhold <- 2
Sorts == INSTANCE Sorting WITH
    Keys <- 0 .. 2, MaxLen <- 5, Threshold <- 2, Radix <- 2,
    Longer <- {<<0, 2, 1, 0, 1, 0>>, <<2, 1, 0, 2, 1, 0>>, <<1, 1, 2, 0, 0>>, <<0, 0, 1, 1, 2, 2>>,
               <<2, 0, 1, 2, 0, 1, 0>>, <<1, 2, 1, 0, 2, 0, 1, 0>>}

Strs  == INSTANCE Strings WITH InitCap <- 3, MaxCap <- 7, MaxNew <- 4
Finds == INSTANCE StringSearch WITH Chars <- 0 .. 2, Byte <- 2, MaxText <- 4, MaxWord <- 2
Cstrs == INSTANCE CStrings WITH
    Letters <- {-56, 48, 49, 65, 97}, MaxText <- 3, MaxWord <- 2, MaxCells <- 6
Strms == INSTANCE StringStream WITH
    Letters <- {32, 49, 45, 77, 10}, MaxText <- 3, MaxOut <- 3, Modulus <- 16
Encs  == INSTANCE Encodings WITH
    Units <- {1, 10, 34, 65, \h7FF, \h800, \hD800, \hDBFF, \hDC00, \hDFFF, \hFEFF, \hFFFF,
              \h10000, \h10FFFF, \h110000},
    Signs <- {32, 43, 45, 48, 49, 56, 102, 120, 77, 122},
    MaxUnits <- 3, MaxSigns <- 4, LongBits <- 8, IntBits <- 5
Dates == INSTANCE DateTimes WITH
    Years <- {-1, 0, 1900, 1969, 1970}, Clocks <- {0, 45296},
    Days <- {-40, 0, 1, 60}, Zones <- {-18000, 1, 3600},
    Seconds <- {0, 1, 45296, 86399, 86400, 127504, 131696, 172800}
Jsons == INSTANCE Json WITH
    Units <- {"{", "}", "[", "]", ":", ",", "quote", "\\", " ", "I", "newline", "vertical", "control",
              "true", "null", "0", "1", "-", ".", "e", "a", "v"},
    Seeds <- {<<"{", "quote", "a", "quote", ":", "[", "1", ",", "true", "]", "}">>,
              <<"-", "1", ".", "0", "1", "e", "-", "1">>,
              <<"[", "1", " ", ",", "{", "}", "]">>,
              <<"quote", "a", "\\", "\\", "quote">>},
    MaxText <- 2, Decimals <- 1, MaxExp <- 5,
    Leaves <- {<<"null">>, <<"string", <<>>>>}, KeyNames <- {<<>>, <<"a">>},
    Scripts <- {<<>>, <<[name |-> "key", x |-> <<"a">>, calls |-> <<>>],
                        [name |-> "value", x |-> <<"null">>, calls |-> <<>>]>>,
                <<[name |-> "value", x |-> <<"bool", TRUE>>, calls |-> <<>>]>>},
    MaxCalls <- 8
Mem  == INSTANCE Memory WITH
    MaxLen <- 5, Width <- 64, ElemSize <- 3, MaxElems <- 4, AlignStep <- 4, BigAlign <- 8, BigBytes <- 16,
    Pointer <- 2, Deleters <- {"a", "b"}, MaxObjects <- 3

InitOther ==
    \/ part = "algorithms" /\ Algos!InitAlgorithms
    \/ part = "sorting"    /\ Sorts!InitSorting
    \/ part = "strings"    /\ Strs!InitStrings
    \/ part = "search"     /\ Finds!InitSearch
    \/ part = "cstrings"   /\ Cstrs!InitCStrings
    \/ part = "streams"    /\ Strms!InitStreams
    \/ part = "encodings"  /\ Encs!InitEncodings
    \/ part = "dates"      /\ Dates!InitDates
    \/ part = "json"       /\ Jsons!InitJson
    \/ part = "memory"     /\ Mem!InitMemory
    \/ part = "owners"     /\ st = <<>>
Init ==
    /\ InitOwners
    /\ \/ InitOther /\ held = HoldersOf("any", NoType, Raw)
       \/ part = "values" /\ st = <<>> /\ InitValues

OtherStep ==
    \/ part = "algorithms" /\ Algos!NextAlgorithms
    \/ part = "sorting"    /\ Sorts!NextSorting
    \/ part = "strings"    /\ Strs!NextStrings
    \/ part = "search"     /\ Finds!NextSearch
    \/ part = "cstrings"   /\ Cstrs!NextCStrings
    \/ part = "streams"    /\ Strms!NextStreams
    \/ part = "encodings"  /\ Encs!NextEncodings
    \/ part = "dates"      /\ Dates!NextDates
    \/ part = "json"       /\ Jsons!NextJson
    \/ part = "memory"     /\ Mem!NextMemory
HoldersStep == part = "values" /\ NextValues
OwnersStep  == part = "owners" /\ NextOwners

Next ==
    \/ OtherStep   /\ UNCHANGED <<part, held, owners>>
    \/ HoldersStep /\ UNCHANGED <<part, st, owners>>
    \/ OwnersStep  /\ UNCHANGED <<part, st, held>>

Spec == Init /\ [][Next]_<<part, st, held, owners>>

\* See Algorithms: what each call on ranges finds or leaves, and where the code is wrong;
\* Sorting: priority queues are heaps, the sorts sort but for aliased pivots; Memory: raw
\* ranges, blocks and unique pointers are built, freed and owned as each call says; and
\* Strings, StringSearch, CStrings, StringStream, Encodings, DateTimes and Json: what each
\* call on text leaves, finds, reads, writes, converts or counts.
LibrarySound ==
    /\ part = "algorithms" => Algos!AlgorithmsSound
    /\ part = "sorting"    => Sorts!SortsSound
    /\ part = "memory"     => Mem!MemorySound
    /\ part = "strings"    => Strs!StringsSound
    /\ part = "search"     => Finds!SearchSound
    /\ part = "cstrings"   => Cstrs!CStringsSound
    /\ part = "streams"    => Strms!StreamsSound
    /\ part = "encodings"  => Encs!EncodingsSound
    /\ part = "dates"      => Dates!DateTimesSound
    /\ part = "json"       => Jsons!JsonSound

=============================================================================
