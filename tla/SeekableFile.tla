---------------------------- MODULE SeekableFile ----------------------------
(***************************************************************************)
(* What a buffered file promises a user who keeps reads and writes apart:  *)
(* a sequence of bytes with one position in it. What was written may stay  *)
(* unstored until a flush succeeds, and a failing device may refuse some.  *)
(***************************************************************************)
EXTENDS ByteSeqs

CONSTANTS
    Inputs,   \* what is written at a time
    Counts,   \* numbers of bytes and sizes
    Distances \* how far to seek, backward when it is below zero

VARIABLES
    content,            \* the bytes as the user sees them
    durable,            \* the bytes as anyone else sees them
    pending,            \* some writes may not be stored yet
    opened, appends, pos,
    result              \* the last call with what it returned

vars == <<content, durable, pending, opened, appends, pos, result>>

Init ==
    /\ content = durable /\ ~pending
    /\ ~opened /\ ~appends /\ pos = 0 /\ result = <<"none">>

(* Some of what durable lacks may be stored at any time.                   *)
Stores ==
    /\ pending' \/ durable' = content'
    /\ Len(durable') <= Len(content')
    /\ \A i \in DOMAIN durable' :
          durable'[i] \in {content'[i], IF i \in DOMAIN durable THEN durable[i] ELSE Zero}

Rest == Dropped(content, pos)

Read(n) ==
    /\ opened
    /\ result' = <<"read", n, SubSeq(Rest, 1, Least(n, Len(Rest)))>>
    /\ pos' = pos + Least(n, Len(Rest))
    /\ UNCHANGED <<content, durable, pending, opened, appends>>

ReadLine ==
    /\ opened
    /\ LET n == LineLength(Rest)
       IN  result' = <<"line", Text(SubSeq(Rest, 1, n)), n > 0>> /\ pos' = pos + n
    /\ UNCHANGED <<content, durable, pending, opened, appends>>

(* The call says how much of d it took.                                    *)
Write(d) ==
    /\ opened
    /\ \E n \in 0 .. Len(d) :
          LET p == IF appends THEN Len(content) ELSE pos
          IN  /\ content' = Overwrite(content, p, SubSeq(d, 1, n))
              /\ pos' = IF n = 0 THEN pos ELSE p + n
              /\ result' = <<"write", d, n>>
    /\ Stores /\ UNCHANGED <<opened, appends>>

Seek(whence, n) ==
    /\ opened
    /\ LET to == n + CASE whence = "begin" -> 0 [] whence = "current" -> pos
                       [] whence = "end" -> Len(content)
       IN  \/ to >= 0 /\ result' = <<"seek", whence, n, TRUE>> /\ pos' = to
           \/ (to < 0 \/ pending) /\ result' = <<"seek", whence, n, FALSE>> /\ pos' = pos
    /\ Stores /\ UNCHANGED <<content, opened, appends>>

Truncate(n) ==
    /\ opened
    /\ \/ /\ content' = Resized(content, n) /\ durable' = content' /\ ~pending'
          /\ result' = <<"truncate", n, TRUE>>
       \/ result' = <<"truncate", n, FALSE>> /\ UNCHANGED <<content, durable, pending>>
    /\ UNCHANGED <<pos, opened, appends>>

(* A flush that succeeds has stored everything.                            *)
Flush ==
    /\ opened
    /\ \E ok \in BOOLEAN : result' = <<"flush", ok>> /\ (ok => ~pending')
    /\ Stores /\ UNCHANGED <<content, pos, opened, appends>>

(* The other calls look at the file, and may fail while bytes are unstored *)
Look ==
    /\ opened
    /\ \/ result' \in {<<"size", Len(content)>>, <<"all", content>>}
       \/ result' \in {<<"tell", pos>>, <<"prefetch", Rest # <<>>>>}
       \/ pending /\ result' \in {<<"size", 0>>, <<"all", <<>>>>}
    /\ Stores /\ UNCHANGED <<content, pos, opened, appends>>

(* Closing stores what is left, or loses it when the device fails.         *)
Close ==
    /\ content' \in {content, durable} /\ durable' = content' /\ ~pending'
    /\ ~opened' /\ ~appends' /\ pos' = 0
    /\ result' \in {result, <<"close">>, <<"open", FALSE>>}

Open ==
    /\ content' \in {content, durable, <<>>} /\ durable' = content' /\ ~pending'
    /\ opened' /\ appends' \in BOOLEAN
    /\ pos' = IF appends' THEN Len(content') ELSE 0
    /\ result' = <<"open", TRUE>>

Next ==
    \/ \E n \in Counts : Read(n) \/ Truncate(n)
    \/ \E n \in Distances, w \in {"begin", "current", "end"} : Seek(w, n)
    \/ \E d \in Inputs : Write(d)
    \/ ReadLine \/ Flush \/ Look \/ Close \/ Open

Spec == Init /\ [][Next]_vars

=============================================================================
