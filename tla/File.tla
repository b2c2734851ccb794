-------------------------------- MODULE File --------------------------------
(***************************************************************************)
(* file of include/MSTL/core/file.hpp as built on Linux: objects with a    *)
(* read buffer and a write buffer over the kernel's descriptors, all of    *)
(* one path. No thread shares an object, so each call is one action; the   *)
(* hard part is what the buffers hold when a call of the kernel fails, the *)
(* direction changes or an object is moved.                                *)
(***************************************************************************)
EXTENDS ByteSeqs

CONSTANTS
    Objects,     \* file objects
    Handles,     \* bound: descriptors
    NoHandle,    \* INVALID_HANDLE()
    BufferSize,  \* BUFFER_SIZE
    DirectOver,  \* BUFFER_SIZE * 4: a longer write is not buffered
    Inputs,      \* what the user writes at a time
    Counts,      \* what the user asks for: numbers of bytes and sizes
    Distances,   \* how far the user seeks, backward when it is below zero
    MaxLen,      \* bound: the length of the file
    MaxFaults,   \* bound: calls of the kernel that fail
    ShortWrites, \* the kernel may store a part of what it is given
    Disciplined  \* the user keeps to the rules of MayRead, MayWrite, ... below

VARIABLES
    disk,           \* the bytes at the path
    offset,         \* the kernel's offset of every open descriptor
    atEnd,          \* the descriptors opened with O_APPEND
    handle, opened, \* handle_, opened_
    rbuf,           \* read_buffer_ from read_buffer_pos_ to read_buffer_size_
    wbuf,           \* write_buffer_ up to write_buffer_pos_
    allocated,      \* the buffers have their size: not before open()
    out,            \* the last call with what it returned
    faults          \* failures so far (bounded by MaxFaults)

vars == <<disk, offset, atEnd, handle, opened, rbuf, wbuf, allocated, out, faults>>

Init ==
    /\ disk = <<>> /\ offset = <<>> /\ atEnd = {}
    /\ handle = [o \in Objects |-> NoHandle] /\ opened = [o \in Objects |-> FALSE]
    /\ rbuf = [o \in Objects |-> <<>>] /\ wbuf = [o \in Objects |-> <<>>]
    /\ allocated = [o \in Objects |-> FALSE]
    /\ out = <<"none">> /\ faults = 0

-----------------------------------------------------------------------------
(* A definition named ..._<bug> is not part of the model: it is a plausible*)
(* bug in the definition after it, with which the properties are tested.   *)

(* Rules for the user that the code relies on. It keeps two buffers and    *)
(* one offset of the kernel, and does not reconcile them: like fread and   *)
(* fwrite, a file needs a flush before a read and a seek before a write; a *)
(* seek before its start is for a user who has read nothing ahead.         *)
MayRead(o)    == Disciplined => wbuf[o] = <<>>
MayWrite(o)   == Disciplined => rbuf[o] = <<>>
Settled(o)    == MayRead(o) /\ MayWrite(o)
Alone(o)      == Disciplined => \A p \in Objects \ {o} : ~opened[p]
MayMove(o, p) == Disciplined => Settled(o) /\ Settled(p) /\ allocated[p]

(* Where the kernel puts what o writes.                                    *)
At(o) == IF handle[o] \in atEnd THEN Len(disk) ELSE offset[handle[o]]

(* What flush_write_buffer can come to: all is written; or an error, or a  *)
(* short write, and the buffer is kept as it is.                           *)
Stored(o, d, left, ok) ==
    [ok |-> ok, disk |-> Overwrite(disk, At(o), d), left |-> left,
     at |-> IF d = <<>> THEN offset[handle[o]] ELSE At(o) + Len(d), cost |-> IF ok THEN 0 ELSE 1]
Short(d) == IF ShortWrites THEN {SubSeq(d, 1, n) : n \in 0 .. Len(d) - 1} ELSE {<<>>}

FlushBuffer_cleared(o) ==
    {Stored(o, wbuf[o], <<>>, TRUE)}
        \cup (IF wbuf[o] = <<>> THEN {} ELSE {Stored(o, d, <<>>, FALSE) : d \in Short(wbuf[o])})
FlushBuffer(o) ==
    {Stored(o, wbuf[o], <<>>, TRUE)}
        \cup (IF wbuf[o] = <<>> THEN {} ELSE {Stored(o, d, wbuf[o], FALSE) : d \in Short(wbuf[o])})

Apply(o, r) ==
    /\ faults + r.cost <= MaxFaults /\ faults' = faults + r.cost
    /\ disk' = r.disk
    /\ offset' = [offset EXCEPT ![handle[o]] = r.at]
    /\ wbuf' = [wbuf EXCEPT ![o] = r.left]

(* close() of an object that may be closed already, as others call it.     *)
Closings(o) ==
    IF opened[o] THEN FlushBuffer(o)
    ELSE {[ok |-> TRUE, disk |-> disk, left |-> wbuf[o], cost |-> 0]}
Others(o) == [h \in DOMAIN offset \ {handle[o]} |-> offset[h]]

-----------------------------------------------------------------------------

Open(o, truncate, append) ==
    /\ Alone(o)
    /\ \E r \in Closings(o) :
          /\ faults + r.cost <= MaxFaults
          /\ \/ \E h \in Handles \ DOMAIN Others(o) :
                   /\ disk' = IF truncate THEN <<>> ELSE r.disk
                   /\ offset' = [x \in DOMAIN Others(o) \cup {h} |->
                                   IF x # h THEN offset[x] ELSE IF append THEN Len(disk') ELSE 0]
                   /\ atEnd' = (atEnd \ {handle[o]}) \cup (IF append THEN {h} ELSE {})
                   /\ handle' = [handle EXCEPT ![o] = h] /\ opened' = [opened EXCEPT ![o] = TRUE]
                   /\ out' = <<"open", TRUE>> /\ faults' = faults + r.cost
             \/ /\ faults + r.cost < MaxFaults /\ faults' = faults + r.cost + 1
                /\ disk' = r.disk /\ offset' = Others(o) /\ atEnd' = atEnd \ {handle[o]}
                /\ handle' = [handle EXCEPT ![o] = NoHandle] /\ opened' = [opened EXCEPT ![o] = FALSE]
                /\ out' = <<"open", FALSE>>
    /\ rbuf' = [rbuf EXCEPT ![o] = <<>>] /\ wbuf' = [wbuf EXCEPT ![o] = <<>>]
    /\ allocated' = [allocated EXCEPT ![o] = TRUE]

(* close(), or the destructor. The buffers keep what they hold.            *)
Close(o) ==
    /\ opened[o]
    /\ \E r \in Closings(o) :
          /\ faults + r.cost <= MaxFaults /\ faults' = faults + r.cost
          /\ disk' = r.disk /\ wbuf' = [wbuf EXCEPT ![o] = r.left]
    /\ offset' = Others(o) /\ atEnd' = atEnd \ {handle[o]}
    /\ handle' = [handle EXCEPT ![o] = NoHandle] /\ opened' = [opened EXCEPT ![o] = FALSE]
    /\ out' = <<"close">>
    /\ UNCHANGED <<rbuf, allocated>>

(* p = move(o), or the move constructor when p is new. Buffers stay behind *)
Handover_copied(o, p) == [handle EXCEPT ![p] = handle[o]]
Handover(o, p) == [handle EXCEPT ![p] = handle[o], ![o] = NoHandle]

Move(o, p) ==
    /\ o # p /\ MayMove(o, p)
    /\ \E r \in Closings(p) :
          /\ faults + r.cost <= MaxFaults /\ faults' = faults + r.cost
          /\ disk' = r.disk /\ wbuf' = [wbuf EXCEPT ![p] = r.left]
    /\ offset' = Others(p) /\ atEnd' = atEnd \ {handle[p]}
    /\ handle' = Handover(o, p)
    /\ opened' = [opened EXCEPT ![p] = opened[o], ![o] = FALSE]
    /\ UNCHANGED <<rbuf, allocated, out>>

-----------------------------------------------------------------------------
(* Reading. A read of a regular file is taken to return what there is, and *)
(* the '\r' that read_line drops is not among the bytes.                   *)

Unread(o) == IF allocated[o] /\ opened[o] THEN Dropped(disk, offset[handle[o]]) ELSE <<>>
Ahead(o)  == rbuf[o] \o Unread(o)

(* n bytes leave the buffer, filled as often as it takes; the offset of    *)
(* the kernel moves by whole buffers.                                      *)
Consume(o, n) ==
    LET need  == n - Len(rbuf[o])
        moved == Least(Len(Unread(o)), BufferSize * ((need + BufferSize - 1) \div BufferSize))
    IN  IF n <= Len(rbuf[o])
          THEN rbuf' = [rbuf EXCEPT ![o] = Dropped(@, n)] /\ UNCHANGED offset
          ELSE /\ rbuf' = [rbuf EXCEPT ![o] = SubSeq(Unread(o), need + 1, moved)]
               /\ offset' = [offset EXCEPT ![handle[o]] = @ + moved]

Keep == UNCHANGED <<disk, atEnd, handle, opened, wbuf, allocated, faults>>

Read(o, n) ==
    /\ opened[o] /\ MayRead(o)
    /\ LET m == Least(n, Len(Ahead(o)))
       IN  Consume(o, m) /\ out' = <<"read", n, SubSeq(Ahead(o), 1, m)>>
    /\ Keep

ReadLine(o) ==
    /\ opened[o] /\ MayRead(o)
    /\ LET n == LineLength(Ahead(o))
       IN  Consume(o, n) /\ out' = <<"line", Text(SubSeq(Ahead(o), 1, n)), n > 0>>
    /\ Keep

(* prefetch() does not ask whether the file is open.                       *)
Prefetch(o) ==
    /\ (Disciplined => opened[o]) /\ MayRead(o)
    /\ LET moved == IF rbuf[o] = <<>> THEN Least(BufferSize, Len(Unread(o))) ELSE 0
       IN  /\ rbuf' = [rbuf EXCEPT ![o] = @ \o SubSeq(Unread(o), 1, moved)]
           /\ offset' = [h \in DOMAIN offset |->
                           offset[h] + (IF h = handle[o] THEN moved ELSE 0)]
    /\ out' = <<"prefetch", rbuf'[o] # <<>>>>
    /\ Keep

(* read() of everything: size(), tell(), seek, read, seek back.            *)
ReadAll(o) ==
    /\ opened[o] /\ MayWrite(o)
    /\ \E r \in FlushBuffer(o) :
          /\ Apply(o, r)
          /\ IF r.ok /\ r.disk # <<>>
               THEN /\ rbuf' = [rbuf EXCEPT ![o] = <<>>]
                    /\ out' = <<"all", IF allocated[o] THEN r.disk ELSE <<>>>>
               ELSE out' = <<"all", <<>>>> /\ UNCHANGED rbuf
    /\ UNCHANGED <<atEnd, handle, opened, allocated>>

-----------------------------------------------------------------------------
(* Writing.                                                                *)

Fits(o, d) == At(o) + Len(wbuf[o]) + Len(d) <= MaxLen

(* Through the buffer: k times it is full and flushed, and either that is  *)
(* all or the next flush fails and the rest of d is not taken.             *)
WriteBuffered(o, d) ==
    LET all  == wbuf[o] \o d
        full == Len(all) \div BufferSize
        Upto(k) == SubSeq(all, 1, k * BufferSize)
    IN  \/ /\ Apply(o, Stored(o, Upto(full), Dropped(all, full * BufferSize), TRUE))
           /\ out' = <<"write", d, Len(d)>>
        \/ \E k \in 0 .. full - 1 :
              LET left == SubSeq(all, k * BufferSize + 1, (k + 1) * BufferSize)
              IN  /\ \E part \in Short(left) : Apply(o, Stored(o, Upto(k) \o part, left, FALSE))
                  /\ out' = <<"write", d, (k + 1) * BufferSize - Len(wbuf[o])>>

(* Past the buffer: the return value is what the kernel took.              *)
WriteDirect(o, d) ==
    \/ \E r \in FlushBuffer(o) : ~r.ok /\ Apply(o, r) /\ out' = <<"write", d, 0>>
    \/ \E n \in 0 .. Len(d) :
          /\ Apply(o, Stored(o, wbuf[o] \o SubSeq(d, 1, n), <<>>, n = Len(d)))
          /\ out' = <<"write", d, n>>

(* With buffers that have no size a write is undefined: the model stops.   *)
Write(o, d) ==
    /\ opened[o] /\ allocated[o] /\ MayWrite(o) /\ Fits(o, d)
    /\ IF Len(d) > DirectOver THEN WriteDirect(o, d) ELSE WriteBuffered(o, d)
    /\ UNCHANGED <<atEnd, handle, opened, rbuf, allocated>>

Flush(o) ==
    /\ opened[o]
    /\ \E r \in FlushBuffer(o), synced \in BOOLEAN :
          /\ Apply(o, IF synced THEN r ELSE [r EXCEPT !.cost = 1])
          /\ out' = <<"flush", r.ok /\ synced>>
    /\ UNCHANGED <<atEnd, handle, opened, rbuf, allocated>>

-----------------------------------------------------------------------------
(* Positions and sizes.                                                    *)

(* lseek refuses a place before the start; the read buffer, dropped before *)
(* the call, is lost all the same, and what was read ahead is passed over. *)
Seek(o, whence, n) ==
    /\ opened[o] /\ (whence = "current" => MayWrite(o))
    /\ \E r \in FlushBuffer(o) :
          LET base == CASE whence = "begin" -> 0 [] whence = "current" -> r.at
                        [] whence = "end" -> Len(r.disk)
              to   == base + n
          IN  \/ /\ ~r.ok /\ Apply(o, r)
                 /\ UNCHANGED rbuf /\ out' = <<"seek", whence, n, FALSE>>
              \/ /\ r.ok /\ to <= MaxLen /\ (to < 0 => MayWrite(o))
                 /\ Apply(o, IF to < 0 THEN r ELSE [r EXCEPT !.at = to])
                 /\ rbuf' = [rbuf EXCEPT ![o] = <<>>]
                 /\ out' = <<"seek", whence, n, to >= 0>>
    /\ UNCHANGED <<atEnd, handle, opened, allocated>>

Tell(o) ==
    /\ opened[o] /\ Settled(o)
    /\ out' = <<"tell", offset[handle[o]]>>
    /\ UNCHANGED <<offset, rbuf>> /\ Keep

Size(o) ==
    /\ opened[o]
    /\ \E r \in FlushBuffer(o) :
          Apply(o, r) /\ out' = <<"size", IF r.ok THEN Len(r.disk) ELSE 0>>
    /\ UNCHANGED <<atEnd, handle, opened, rbuf, allocated>>

Truncate(o, n) ==
    /\ opened[o] /\ Settled(o) /\ n <= MaxLen
    /\ \/ disk' = Resized(disk, n) /\ out' = <<"truncate", n, TRUE>> /\ UNCHANGED faults
       \/ /\ faults < MaxFaults /\ faults' = faults + 1
          /\ out' = <<"truncate", n, FALSE>> /\ UNCHANGED disk
    /\ UNCHANGED <<offset, atEnd, handle, opened, rbuf, wbuf, allocated>>

-----------------------------------------------------------------------------

Next ==
    \E o \in Objects :
        \/ \E t, a \in BOOLEAN : Open(o, t, a)
        \/ \E p \in Objects : Move(o, p)
        \/ \E n \in Counts : Read(o, n) \/ Truncate(o, n)
        \/ \E n \in Distances, w \in {"begin", "current", "end"} : Seek(o, w, n)
        \/ \E d \in Inputs : Write(o, d)
        \/ Close(o) \/ ReadLine(o) \/ ReadAll(o) \/ Prefetch(o)
        \/ Flush(o) \/ Tell(o) \/ Size(o)

Spec == Init /\ [][Next]_vars

-----------------------------------------------------------------------------
(* Properties.                                                             *)

\* Every open descriptor belongs to exactly one object, which knows that it
\* is open: moves, failed opens and reopening leak none and share none.
DescriptorsOwned ==
    /\ \A o \in Objects : opened[o] <=> handle[o] # NoHandle
    /\ \A o, p \in Objects : handle[o] = handle[p] /\ handle[o] # NoHandle => o = p
    /\ DOMAIN offset = {handle[o] : o \in Objects} \ {NoHandle}

(* The one open object, seen through its buffers.                          *)
InUse == \E o \in Objects : opened[o]
User  == CHOOSE o \in Objects : opened[o]

Content  == IF InUse THEN Overwrite(disk, At(User), wbuf[User]) ELSE disk
Pending  == InUse /\ wbuf[User] # <<>>
Appends  == InUse /\ handle[User] \in atEnd
PositionOf(o) ==
    IF wbuf[o] = <<>> THEN offset[handle[o]] - Len(rbuf[o]) ELSE At(o) + Len(wbuf[o])
Position == IF InUse THEN PositionOf(User) ELSE 0

Stream == INSTANCE SeekableFile WITH
    content <- Content, durable <- disk, pending <- Pending, opened <- InUse,
    appends <- Appends, pos <- Position, result <- out

\* With a disciplined user, a file object is a sequence of bytes with one
\* position, however the buffers fill and flush, and whatever flush fails:
\* nothing is written twice, skipped, or lost but by a close that fails.
ImplementsStream == Stream!Spec

=============================================================================
