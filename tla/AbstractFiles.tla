--------------------------- MODULE AbstractFiles ---------------------------
(***************************************************************************)
(* What files promise a program: a file is a sequence of bytes, found by   *)
(* its name for as long as it has one and by its open descriptors for as   *)
(* long as it has any.  A descriptor is a reference to an open file with a *)
(* position and a mode, shared between the copies that dup makes of it.    *)
(***************************************************************************)
EXTENDS Integers, Sequences

CONSTANTS Names, Data, Fds, OpenFds, StdFds, Modes, Lengths, Offsets,
          Embedded, NoName, CLOSED

VARIABLES files, \* the files ever made: [bytes, writable], by number
          named, \* the file of each name, or NoName
          fds,   \* descriptor |-> [file, of], or CLOSED
          opens, \* the open files that descriptors are of: [pos, acc, append]
          said   \* the last call and its result

vars == <<files, named, fds, opens, said>>

Say(call, err, value) == said' = [call |-> call, err |-> err, value |-> value]
Refuse(call, err) == Say(call, err, <<>>) /\ UNCHANGED <<files, named, fds, opens>>

Free == {d \in Fds \ StdFds : fds[d] = CLOSED}
Opening == Free \cap OpenFds
Lowest(S) == CHOOSE d \in S : \A e \in S : d <= e
Unused == {o \in DOMAIN opens : \A d \in Fds : fds[d] # CLOSED => fds[d].of # o}

\* The bytes of f with data at position pos, zeros before it if it is beyond
\* the end.
Written(f, pos, data) ==
    LET n == IF pos + Len(data) > Len(f) THEN pos + Len(data) ELSE Len(f)
    IN  IF data = <<>> THEN f
        ELSE [i \in 1 .. n |-> CASE pos < i /\ i <= pos + Len(data) -> data[i - pos]
                                 [] (i <= pos \/ i > pos + Len(data)) /\ i <= Len(f) -> f[i]
                                 [] OTHER -> 0]

At(f, pos, n) == SubSeq(f, pos + 1, IF pos + n < Len(f) THEN pos + n ELSE Len(f))

MayWrite(d) == opens[fds[d].of].acc # "r"
MayRead(d) == opens[fds[d].of].acc # "w"

Fresh == [pos |-> 0, acc |-> "r", append |-> FALSE]

Init == /\ files = <<[bytes |-> Embedded.bytes, writable |-> TRUE]>>
        /\ named = [n \in Names |-> IF n = Embedded.name THEN 1 ELSE NoName]
        /\ fds = [d \in Fds |-> CLOSED]
        /\ opens = [o \in Fds |-> Fresh]
        /\ said = [call |-> "init", err |-> "ok", value |-> <<>>]

\* Open: the file exists and may be opened so, or is created; a truncating open
\* empties it.  Out of descriptors the call fails, with what it had to do to the
\* file done.
Allowed(n, m) == named[n] # NoName /\ ~(m.creat /\ m.excl)
                 /\ (files[named[n]].writable \/ (m.acc = "r" /\ ~m.trunc))
Created(n, m) == named[n] = NoName /\ m.creat

Prepared(n, m) ==
    IF Created(n, m)
    THEN /\ files' = Append(files, [bytes |-> <<>>, writable |-> TRUE])
         /\ named' = [named EXCEPT ![n] = Len(files) + 1]
    ELSE /\ files' = IF m.trunc THEN [files EXCEPT ![named[n]].bytes = <<>>] ELSE files
         /\ UNCHANGED named

Open(n, m) ==
    \/ /\ ~Allowed(n, m) /\ ~Created(n, m)
       /\ \E e \in {"ENOENT", "EEXIST", "EACCES"} : Refuse("open", e)
    \/ /\ Allowed(n, m) \/ Created(n, m)
       /\ \/ /\ Opening # {} /\ Unused # {} /\ Prepared(n, m)
             /\ fds' = [fds EXCEPT ![Lowest(Opening)] = [file |-> named'[n], of |-> Lowest(Unused)]]
             /\ opens' = [opens EXCEPT ![Lowest(Unused)] =
                            [pos |-> 0, acc |-> m.acc, append |-> m.append]]
             /\ Say("open", "ok", <<Lowest(Opening)>>)
          \/ /\ Opening = {} /\ Prepared(n, m)
             /\ Say("open", "EMFILE", <<>>) /\ UNCHANGED <<fds, opens>>

Close(d) == /\ fds' = [fds EXCEPT ![d] = CLOSED]
            /\ opens' = IF \E e \in Fds \ {d} : fds[e] # CLOSED /\ fds[e].of = fds[d].of
                        THEN opens ELSE [opens EXCEPT ![fds[d].of] = Fresh]
            /\ Say("close", "ok", <<>>) /\ UNCHANGED <<files, named>>

Dup(d, low) ==
    /\ {e \in Free : e >= low} # {}
    /\ fds' = [fds EXCEPT ![Lowest({e \in Free : e >= low})] = fds[d]]
    /\ Say("dup", "ok", <<Lowest({e \in Free : e >= low})>>) /\ UNCHANGED <<files, named, opens>>

Seek(d, off, from) ==
    LET base == CASE from = "set" -> 0
                  [] from = "cur" -> opens[fds[d].of].pos
                  [] from = "end" -> Len(files[fds[d].file].bytes)
    IN  IF base + off < 0 THEN Refuse("seek", "EINVAL")
        ELSE /\ opens' = [opens EXCEPT ![fds[d].of].pos = base + off]
             /\ Say("seek", "ok", <<base + off>>) /\ UNCHANGED <<files, named, fds>>

\* Read and write any number of pieces as one.
Read(d, n) ==
    LET got == At(files[fds[d].file].bytes, opens[fds[d].of].pos, n)
    IN  IF ~MayRead(d) THEN Refuse("read", "EBADF")
        ELSE /\ opens' = [opens EXCEPT ![fds[d].of].pos = @ + Len(got)]
             /\ Say("read", "ok", got) /\ UNCHANGED <<files, named, fds>>

Write(d, data) ==
    LET f == files[fds[d].file].bytes
        o == opens[fds[d].of]
        pos == IF o.append THEN Len(f) ELSE o.pos
    IN  IF ~MayWrite(d) THEN Refuse("write", "EBADF")
        ELSE /\ files' = [files EXCEPT ![fds[d].file].bytes = Written(f, pos, data)]
             /\ opens' = [opens EXCEPT ![fds[d].of].pos = pos + Len(data)]
             /\ Say("write", "ok", <<Len(data)>>) /\ UNCHANGED <<named, fds>>

SetAppend(d) == /\ opens' = [opens EXCEPT ![fds[d].of].append = TRUE]
                /\ Say("fcntl", "ok", <<>>) /\ UNCHANGED <<files, named, fds>>

Unlink(n) == IF named[n] = NoName THEN Refuse("unlink", "ENOENT")
             ELSE /\ named' = [named EXCEPT ![n] = NoName]
                  /\ Say("unlink", "ok", <<>>) /\ UNCHANGED <<files, fds, opens>>

\* A file the host puts there, under a name that is not taken; it stays empty
\* for want of a descriptor to write it by.
Provide(n, data, writable) ==
    IF named[n] # NoName THEN Refuse("provide", "EEXIST")
    ELSE /\ named' = [named EXCEPT ![n] = Len(files) + 1]
         /\ \/ /\ files' = Append(files, [bytes |-> data, writable |-> writable])
               /\ Say("provide", "ok", <<>>)
            \/ /\ Opening = {} /\ files' = Append(files, [bytes |-> <<>>, writable |-> TRUE])
               /\ Say("provide", "EMFILE", <<>>)
         /\ UNCHANGED <<fds, opens>>

Next ==
    \/ \E n \in Names : \/ \E m \in Modes : Open(n, m)
                        \/ Unlink(n)
                        \/ \E data \in Data, w \in BOOLEAN : Provide(n, data, w)
    \/ \E d \in Fds \ StdFds :
         /\ fds[d] # CLOSED
         /\ \/ Close(d) \/ SetAppend(d)
            \/ \E e \in Fds : Dup(d, e)
            \/ \E off \in Offsets, from \in {"set", "cur", "end"} : Seek(d, off, from)
            \/ \E n \in Lengths : Read(d, n)
            \/ \E data \in Data : Write(d, data)

Spec == Init /\ [][Next]_vars
=============================================================================
