----------------------------- MODULE DemoFiles -----------------------------
(***************************************************************************)
(* The contents of files and the open streams in web/demo.js: MEMFS keeps  *)
(* a file in an array with spare capacity, FS a table of streams, and the  *)
(* system calls that libc makes go through both.  demo.c reads its program *)
(* from the file that the build embedded.                                  *)
(***************************************************************************)
EXTENDS Integers, Sequences

CONSTANTS Names,        \* names of files in one directory
          Data,         \* what is written at once
          Modes,        \* how files are opened: [acc, creat, excl, trunc, append]
          Lengths,      \* what is read at once
          Offsets,      \* by how much a stream is moved
          Fds,          \* the descriptors considered, from 0
          MAX_OPEN_FDS, \* the largest descriptor that open gives, 4096
          MIN_CAPACITY, \* of a file that is expanded, 256
          CAPACITY_DOUBLING_MAX, \* 1048576
          MaxSize,      \* bound on positions and sizes
          MaxNodes,     \* bound on the files ever made
          MaxCalls,     \* bound on the calls
          Embedded      \* the embedded file: [name, bytes]

VARIABLES nodes,   \* the files ever made: [contents, usedBytes, write]
          names,   \* the file of each name, or NoName
          streams, \* FS.streams: [node, shared], or NONE
          shared,  \* what dup'ed streams share: [pos, acc, append]
          last,    \* the last call: [call, err, value]
          calls    \* how many there were

vars == <<nodes, names, streams, shared, last, calls>>

NONE == [node |-> 0, shared |-> -1]
NoName == 0
StdFds == 0 .. 2

Lesser(a, b) == IF a < b THEN a ELSE b
Greater(a, b) == IF a > b THEN a ELSE b
Zeros(n) == [i \in 1 .. n |-> 0]

\* TypedArray.set: a with data from position pos on.
Set(a, pos, data) ==
    [i \in DOMAIN a |-> IF pos < i /\ i <= pos + Len(data) THEN data[i - pos] ELSE a[i]]

-----------------------------------------------------------------------------
(* MEMFS: one file.                                                         *)

NewFile(write) == [contents |-> <<>>, usedBytes |-> 0, write |-> write]

\* mutant: the new storage starts out empty
expandFileStorageAfresh(node, needed) ==
    IF Len(node.contents) >= needed THEN node
    ELSE [node EXCEPT !.contents = Zeros(Greater(needed, 2 * Len(node.contents)))]

\* Doubles while small, then grows by an eighth, but at least to what is needed.
expandFileStorage(node, needed) ==
    LET prev == Len(node.contents)
        grown == IF prev < CAPACITY_DOUBLING_MAX THEN 2 * prev ELSE (9 * prev) \div 8
        capacity == Greater(Greater(needed, grown), IF prev # 0 THEN MIN_CAPACITY ELSE 0)
    IN  IF prev >= needed THEN node
        ELSE [node EXCEPT !.contents =
                Set(Zeros(capacity), 0, SubSeq(node.contents, 1, node.usedBytes))]

\* The first write to an empty file, a write inside what is used, and all the
\* rest; `array` is data that is not a typed array.
memfsWrite(node, data, pos, array) ==
    LET more == expandFileStorage(node, pos + Len(data))
    IN  CASE data = <<>> -> node
          [] data # <<>> /\ ~array /\ node.usedBytes = 0 /\ pos = 0 ->
               [node EXCEPT !.contents = data, !.usedBytes = Len(data)]
          [] data # <<>> /\ ~array /\ pos + Len(data) <= node.usedBytes ->
               [node EXCEPT !.contents = Set(@, pos, data)]
          [] OTHER -> [more EXCEPT !.contents = Set(@, pos, data),
                                   !.usedBytes = Greater(@, pos + Len(data))]

memfsRead(node, n, pos) ==
    IF pos >= node.usedBytes THEN <<>>
    ELSE SubSeq(node.contents, pos + 1, pos + Lesser(node.usedBytes - pos, n))

\* MEMFS.llseek: where a stream would be; FS refuses what is negative.
memfsLlseek(node, pos, off, from) ==
    CASE from = "set" -> off [] from = "cur" -> pos + off [] from = "end" -> node.usedBytes + off

\* FS.truncate to nothing gives the storage back.
truncate(node) == [node EXCEPT !.contents = <<>>, !.usedBytes = 0]

-----------------------------------------------------------------------------
(* Streams.                                                                 *)

Answer(call, err, value) ==
    /\ last' = [call |-> call, err |-> err, value |-> value]
    /\ calls < MaxCalls /\ calls' = calls + 1
Error(call, err) == Answer(call, err, <<>>) /\ UNCHANGED <<nodes, names, streams, shared>>

Taken(fd) == fd \in StdFds \/ streams[fd] # NONE
Lowest(S) == CHOOSE d \in S : \A e \in S : d <= e

\* mutant: looks on from the last descriptor that is taken
nextfdOnward == {fd \in 0 .. MAX_OPEN_FDS : \A e \in fd .. MAX_OPEN_FDS : ~Taken(e)}

\* The descriptors that nextfd may give; the lowest is taken.
nextfd == {fd \in 0 .. MAX_OPEN_FDS : ~Taken(fd)}

\* A place for the state that a new stream shares with its copies.
Unused == {s \in DOMAIN shared : \A fd \in Fds : streams[fd].shared # s}

NodeOf(fd) == nodes[streams[fd].node]
StateOf(fd) == shared[streams[fd].shared]

\* The state of a stream that is not there.
Fresh == [pos |-> 0, acc |-> "r", append |-> FALSE]

TypeOK ==
    /\ \A i \in DOMAIN nodes : nodes[i].usedBytes \in 0 .. Len(nodes[i].contents)
    /\ \A n \in Names : names[n] = NoName \/ names[n] \in DOMAIN nodes
    /\ \A fd \in Fds : streams[fd] = NONE \/ streams[fd].node \in DOMAIN nodes

\* The constructors have put the embedded file there, through createDataFile.
Init ==
    /\ nodes = <<memfsWrite(NewFile(TRUE), Embedded.bytes, 0, FALSE)>>
    /\ names = [n \in Names |-> IF n = Embedded.name THEN 1 ELSE NoName]
    /\ streams = [fd \in Fds |-> NONE]
    /\ shared = [s \in Fds |-> Fresh]
    /\ last = [call |-> "init", err |-> "ok", value |-> <<>>]
    /\ calls = 0

\* mayOpen: a file that was made read-only is not opened for writing.
mayOpen(node, m) == node.write \/ (m.acc = "r" /\ ~m.trunc)

\* FS.open (openat): the node is made or truncated before a descriptor is
\* looked for, so an open that runs out of them has done that.
Open(n, m) ==
    LET exists == names[n] # NoName
        id == IF exists THEN names[n] ELSE Len(nodes) + 1
    IN  /\ exists \/ Len(nodes) < MaxNodes
        /\ \/ exists /\ m.creat /\ m.excl /\ Error("open", "EEXIST")
           \/ ~exists /\ ~m.creat /\ Error("open", "ENOENT")
           \/ /\ exists /\ ~(m.creat /\ m.excl) /\ ~mayOpen(nodes[names[n]], m)
              /\ Error("open", "EACCES")
           \/ /\ IF exists THEN ~(m.creat /\ m.excl) /\ mayOpen(nodes[names[n]], m) ELSE m.creat
              /\ names' = [names EXCEPT ![n] = id]
              /\ nodes' = CASE ~exists -> Append(nodes, NewFile(TRUE))
                            [] exists /\ m.trunc -> [nodes EXCEPT ![id] = truncate(@)]
                            [] OTHER -> nodes
              /\ IF nextfd = {}
                 THEN Answer("open", "EMFILE", <<>>) /\ UNCHANGED <<streams, shared>>
                 ELSE /\ streams' = [streams EXCEPT ![Lowest(nextfd)] =
                                       [node |-> id, shared |-> Lowest(Unused)]]
                      /\ shared' = [shared EXCEPT ![Lowest(Unused)] =
                                      [pos |-> 0, acc |-> m.acc, append |-> m.append]]
                      /\ Answer("open", "ok", <<Lowest(nextfd)>>)

\* What streams share is garbage with the last of them.
Close(fd) ==
    /\ streams' = [streams EXCEPT ![fd] = NONE]
    /\ shared' = IF \E e \in Fds \ {fd} : streams[e].shared = streams[fd].shared THEN shared
                 ELSE [shared EXCEPT ![streams[fd].shared] = Fresh]
    /\ Answer("close", "ok", <<>>) /\ UNCHANGED <<nodes, names>>

\* mutant: the copy has a position of its own
DupApart(fd, arg) ==
    \E new \in {Lowest({e \in Fds : e >= arg /\ ~Taken(e)})} :
      /\ streams' = [streams EXCEPT ![new] = [node |-> streams[fd].node, shared |-> Lowest(Unused)]]
      /\ shared' = [shared EXCEPT ![Lowest(Unused)] = StateOf(fd)]
      /\ Answer("dup", "ok", <<new>>) /\ UNCHANGED <<nodes, names>>

\* fcntl with F_DUPFD: the lowest descriptor from arg on, beyond MAX_OPEN_FDS
\* as well.
Dup(fd, arg) ==
    /\ \E e \in Fds : e >= arg /\ ~Taken(e)
    /\ \E new \in {Lowest({e \in Fds : e >= arg /\ ~Taken(e)})} :
         /\ streams' = [streams EXCEPT ![new] = streams[fd]]
         /\ Answer("dup", "ok", <<new>>)
    /\ UNCHANGED <<nodes, names, shared>>

\* fcntl with F_SETFL, which can only add flags.
SetAppend(fd) ==
    /\ shared' = [shared EXCEPT ![streams[fd].shared].append = TRUE]
    /\ Answer("fcntl", "ok", <<>>) /\ UNCHANGED <<nodes, names, streams>>

\* FS.llseek.
llseek(fd, pos) ==
    IF pos < 0 THEN Error("seek", "EINVAL")
    ELSE /\ shared' = [shared EXCEPT ![streams[fd].shared].pos = pos]
         /\ Answer("seek", "ok", <<pos>>) /\ UNCHANGED <<nodes, names, streams>>

\* lseek, by fd_seek.
Seek(fd, off, from) ==
    \E pos \in {memfsLlseek(NodeOf(fd), StateOf(fd).pos, off, from)} :
        pos <= MaxSize /\ llseek(fd, pos)

\* Two pieces of memory: the second is read from where the first ended, unless
\* that came out short.
doReadv(node, pos, n, m) ==
    LET first == memfsRead(node, n, pos)
    IN  IF Len(first) < n THEN first ELSE first \o memfsRead(node, m, pos + Len(first))

\* fd_read, and what FS.read does with the stream.
Read(fd, n, m) ==
    LET state == StateOf(fd)
        bytes == doReadv(NodeOf(fd), state.pos, n, m)
    IN  IF state.acc = "w" THEN Error("read", "EBADF")
        ELSE /\ shared' = [shared EXCEPT ![streams[fd].shared].pos = @ + Len(bytes)]
             /\ Answer("read", "ok", bytes) /\ UNCHANGED <<nodes, names, streams>>

\* mutant: append mode finds the end of the file only at open
StartOpened(node, state) == state.pos

\* Where a write goes: FS.write moves to the end first in append mode.
Start(node, state) == IF state.append THEN node.usedBytes ELSE state.pos

\* fd_write, with the data in one piece of memory or cut in two.
Write(fd, data, cut) ==
    LET node == NodeOf(fd)
        pos == Start(node, StateOf(fd))
        one == memfsWrite(node, SubSeq(data, 1, cut), pos, FALSE)
        two == memfsWrite(one, SubSeq(data, cut + 1, Len(data)),
                          Start(one, [StateOf(fd) EXCEPT !.pos = pos + cut]), FALSE)
    IN  /\ pos + Len(data) <= MaxSize
        /\ IF StateOf(fd).acc = "r" THEN Error("write", "EBADF")
           ELSE /\ nodes' = [nodes EXCEPT ![streams[fd].node] = two]
                /\ shared' = [shared EXCEPT ![streams[fd].shared].pos = pos + Len(data)]
                /\ Answer("write", "ok", <<Len(data)>>) /\ UNCHANGED <<names, streams>>

Unlink(n) ==
    IF names[n] = NoName THEN Error("unlink", "ENOENT")
    ELSE /\ names' = [names EXCEPT ![n] = NoName]
         /\ Answer("unlink", "ok", <<>>) /\ UNCHANGED <<nodes, streams, shared>>

\* createDataFile, for an embedded file (from linear memory, so copied) or a
\* string: the node is made, opened, written and closed, and only then gets its
\* mode.  Without a descriptor to open it stays empty and writable.
createDataFile(n, data, array, canWrite) ==
    /\ Len(nodes) < MaxNodes
    /\ IF names[n] # NoName THEN Error("provide", "EEXIST")
       ELSE /\ names' = [names EXCEPT ![n] = Len(nodes) + 1]
            /\ \E made \in {IF nextfd = {} THEN NewFile(TRUE)
                            ELSE memfsWrite(NewFile(canWrite), data, 0, array)} :
                 nodes' = Append(nodes, made)
            /\ Answer("provide", IF nextfd = {} THEN "EMFILE" ELSE "ok", <<>>)
            /\ UNCHANGED <<streams, shared>>

Next ==
    \/ \E n \in Names : \/ \E m \in Modes : Open(n, m)
                        \/ Unlink(n)
                        \/ \E d \in Data, array, w \in BOOLEAN : createDataFile(n, d, array, w)
    \/ \E fd \in Fds \ StdFds :
         /\ streams[fd] # NONE
         /\ \/ Close(fd) \/ SetAppend(fd)
            \/ \E arg \in Fds : Dup(fd, arg)
            \/ \E off \in Offsets, from \in {"set", "cur", "end"} : Seek(fd, off, from)
            \/ \E n, m \in Lengths : Read(fd, n, m)
            \/ \E d \in Data : \E cut \in 0 .. Len(d) : Write(fd, d, cut)

Spec == Init /\ [][Next]_vars

-----------------------------------------------------------------------------
(* Properties.                                                              *)

\* A file's storage beyond what is used is zero, so a write that leaves a hole
\* in it shows no byte of what the file held before.
SlackIsZero ==
    \A i \in DOMAIN nodes : \A j \in nodes[i].usedBytes + 1 .. Len(nodes[i].contents) :
      nodes[i].contents[j] = 0

\* Files are what a program expects of them: the bytes last written, found at
\* the position of the open file, which copies of a descriptor share and other
\* descriptors do not, and kept while a descriptor is open though the name has
\* gone or is another file's.
Files == INSTANCE AbstractFiles WITH
    NoName <- 0, OpenFds <- 0 .. MAX_OPEN_FDS, CLOSED <- [file |-> 0, of |-> -1], Lengths <- {n + m : n, m \in Lengths},
    files <- [i \in DOMAIN nodes |->
                [bytes |-> SubSeq(nodes[i].contents, 1, nodes[i].usedBytes),
                 writable |-> nodes[i].write]],
    named <- names,
    fds <- [fd \in Fds |-> [file |-> streams[fd].node, of |-> streams[fd].shared]],
    opens <- shared, said <- last

StartsAbstract == Files!Init
StepIsAbstract == [Files!Next]_(Files!vars)
ImplementsAbstractFiles == Files!Spec

\* What every call keeps: a file's storage is as long as what is used of it, a
\* descriptor that is open leads to a file and to a state, and positions are not
\* negative.
Inv ==
    /\ TypeOK /\ SlackIsZero
    /\ nodes \in Seq([contents : Seq(Int), usedBytes : Nat, write : BOOLEAN])
    /\ names \in [Names -> 0 .. Len(nodes)]
    /\ streams \in [Fds -> {NONE} \cup [node : 1 .. Len(nodes), shared : Fds]]
    /\ shared \in [Fds -> [pos : Nat, acc : {"r", "w", "rw"}, append : BOOLEAN]]
=============================================================================
