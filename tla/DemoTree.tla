------------------------------ MODULE DemoTree ------------------------------
(***************************************************************************)
(* The names of the file system in web/demo.js: MEMFS directories, the     *)
(* hashed table of nodes that stands in front of them, path lookup with    *)
(* symbolic links and mount points, and the calls that make, move and      *)
(* remove names.  It starts as FS.staticInit and FS.init leave it.         *)
(*                                                                         *)
(* A path is the sequence of its components.  A name occurs twice over: in *)
(* the contents of its directory, and in a chain of nameTable, which is    *)
(* where every lookup goes.                                                *)
(***************************************************************************)
EXTENDS Integers, Sequences, FiniteSets
LOCAL INSTANCE SequencesExt

CONSTANTS TABLE,       \* nameTable.length, 4096
          SYMLOOP_MAX, \* links followed by one lookup, 40
          HashOf(_),   \* the hash of a name's characters
          Paths,       \* paths the program and its host use
          Links,       \* what they put in a symbolic link: [abs, parts]
          Moves,       \* the pairs of them that are used to rename
          Dotted,      \* the names that begin with a dot
          MaxNodes     \* bound on the nodes ever made

VARIABLES fs,   \* [nodes: by id, a sequence; table: chains of ids]
          last  \* the last call: [op, path (if it went well), err, node]

vars == <<fs, last>>

NONE == 0
Root == 1
Fail(e) == [err |-> e, node |-> NONE, path |-> <<>>]
Found(id, path) == [err |-> "ok", node |-> id, path |-> path]

-----------------------------------------------------------------------------
(* The table of names.                                                      *)

hashName(parentid, name) == (parentid + HashOf(name)) % TABLE

hashAddNode(F, id) ==
    LET h == hashName(F.nodes[id].parent, F.nodes[id].name)
    IN  [F EXCEPT !.table[h] = <<id>> \o @]

\* mutant: only the head of a chain is taken out
hashRemoveNodeHead(F, id) ==
    LET h == hashName(F.nodes[id].parent, F.nodes[id].name)
    IN  [F EXCEPT !.table[h] = IF @ # <<>> /\ Head(@) = id THEN Tail(@) ELSE @]

hashRemoveNode(F, id) ==
    LET h == hashName(F.nodes[id].parent, F.nodes[id].name)
    IN  [F EXCEPT !.table[h] = SelectSeq(@, LAMBDA n : n # id)]

IsDir(F, id) == F.nodes[id].kind = "dir"
IsLink(F, id) == F.nodes[id].kind = "link"
IsMountpoint(F, id) == F.nodes[id].mounted # NONE

\* The first node of the chain with this parent and name; MEMFS itself has
\* nothing to add, its lookup only throws.
lookupNode(F, dir, name) ==
    LET chain == F.table[hashName(dir, name)]
        hits == {i \in DOMAIN chain :
                   F.nodes[chain[i]].parent = dir /\ F.nodes[chain[i]].name = name}
    IN  CASE ~IsDir(F, dir) -> Fail("ENOTDIR")
          [] IsDir(F, dir) /\ hits = {} -> Fail("ENOENT")
          [] OTHER -> Found(chain[CHOOSE i \in hits : \A j \in hits : i <= j], <<>>)

-----------------------------------------------------------------------------
(* Paths.                                                                   *)

\* PATH.normalizeArray of an absolute path: by the text alone.
normalizeArray(parts) ==
    LET Push(acc, p) == CASE p = "." -> acc
                          [] p = ".." -> IF acc = <<>> THEN acc ELSE Front(acc)
                          [] OTHER -> Append(acc, p)
    IN  FoldLeft(Push, <<>>, parts)

basename(path) == IF normalizeArray(path) = <<>> THEN "/" ELSE Last(normalizeArray(path))
dirname(path) == IF path = <<>> THEN <<>> ELSE Front(path)
join2(path, name) == Append(path, name)

\* mutant: a relative link is taken from the root
targetFromRoot(link, at) == link.parts

\* The path that a link at the path `at` stands for.
target(link, at) == IF link.abs THEN link.parts ELSE dirname(at) \o link.parts

Follow == [parent |-> FALSE, follow |-> TRUE, follow_mount |-> TRUE, noent_okay |-> FALSE]
NoFollow == [Follow EXCEPT !.follow = FALSE]
ParentOf == [Follow EXCEPT !.parent = TRUE, !.follow = FALSE]

\* lookupPath from component i on, at the node `current`; a link starts the
\* whole path over, with the link in the place of what led to it.
RECURSIVE WalkFrom(_, _, _, _, _, _, _)
WalkFrom(F, parts, i, current, at, opts, nlinks) ==
    LET islast == i = Len(parts)
        step == lookupNode(F, current, parts[i])
        here == join2(at, parts[i])
        jumped == IF IsMountpoint(F, step.node) /\ (~islast \/ opts.follow_mount)
                  THEN F.nodes[step.node].mounted ELSE step.node
        rest == SubSeq(parts, i + 1, Len(parts))
    IN  CASE i > Len(parts) \/ (islast /\ opts.parent) -> Found(current, at)
          [] i <= Len(parts) /\ ~(islast /\ opts.parent) /\ parts[i] = ".." ->
               WalkFrom(F, parts, i + 1, F.nodes[current].parent, dirname(at), opts, nlinks)
          [] OTHER ->
               CASE step.err = "ENOENT" /\ islast /\ opts.noent_okay -> Found(NONE, here)
                 [] step.err # "ok" /\ ~(step.err = "ENOENT" /\ islast /\ opts.noent_okay) -> step
                 [] OTHER ->
                      IF IsLink(F, jumped) /\ (~islast \/ opts.follow)
                      THEN IF nlinks + 1 = SYMLOOP_MAX THEN Fail("ELOOP")
                           ELSE WalkFrom(F, SelectSeq(target(F.nodes[jumped].link, here) \o rest,
                                                      LAMBDA p : p # "."),
                                         1, Root, <<>>, opts, nlinks + 1)
                      ELSE WalkFrom(F, parts, i + 1, jumped, here, opts, nlinks)

lookupPath(F, path, opts) ==
    WalkFrom(F, SelectSeq(path, LAMBDA p : p # "."), 1, Root, <<>>, opts, 0)

\* getPath: up through the parents; a mounted root is known by its name too.
getPath(F, id) ==
    LET up[n \in 1 .. Len(F.nodes)] ==
          IF n = F.nodes[n].parent THEN <<>> ELSE Append(up[F.nodes[n].parent], F.nodes[n].name)
    IN  up[id]

-----------------------------------------------------------------------------
(* Making and removing names: each gives the new tree and its answer.       *)

NewNode(parent, name, kind, link) ==
    [parent |-> parent, name |-> name, kind |-> kind, link |-> link,
     mounted |-> NONE, contents |-> <<>>]

NoLink == [abs |-> TRUE, parts |-> <<>>]

\* FS.createNode: the node and its place in the table.
createNode(F, parent, name, kind, link) ==
    hashAddNode([F EXCEPT !.nodes = Append(@, NewNode(parent, name, kind, link))],
                Len(F.nodes) + 1)

With(contents, name, id) ==
    [n \in DOMAIN contents \cup {name} |-> IF n = name THEN id ELSE contents[n]]
Without(contents, name) == [n \in DOMAIN contents \ {name} |-> contents[n]]

\* MEMFS.createNode: the contents of the directory as well.
AddNode(F, parent, name, kind, link) ==
    LET G == createNode(F, parent, name, kind, link)
    IN  [G EXCEPT !.nodes[parent].contents = With(@, name, Len(G.nodes))]

Answer(F, err, id) == [fs |-> F, err |-> err, node |-> id]

mayCreate(F, dir, name) ==
    CASE ~IsDir(F, dir) -> "ENOTDIR"
      [] IsDir(F, dir) /\ lookupNode(F, dir, name).err = "ok" -> "EEXIST"
      [] OTHER -> "ok"

\* mknod and symlink differ in nothing that matters here.
mknod(F, path, kind, link) ==
    LET dir == lookupPath(F, path, ParentOf)
        name == basename(path)
        may == mayCreate(F, dir.node, name)
    IN  CASE dir.err # "ok" -> Answer(F, dir.err, NONE)
          [] dir.err = "ok" /\ may # "ok" -> Answer(F, may, NONE)
          [] OTHER -> Answer(AddNode(F, dir.node, name, kind, link), "ok", Len(F.nodes) + 1)

mayDelete(F, dir, name, isdir) ==
    LET found == lookupNode(F, dir, name)
        node == found.node
    IN  CASE found.err # "ok" -> found.err
          [] found.err = "ok" /\ isdir /\ ~IsDir(F, node) -> "ENOTDIR"
          [] found.err = "ok" /\ isdir /\ IsDir(F, node) /\ F.nodes[node].parent = node -> "EBUSY"
          [] found.err = "ok" /\ ~isdir /\ IsDir(F, node) -> "EISDIR"
          [] OTHER -> "ok"

\* mutant: a directory goes with what is in it
VacantAny(F, node) == TRUE

Vacant(F, node) == DOMAIN F.nodes[node].contents = {}

\* unlink, and rmdir with isdir: of a file or link, or of an empty directory.
remove(F, path, isdir) ==
    LET dir == lookupPath(F, path, ParentOf)
        name == basename(path)
        node == lookupNode(F, dir.node, name).node
        may == mayDelete(F, dir.node, name, isdir)
    IN  CASE dir.err # "ok" -> Answer(F, dir.err, NONE)
          [] dir.err = "ok" /\ may # "ok" -> Answer(F, may, NONE)
          [] dir.err = "ok" /\ may = "ok" /\ IsMountpoint(F, node) -> Answer(F, "EBUSY", NONE)
          [] dir.err = "ok" /\ may = "ok" /\ ~IsMountpoint(F, node)
             /\ isdir /\ ~Vacant(F, node) -> Answer(F, "ENOTEMPTY", NONE)
          [] OTHER ->
               Answer(hashRemoveNode([F EXCEPT !.nodes[dir.node].contents = Without(@, name)],
                                     node),
                      "ok", node)

-----------------------------------------------------------------------------
(* Moving a name.                                                           *)

\* mutant: the text of the paths is not looked at
LeadsNever(from, to) == FALSE

\* PATH_FS.relative(from, to) does not begin with a dot: `from` leads to `to` by
\* the text alone.  A name that begins with a dot is taken for a "..".
Leads(from, to) ==
    LET f == normalizeArray(from)
        t == normalizeArray(to)
    IN  IsPrefix(f, t) /\ (f # t => t[Len(f) + 1] \notin Dotted)

\* mutant: the node that is replaced stays in the table
movedOver(F, old, new, dir, name) ==
    [F EXCEPT !.nodes[F.nodes[old].parent].contents = Without(@, F.nodes[old].name),
              !.nodes[dir].contents = With(@, name, old),
              !.nodes[old].name = name, !.nodes[old].parent = dir]

\* MEMFS.rename and the new parent: what had the name goes.
moved(F, old, new, dir, name) ==
    LET G == IF new = NONE THEN F ELSE hashRemoveNode(F, new)
    IN  [G EXCEPT !.nodes[F.nodes[old].parent].contents = Without(@, F.nodes[old].name),
                  !.nodes[dir].contents = With(@, name, old),
                  !.nodes[old].name = name, !.nodes[old].parent = dir]

\* A check, and what comes after it.
Then(err, next) == IF err # "ok" THEN err ELSE next
Unless(bad, err) == IF bad THEN err ELSE "ok"

\* The checks of FS.rename, in their order; "same" is its early return.
mayRename(F, p, q, from, to, old, new) ==
    LET isdir == IsDir(F, old.node)
        put == IF new = NONE THEN mayCreate(F, to.node, basename(q))
                             ELSE mayDelete(F, to.node, basename(q), isdir)
    IN  Then(from.err, Then(to.err, Then(old.err,
        Then(Unless(Leads(p, dirname(q)), "EINVAL"),
        Then(Unless(Leads(q, dirname(p)), "ENOTEMPTY"),
        Then(Unless(old.node = new, "same"),
        Then(mayDelete(F, from.node, basename(p), isdir),
        Then(put,
             Unless(IsMountpoint(F, old.node) \/ (new # NONE /\ IsMountpoint(F, new)),
                    "EBUSY")))))))))

\* FS.rename.  Both directories are on the one mount that has names.  The node
\* leaves the table under its old name and comes back under the name it has then,
\* also if MEMFS refuses to replace a directory with something in it.
rename(F, p, q) ==
    LET from == lookupPath(F, p, ParentOf)
        to == lookupPath(F, q, ParentOf)
        old == lookupNode(F, from.node, basename(p))
        new == lookupNode(F, to.node, basename(q)).node
        may == mayRename(F, p, q, from, to, old, new)
        out == hashRemoveNode(F, old.node)
        full == new # NONE /\ IsDir(F, old.node) /\ ~Vacant(F, new)
    IN  CASE may \notin {"ok", "same"} -> Answer(F, may, NONE)
          [] may = "same" -> Answer(F, "ok", old.node)
          [] may = "ok" /\ full -> Answer(hashAddNode(out, old.node), "ENOTEMPTY", NONE)
          [] OTHER -> Answer(hashAddNode(moved(out, old.node, new, to.node, basename(q)),
                                         old.node), "ok", old.node)

-----------------------------------------------------------------------------
\* mutant: creates the name of the link, not what it leads to
openAtTheLink(F, path, creates) ==
    LET found == lookupPath(F, path, [Follow EXCEPT !.noent_okay = TRUE])
    IN  CASE found.err # "ok" -> Answer(F, found.err, NONE)
          [] found.err = "ok" /\ found.node = NONE /\ creates -> mknod(F, path, "file", NoLink)
          [] found.err = "ok" /\ found.node = NONE /\ ~creates -> Answer(F, "ENOENT", NONE)
          [] OTHER -> Answer(F, "ok", found.node)

\* The part of FS.open that is about names: links are followed, and with
\* O_CREAT what they lead to is made if it is not there.
open(F, path, creates) ==
    LET found == lookupPath(F, path, [Follow EXCEPT !.noent_okay = TRUE])
    IN  CASE found.err # "ok" -> Answer(F, found.err, NONE)
          [] found.err = "ok" /\ found.node = NONE /\ creates ->
               mknod(F, found.path, "file", NoLink)
          [] found.err = "ok" /\ found.node = NONE /\ ~creates -> Answer(F, "ENOENT", NONE)
          [] OTHER -> Answer(F, "ok", found.node)

\* createPath: mkdir of every prefix, whose errors are swallowed.
createPath(F, path) ==
    FoldLeft(LAMBDA G, n : mknod(G, SubSeq(path, 1, n), "dir", NoLink).fs, F,
             [i \in 1 .. Len(path) |-> i])

-----------------------------------------------------------------------------
(* The tree before the program runs.                                        *)

Made(F, made) == mknod(F, made[2], made[1], made[3]).fs
Dir(path) == <<"dir", path, NoLink>>
Device(name) == <<"chrdev", <<"dev", name>>, NoLink>>
LinkTo(path, to) == <<"link", path, [abs |-> TRUE, parts |-> to]>>

createDefaultDirectories == <<Dir(<<"tmp">>), Dir(<<"home">>), Dir(<<"home", "web_user">>)>>
createDefaultDevices ==
    <<Dir(<<"dev">>), Device("null"), Device("tty"), Device("tty1"), Device("random"),
      Device("urandom"), Dir(<<"dev", "shm">>), Dir(<<"dev", "shm", "tmp">>)>>
createSpecialDirectories ==
    <<Dir(<<"proc">>), Dir(<<"proc", "self">>), Dir(<<"proc", "self", "fd">>)>>
createStandardStreams ==
    <<LinkTo(<<"dev", "stdin">>, <<"dev", "tty">>), LinkTo(<<"dev", "stdout">>, <<"dev", "tty">>),
      LinkTo(<<"dev", "stderr">>, <<"dev", "tty1">>)>>

\* FS.mount at a directory: the root of the mounted system is made by the mount
\* itself, here as a second node with the parent and the name of the first.
mount(F, path) ==
    LET at == lookupPath(F, path, [Follow EXCEPT !.follow_mount = FALSE]).node
        G == createNode(F, F.nodes[at].parent, F.nodes[at].name, "dir", NoLink)
    IN  [G EXCEPT !.nodes[at].mounted = Len(G.nodes)]

\* FS.mount of "/": a node that is its own parent.
Empty == hashAddNode([nodes |-> <<NewNode(Root, "/", "dir", NoLink)>>,
                      table |-> [h \in 0 .. TABLE - 1 |-> <<>>]], Root)

staticInit ==
    mount(FoldLeft(Made, Empty, createDefaultDirectories \o createDefaultDevices
                                \o createSpecialDirectories), <<"proc", "self", "fd">>)

FsInit == FoldLeft(Made, staticInit, createStandardStreams)

-----------------------------------------------------------------------------
TypeOK ==
    /\ \A i \in DOMAIN fs.nodes :
         fs.nodes[i].parent \in DOMAIN fs.nodes
         /\ fs.nodes[i].kind \in {"dir", "file", "link", "chrdev"}
    /\ \A h \in 0 .. TABLE - 1 : \A i \in DOMAIN fs.table[h] : fs.table[h][i] \in DOMAIN fs.nodes

Init == fs \in {FsInit} /\ last = [op |-> "init", path |-> <<>>, err |-> "ok", node |-> NONE]

Room == Len(fs.nodes) < MaxNodes

Call(op, path, result) ==
    \E r \in {result} :
      /\ fs' = r.fs
      /\ last' = [op |-> op, path |-> IF r.err = "ok" THEN path ELSE <<>>, err |-> r.err, node |-> r.node]

Mkdir(p) == Room /\ Call("mkdir", p, mknod(fs, p, "dir", NoLink))
Symlink(p, l) == Room /\ Call("symlink", p, mknod(fs, p, "link", l))
Open(p, creates) == (creates => Room) /\ Call("open", p, open(fs, p, creates))
Unlink(p) == Call("unlink", p, remove(fs, p, FALSE))
Rmdir(p) == Call("rmdir", p, remove(fs, p, TRUE))
Rename(p, q) == Call("rename", join2(lookupPath(fs, q, ParentOf).path, basename(q)),
                     rename(fs, p, q))
CreatePath(p) == Len(fs.nodes) + Len(p) <= MaxNodes
                 /\ Call("createPath", p, Answer(createPath(fs, p), "ok", NONE))

Next == \E p \in Paths :
          \/ Mkdir(p) \/ Unlink(p) \/ Rmdir(p) \/ CreatePath(p)
          \/ \E m \in Moves : Rename(m[1], m[2])
          \/ \E creates \in BOOLEAN : Open(p, creates)
          \/ \E l \in Links : Symlink(p, l)

Spec == Init /\ [][Next]_vars

-----------------------------------------------------------------------------
(* Properties.                                                              *)

\* What the tree says, without the table: the node of a name in a directory, or
\* the root of what is mounted there.
Entry(dir, name) ==
    IF IsDir(fs, dir) /\ name \in DOMAIN fs.nodes[dir].contents
    THEN LET id == fs.nodes[dir].contents[name]
         IN  IF IsMountpoint(fs, id) THEN fs.nodes[id].mounted ELSE id
    ELSE NONE

\* The table and the directories agree: every name of a directory is found by
\* way of the table, nothing else is, and no chain keeps a node whose name was
\* removed, or holds one twice, whatever names collide.
NamesAgree ==
    /\ \A d \in DOMAIN fs.nodes : IsDir(fs, d) =>
         \A n \in DOMAIN fs.nodes[d].contents :
           lookupNode(fs, d, n).node = Entry(d, n)
    /\ \A h \in 0 .. TABLE - 1 :
         \A i \in DOMAIN fs.table[h] :
           LET id == fs.table[h][i]
               node == fs.nodes[id]
           IN  /\ \A j \in DOMAIN fs.table[h] : fs.table[h][j] = id => j = i
               /\ id # Root => \/ Entry(node.parent, node.name) = id
                               \/ IsMountpoint(fs, id)

\* Resolution by the tree: component by component from a directory, a link being
\* resolved from the directory it is in.  (The ".." of a file is its directory.)
RECURSIVE Resolved(_, _, _)
Resolved(dir, parts, nlinks) ==
    IF parts = <<>> THEN dir
    ELSE LET name == Head(parts)
             id == CASE name = "." -> dir
                     [] name = ".." -> fs.nodes[dir].parent
                     [] OTHER -> Entry(dir, name)
         IN  CASE id = NONE \/ nlinks = SYMLOOP_MAX -> NONE
               [] id # NONE /\ nlinks < SYMLOOP_MAX /\ IsLink(fs, id) ->
                    Resolved(IF fs.nodes[id].link.abs THEN Root ELSE dir,
                             fs.nodes[id].link.parts \o Tail(parts), nlinks + 1)
               [] OTHER -> Resolved(id, Tail(parts), nlinks)

\* A path leads where the tree says, through links, mount points and "..", also
\* where a link starts the path over; and the path that is handed back with the
\* node, which a stream keeps and a new file is made at, is the node's own.
PathsResolve ==
    \A p \in Paths \cup {<<"dev", "stdin">>, <<"dev", "stderr">>, <<"proc", "self", "fd">>} :
      LET found == lookupPath(fs, p, Follow)
      IN  /\ found.node = Resolved(Root, p, 0)
          /\ found.err = "ok" => found.path = getPath(fs, found.node)

\* The nodes that names lead to from the root.
RECURSIVE Below(_)
Below(d) ==
    {d} \cup (IF IsDir(fs, d)
              THEN UNION {Below(fs.nodes[d].contents[n]) : n \in DOMAIN fs.nodes[d].contents}
              ELSE {})

\* What a call has made or moved is what its path leads to from then on, even if
\* the path was of a link to a file that did not exist yet; such a link is no
\* reason for open to say that the name is taken.  (A directory that was moved
\* beneath itself has left the tree.)
MadeIsFound ==
    /\ last.op \in {"open", "mkdir"} /\ last.err = "ok" =>
         lookupPath(fs, last.path, Follow).node = last.node
    /\ last.op = "rename" /\ last.err = "ok" /\ last.node \in Below(Root) =>
         lookupPath(fs, last.path, NoFollow).node = last.node
    /\ last.op = "open" => last.err # "EEXIST"

\* No directory is lost with what is in it, by a removal or by a move to a place
\* beneath itself, as long as no link of the program's makes the text of a path
\* say another place than the one it leads to.
NothingIsLost ==
    (\A i \in DOMAIN fs.nodes : IsLink(fs, i) =>
       fs.nodes[i].name \in {"stdin", "stdout", "stderr"})
    => \A d \in DOMAIN fs.nodes : IsDir(fs, d) /\ fs.nodes[d].contents # << >>
                               => d \in Below(Root)
=============================================================================
