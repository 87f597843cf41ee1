----------------------------- MODULE Workspace -----------------------------
(***************************************************************************)
(* The project directory the server works in (workspace.cpp).  A file tree  *)
(* is a function from the paths that exist to their nodes; a path is the    *)
(* sequence of its names, <<>> is the root, and a path that begins with     *)
(* ".." is outside.  The text of a file is a sequence of lines.  What a      *)
(* client sends is the sequence of the segments between its slashes.        *)
(* A link may dangle: what it leads to need not exist, and may be created   *)
(* through it.  One that the file system cannot look through (resolve() then *)
(* takes the path as it is written, workspace.cpp 156) is, for every        *)
(* operation, one that leads to nothing in no directory.                    *)
(***************************************************************************)
EXTENDS Integers, Sequences, FiniteSets, SequencesExt

CONSTANTS
    Controls,     \* segments that hold a control character
    Drives,       \* segments that begin with a drive letter and a colon
    Devices,      \* names Windows reserves for devices, with any extension
    Binary,       \* lines that hold a NUL byte
    SkipDirs,     \* k_skip_dirs: never walked into
    MaxRead       \* k_max_read_bytes, in lines

ASSUME MaxReadAssumption == MaxRead \in Nat \ {0}

Dir == [kind |-> "dir"]
File(text) == [kind |-> "file", text |-> text]
Link(path) == [kind |-> "link", to |-> path]

Exists(tree, path) == path \in DOMAIN tree
IsFile(tree, path) == Exists(tree, path) /\ tree[path].kind = "file"
IsDir(tree, path) == Exists(tree, path) /\ tree[path].kind = "dir"
IsLink(tree, path) == Exists(tree, path) /\ tree[path].kind = "link"
Inside(path) == path = <<>> \/ Head(path) # ".."
Parent(path) == Front(path)
Ancestors(path) == {SubSeq(path, 1, i) : i \in 0 .. Len(path) - 1}
Below(path, tree) == {p \in DOMAIN tree : IsPrefix(path, p)}

-----------------------------------------------------------------------------
(* resolve()                                                                *)

\* The links of a tree and where they lead; those that lead to something.
Links(tree) == [p \in {q \in DOMAIN tree : tree[q].kind = "link"} |-> tree[p].to]
LiveLinks(tree) == Restrict(Links(tree), {p \in DOMAIN Links(tree) : Exists(tree, tree[p].to)})
Led(links, path) == IF path \in DOMAIN links THEN links[path] ELSE path

\* The walk over the segments and weakly_canonical: a segment that says nothing
\* is passed over, and a link to something that exists is followed; from the first
\* name that leads to nothing, a dangling link too, the path stays as it is written.
Canonical(links, rel) ==
    LET at[i \in 0 .. Len(rel)] ==
            IF i = 0 THEN <<>>
            ELSE IF rel[i] \in {"", "."} THEN at[i - 1]
            ELSE Led(links, Append(at[i - 1], rel[i]))
    IN at[Len(rel)]

Absolute(rel) == Len(rel) > 1 /\ Head(rel) = ""
Refusable(name) == name = ".." \/ name \in Devices
Malformed(rel) ==
    \/ \E i \in DOMAIN rel : rel[i] \in Controls
    \/ Absolute(rel)
    \/ rel # <<>> /\ Head(rel) \in Drives
    \/ \E i \in DOMAIN rel : Refusable(rel[i])

NoPath == <<"..", "refused">>

Target(tree, rel) == Canonical(LiveLinks(tree), rel)

\* Mutated: containment is checked on the path as it is written.
ResolveUnchecked(tree, rel) ==
    IF Malformed(rel) THEN NoPath ELSE Target(tree, rel)

Resolve(tree, rel) ==
    LET path == Target(tree, rel)
    IN IF Malformed(rel) \/ ~Inside(path) THEN NoPath ELSE path

\* What every tree is: a root, and directories above everything inside.
IsTree(tree) ==
    /\ DOMAIN tree \subseteq Seq(STRING) /\ IsDir(tree, <<>>)
    /\ \A p \in DOMAIN tree :
          /\ tree[p].kind \in {"dir", "file", "link"}
          /\ Inside(p) => \A q \in Ancestors(p) : IsDir(tree, q)

-----------------------------------------------------------------------------
(* list() and list_recursive().  relative() canonicalises what it is given. *)

Follow(tree, path) == Led(LiveLinks(tree), path)

List(tree, path) ==
    {Follow(tree, p) : p \in {q \in DOMAIN tree : q # <<>> /\ Inside(q) /\ Parent(q) = path}}

\* The walk enters neither a skipped directory nor a link to a directory.
Walked(tree, path) ==
    \A i \in 1 .. Len(path) - 1 :
        path[i] \notin SkipDirs /\ IsDir(tree, SubSeq(path, 1, i))

ListRecursive(tree) ==
    {Follow(tree, p) : p \in {q \in DOMAIN tree :
        Inside(q) /\ q # <<>> /\ ~IsDir(tree, Follow(tree, q)) /\ Walked(tree, q)}}

-----------------------------------------------------------------------------
(* read() and what edit() does to the text.                                 *)

Readable(tree, path) ==
    /\ IsFile(tree, path)
    /\ \A i \in DOMAIN tree[path].text : tree[path].text[i] \notin Binary

Head2M(text) == IF Len(text) > MaxRead THEN SubSeq(text, 1, MaxRead) ELSE text
ReadText(tree, path) == Head2M(tree[path].text)
Truncated(tree, path) == Len(tree[path].text) > MaxRead

Edit(find, replace, all) == [find |-> find, replace |-> replace, all |-> all]

Matches(text, find) == {i \in DOMAIN text : text[i] = find}

Replaced(text, edit) ==
    LET upto[i \in 0 .. Len(text)] ==
            IF i = 0 THEN <<>>
            ELSE upto[i - 1] \o (IF text[i] = edit.find THEN edit.replace ELSE <<text[i]>>)
    IN upto[Len(text)]

\* A single edit must match, and exactly once unless it asks for all.
Applies(text, edit) ==
    /\ Matches(text, edit.find) # {}
    /\ edit.all \/ Cardinality(Matches(text, edit.find)) = 1

\* One edit after the other on a copy; the first that fails undoes them all.
EditText(text, edits) ==
    LET after[i \in 0 .. Len(edits)] ==
            IF i = 0 THEN [ok |-> TRUE, text |-> text]
            ELSE IF after[i - 1].ok /\ Applies(after[i - 1].text, edits[i])
            THEN [ok |-> TRUE, text |-> Replaced(after[i - 1].text, edits[i])]
            ELSE [ok |-> FALSE, text |-> after[i - 1].text]
    IN after[Len(edits)]

\* Mutated: what was applied before an edit failed is written.
EditableInPart(tree, path, edits) == Readable(tree, path) /\ ~Truncated(tree, path)

Editable(tree, path, edits) ==
    /\ Readable(tree, path) /\ ~Truncated(tree, path)
    /\ EditText(ReadText(tree, path), edits).ok

-----------------------------------------------------------------------------
(* write(), rename(), remove() and mkdir().                                 *)

\* create_directories fails where a file is in the way.
CanMakeDirs(tree, path) ==
    \A p \in Ancestors(path) \cup {path} : Exists(tree, p) => IsDir(tree, p)

WithDirs(tree, path) ==
    [p \in DOMAIN tree \cup Ancestors(path) \cup {path} |->
        IF p \in DOMAIN tree THEN tree[p] ELSE Dir]

\* Opening follows a link, also one that leads to nothing, and creates no directory
\* for what it leads to.
Landing(tree, path) == IF IsLink(tree, path) THEN tree[path].to ELSE path

CanWrite(tree, path) ==
    /\ path # <<>> /\ path # NoPath
    /\ CanMakeDirs(tree, Parent(path))
    /\ ~IsDir(tree, Landing(tree, path))
    /\ IsLink(tree, path) => IsDir(tree, Parent(Landing(tree, path)))

\* Opening with trunc: the parents exist and the file is empty.
Opened(tree, path) ==
    LET t == WithDirs(tree, Parent(path))
        p == Landing(tree, path)
    IN [q \in DOMAIN t \cup {p} |-> IF q = p THEN File(<<>>) ELSE t[q]]

\* Written at offset 0: what a longer file holds further on stays.
Stored(tree, path, text) ==
    LET old == tree[path].text
        new == IF old = <<>> THEN text ELSE text \o SubSeq(old, Len(text) + 1, Len(old))
    IN [p \in DOMAIN tree |-> IF p = path THEN File(new) ELSE tree[p]]

\* exists() follows a link; a path that was just resolved and is a link leads to
\* nothing.
Found(tree, path) == Exists(tree, path) /\ ~IsLink(tree, path)

CanRename(tree, from, to) ==
    /\ from # NoPath /\ to # NoPath
    /\ Found(tree, from) /\ ~Found(tree, to)

\* Nothing can go below itself, and no directory can take the place of a link, as a
\* file does; the parents are made all the same.
RenameFails(tree, from, to) ==
    \/ ~CanMakeDirs(tree, Parent(to))
    \/ IsPrefix(from, to)
    \/ IsLink(tree, to) /\ IsDir(tree, from)

\* Where a path below one directory comes to lie below another.
Rebased(path, from, to) == to \o SubSeq(path, Len(from) + 1, Len(path))

Moved(tree, from, to) ==
    LET moved == Below(from, tree)
        t == WithDirs(tree, Parent(to))
    IN [p \in (DOMAIN t \ moved) \cup {Rebased(q, from, to) : q \in moved} |->
          IF IsPrefix(to, p) THEN tree[Rebased(p, to, from)] ELSE t[p]]

Renamed(tree, from, to) ==
    IF ~RenameFails(tree, from, to) THEN Moved(tree, from, to)
    ELSE IF CanMakeDirs(tree, Parent(to)) THEN WithDirs(tree, Parent(to))
    ELSE tree

CanRemove(tree, path) == path \notin {<<>>, NoPath} /\ Found(tree, path)

Removed(tree, path) == [p \in DOMAIN tree \ Below(path, tree) |-> tree[p]]

CanMkdir(tree, path) == path # NoPath /\ CanMakeDirs(tree, path)
=============================================================================
