----------------------------- MODULE Filesystem -----------------------------
(***************************************************************************)
(* utilities/filesystem.cpp.  A path is a sequence of names; the tree maps *)
(* the paths that exist, the working directory <<>> first, to what they    *)
(* are.  Every function returns the tree it leaves and its result; Remove, *)
(* whose order is the one of readdir, and the functions that make          *)
(* directories, where mkdir may fail at any time, return a set of them.    *)
(***************************************************************************)
EXTENDS Integers, Sequences, TLC

LOCAL S == INSTANCE SequencesExt

CONSTANTS Names, Hidden,   \* the names, and those that begin with '.'
          Depth,           \* bound on the length of a path
          Texts,           \* what is stored in a file
          LF, Colon        \* '\n' and ':'

VARIABLE tree

Paths == UNION {[1..n -> Names] : n \in 1..Depth}

Made(kind, text) == [kind |-> kind, content |-> text]

Did(t, status) == [tree |-> t, status |-> status]

Exists(t, path) == path \in DOMAIN t

\* A directory is "plain", "readonly" (nothing in it can be made or removed) or
\* "unlisted" (opendir fails).
IsDirectory(t, path) == Exists(t, path) /\ t[path].kind # "file"

Parent(path) == SubSeq(path, 1, Len(path) - 1)

Below(path, p) == Len(path) <= Len(p) /\ SubSeq(p, 1, Len(path)) = path

Children(t, path) == {p \in DOMAIN t : Len(p) = Len(path) + 1 /\ Below(path, p)}

\* The directory of path lets its entries come and go.
Writable(t, path) == IsDirectory(t, Parent(path)) /\ t[Parent(path)].kind # "readonly"

Without(t, path) == [p \in {q \in DOMAIN t : ~Below(path, q)} |-> t[p]]

\* std::remove
Erase(t, path) ==
  IF Exists(t, path) /\ Writable(t, path) /\ Children(t, path) = {}
  THEN Did(Without(t, path), TRUE) ELSE Did(t, FALSE)

RECURSIVE Remove(_, _), RemoveEach(_, _)

\* Mutant: the entries of a directory go, the directory stays.
RemoveInside(t, path) ==
  IF ~IsDirectory(t, path) THEN {Erase(t, path)}
  ELSE IF t[path].kind = "unlisted" THEN {Did(t, FALSE)}
  ELSE RemoveEach(t, {p \in Children(t, path) : p[Len(p)] \notin Hidden})

\* Remove: a directory loses the entries that do not begin with '.', then goes.
Remove(t, path) ==
  IF ~IsDirectory(t, path) THEN {Erase(t, path)}
  ELSE IF t[path].kind = "unlisted" THEN {Did(t, FALSE)}
  ELSE {IF done.status THEN Erase(done.tree, path) ELSE done :
          done \in RemoveEach(t, {p \in Children(t, path) : p[Len(p)] \notin Hidden})}

\* The loop of Remove: in any order, up to the first failure.
RemoveEach(t, entries) ==
  IF entries = {} THEN {Did(t, TRUE)}
  ELSE UNION {UNION {IF done.status THEN RemoveEach(done.tree, entries \ {p}) ELSE {done} :
                       done \in Remove(t, p)} : p \in entries}

\* CreateDirectory: what already has the name counts as made.  mkdir fails when it is not
\* allowed to, and for reasons the tree does not tell: a name too long, a disk that is full.
CreateDirectory(t, path) ==
  {Did(t, Exists(t, path))} \union
    IF ~Exists(t, path) /\ Writable(t, path) THEN {Did(t @@ (path :> Made("plain", <<>>)), TRUE)} ELSE {}

\* CreateDirectories: every prefix of path, up to the first that fails; what was made before
\* that stays.
CreateDirectories(t, path) ==
  S!FoldLeft(LAMBDA all, n :
               UNION {IF done.status THEN CreateDirectory(done.tree, SubSeq(path, 1, n)) ELSE {done} : done \in all},
             {Did(t, TRUE)}, [n \in DOMAIN path |-> n])

\* StoreFile: the old content of the file is lost.
StoreFile(t, path, text) ==
  IF IF Exists(t, path) THEN ~IsDirectory(t, path) ELSE Writable(t, path)
  THEN Did((path :> Made("file", text)) @@ t, TRUE) ELSE Did(t, FALSE)

CreateFile(t, path) == StoreFile(t, path, <<>>)

\* Content of what is not a directory; nothing if the file cannot be opened.
Content(t, path) == IF Exists(t, path) THEN t[path].content ELSE <<>>

\* std::rename may put src in the place of dst, which it replaces.
Replaceable(t, src, dst) ==
  IF IsDirectory(t, src)
  THEN ~Exists(t, dst) \/ (IsDirectory(t, dst) /\ Children(t, dst) = {})
  ELSE ~IsDirectory(t, dst)

Rename(t, src, dst) ==
  IF src = dst THEN Did(t, Exists(t, src))
  ELSE IF /\ Exists(t, src) /\ Writable(t, src) /\ Writable(t, dst)
          /\ ~Below(src, dst) /\ Replaceable(t, src, dst)
          /\ t[src].kind = "readonly" => Parent(src) = Parent(dst)
  THEN LET rest == Without(Without(t, src), dst)
           moved == {dst \o SubSeq(p, Len(src) + 1, Len(p)) : p \in {q \in DOMAIN t : Below(src, q)}}
       IN  Did([p \in DOMAIN rest \union moved |->
                  IF p \in moved THEN t[src \o SubSeq(p, Len(dst) + 1, Len(p))] ELSE t[p]], TRUE)
  ELSE Did(t, FALSE)

-----------------------------------------------------------------------------
\* The lines of a file, those that a line end closes and what is left after them.
Closed(text) ==
  LET ends == <<0>> \o S!SetToSortSeq({i \in DOMAIN text : text[i] = LF}, <)
  IN  [n \in 1..(Len(ends) - 1) |-> SubSeq(text, ends[n] + 1, ends[n + 1] - 1)]

Rest(text) == SubSeq(text, S!Max({0} \union {i \in DOMAIN text : text[i] = LF}) + 1, Len(text))

\* ReadFile drops what no line end closes: getline leaves the stream not good.
ReadFile(text, keepEmpty) == SelectSeq(Closed(text), LAMBDA str : keepEmpty \/ str # <<>>)

\* WriteFile
WriteFile(lines) == S!FlattenSeq([n \in DOMAIN lines |-> Append(lines[n], LF)])

\* FileContent: by the text before the first colon what follows it; the first line
\* of a key counts, the last line may be without an end.
FileContent(text) ==
  LET lines == IF Rest(text) = <<>> THEN Closed(text) ELSE Append(Closed(text), Rest(text))
      find(str) == S!Min({i \in DOMAIN str : str[i] = Colon})
      pairs == [n \in DOMAIN lines |->
                  IF \E i \in DOMAIN lines[n] : lines[n][i] = Colon
                  THEN SubSeq(lines[n], 1, find(lines[n]) - 1)
                         :> SubSeq(lines[n], find(lines[n]) + 1, Len(lines[n]))
                  ELSE <<>>]
  IN  S!FoldLeft(LAMBDA value, pair : value @@ pair, <<>>, pairs)
-----------------------------------------------------------------------------
Bare == <<>> :> Made("plain", <<>>)

Init == tree = Bare

\* Another program changes what may be done with a directory.
Protect(path) ==
  /\ IsDirectory(tree, path)
  /\ \E kind \in {"plain", "readonly", "unlisted"} :
       tree' = [tree EXCEPT ![path].kind = kind]

Call(path) ==
  \/ \E done \in Remove(tree, path) : tree' = done.tree
  \/ \E done \in CreateDirectory(tree, path) : tree' = done.tree
  \/ \E done \in CreateDirectories(tree, path) : tree' = done.tree
  \/ \E text \in Texts : tree' = StoreFile(tree, path, text).tree
  \/ tree' = CreateFile(tree, path).tree
  \/ \E dst \in Paths :
       /\ \A p \in Paths : Len(p) > Depth - Len(dst) => path \o p \notin DOMAIN tree
       /\ tree' = Rename(tree, path, dst).tree

Next == \E path \in Paths : Call(path) \/ Protect(path)
=============================================================================
