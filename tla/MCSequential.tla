---------------------------- MODULE MCSequential ----------------------------
(***************************************************************************)
(* The parts that one thread uses at a time: the linked lists, the ring,   *)
(* the functions of Strings and Net on every small argument, one state     *)
(* each, every short session of Serialize, every small tree of Filesystem, *)
(* the plug-in registry and the HTTP client.  A behaviour takes the steps  *)
(* of one of them; the variables of the others keep their first values.    *)
(***************************************************************************)
EXTENDS LinkedList, Strings, Net, PlugFactory, HttpClient, Serialize, AnnularCache

CONSTANTS n1, n2, n3, n4, v1, v2,
          A, B,        \* two characters without a meaning
          Names, Hidden, Depth, Texts, Colon

VARIABLES part, tree

MCOffers == [first |-> {"p", "q"}, second |-> {"p"}, third |-> {"q", "r"}]

FS == INSTANCE Filesystem

MCCharacters == {A, B, CR, LF, NUL}

MCKeys == {<<A>>, <<A, A>>, <<A, B>>, <<LF>>, <<CR, A>>}

MCCode == [c \in MCCharacters |->
             CASE c = A -> 0 [] c = B -> 254 [] c = CR -> 13 [] c = LF -> 10 [] c = NUL -> 16]

MCItems == {[type |-> "bool", value |-> 1], [type |-> "int", value |-> -1],
            [type |-> "int", value |-> 5], [type |-> "uint32", value |-> 9],
            [type |-> "uint64", value |-> 63],
            [type |-> "string", value |-> <<>>], [type |-> "string", value |-> <<3, 1>>]}

MCNames == {"a", ".b"}

MCHidden == {".b"}

MCTexts == {<<A>>}

MCWidth == [bool |-> 1, int |-> 2, uint32 |-> 2, uint64 |-> 3]

Parts == {"list", "text", "address", "serialize", "files", "ring", "plugs", "http"}

MCInit ==
  /\ part \in Parts
  /\ IF part = "list" THEN Init ELSE Init /\ kind = "queue"
  /\ SerialInit /\ NetInit /\ TextInit /\ FS!Init /\ PlugInit /\ HttpInit
  /\ IF part = "ring" THEN RingInit ELSE RingInit /\ size = 1 /\ cache[0] = 0

\* The parts that a behaviour does not explore.
Rest ==
  /\ UNCHANGED part
  /\ IF part = "list" THEN TRUE ELSE UNCHANGED vars
  /\ IF part = "text" THEN TRUE ELSE UNCHANGED text
  /\ IF part = "address" THEN TRUE ELSE UNCHANGED address
  /\ IF part = "serialize" THEN TRUE ELSE UNCHANGED serialize
  /\ IF part = "files" THEN TRUE ELSE UNCHANGED tree
  /\ IF part = "ring" THEN TRUE ELSE UNCHANGED ring
  /\ IF part = "plugs" THEN TRUE ELSE UNCHANGED plugs
  /\ IF part = "http" THEN TRUE ELSE UNCHANGED http

MCNext ==
  \/ part = "list" /\ Next /\ Rest
  \/ part = "text" /\ Typed /\ Rest
  \/ part = "address" /\ Choose /\ Rest
  \/ part = "serialize" /\ SerialNext /\ Rest
  \/ part = "files" /\ FS!Next /\ Rest
  \/ part = "ring" /\ RingNext /\ Rest
  \/ part = "plugs" /\ PlugNext /\ Rest
  \/ part = "http" /\ HttpNext /\ Rest

MCSpec == MCInit /\ [][MCNext]_<<part, vars, text, address, serialize, tree, ring, plugs, http>>

\* The first place of a line that holds a colon
ColonAt(line) == Min({i \in DOMAIN line : line[i] = Colon})

\* What a file gives back.  Writing the lines read gives the text up to its last line
\* end, what follows it is not read; lines written are the lines read; and the value of
\* a key is in the first line that begins with the key, the unfinished one included.
FilesKeepText ==
  LET lines == FS!ReadFile(text, TRUE)
      back == FS!WriteFile(lines)
      all == Append(lines, Sub(text, Len(back) + 1, Len(text)))
      keyed == {n \in DOMAIN all : Colon \in Range(all[n])}
      Key(n) == Sub(all[n], 1, ColonAt(all[n]) - 1)
      value == FS!FileContent(text)
  IN  /\ IsPrefix(back, text) /\ LF \notin Range(all[Len(all)])
      /\ FS!ReadFile(text, FALSE) = SelectSeq(lines, LAMBDA line : line # <<>>)
      /\ FS!ReadFile(FS!WriteFile(SplitLines(text, FALSE)), TRUE) = SplitLines(text, FALSE)
      /\ DOMAIN value = {Key(n) : n \in keyed}
      /\ \A n \in keyed :
           (\A m \in keyed : m < n => Key(m) # Key(n)) => all[n] = Key(n) \o <<Colon>> \o value[Key(n)]

Above(path) == {SubSeq(path, 1, n) : n \in 1..Len(path)}

\* Same(t, u): what both trees hold is alike in them.
Same(t, u) == \A p \in DOMAIN t \cap DOMAIN u : t[p] = u[p]

\* What keeps path from being removed: a name below it that begins with '.', which
\* the loop passes over, a directory that cannot be listed, an entry of one that
\* lets none go.
Stuck(path) ==
  {p \in DOMAIN tree \ {<<>>} :
     /\ FS!Below(path, p)
     /\ \/ p # path /\ p[Len(p)] \in Hidden
        \/ tree[p].kind = "unlisted"
        \/ ~FS!Writable(tree, p)}

\* In every tree and in whatever order a directory is read, Remove says
\* that it removed path if and only if all of path and nothing else is gone, which is
\* when nothing was stuck; else what is stuck stays with the directories above it.
\* CreateDirectories leaves, if it can make the first prefix that is missing, any number
\* of them from there on and else none, changes nothing besides and says that it did only
\* if all are there; and Remove of the first it made undoes it, unless one below is hidden.
TreeKept ==
  \A path \in FS!Paths :
    /\ \A done \in FS!Remove(tree, path) :
         LET left == DOMAIN done.tree
         IN  /\ left \subseteq DOMAIN tree /\ Same(done.tree, tree)
             /\ \A p \in DOMAIN tree \ left : FS!Below(path, p)
             /\ \A p \in left \ {<<>>} : FS!Parent(p) \in left
             /\ done.status <=> path \in DOMAIN tree \ left
             /\ done.status <=> path \in DOMAIN tree /\ Stuck(path) = {}
             /\ Stuck(path) \subseteq left
    /\ LET made == FS!CreateDirectories(tree, path)
           missing == Above(path) \ DOMAIN tree
           reach == IF \E p \in missing : FS!Writable(tree, p) THEN Len(path) ELSE 0
       IN  /\ {DOMAIN done.tree : done \in made} =
                {DOMAIN tree \union {p \in missing : Len(p) <= n} : n \in 0..reach}
           /\ \A done \in made :
                LET new == DOMAIN done.tree \ DOMAIN tree
                IN  /\ done.status <=> path \in DOMAIN done.tree
                    /\ Same(done.tree, tree)
                    /\ \A first \in {p \in new : FS!Parent(p) \in DOMAIN tree} :
                         LET undone == FS!Remove(done.tree, first)
                         IN  IF \E p \in new \ {first} : p[Len(p)] \in Hidden
                             THEN \A after \in undone : ~after.status
                             ELSE undone = {FS!Did(tree, TRUE)}

\* FilesAgree: files give back the text that was written, and Remove and CreateDirectories
\* do in every tree what they report, wherever they stop.
FilesAgree == (part = "text" => FilesKeepText) /\ (part = "files" => TreeKept)
=============================================================================
