----------------------------- MODULE VfsProofs -----------------------------
(***************************************************************************)
(* Proofs about the ramfs, its open files, mounts, namespaces and dentries *)
(* (Vfs.tla), for every size of the tables, set of names and set of paths: *)
(* one lemma for each call, then the theorems.                             *)
(***************************************************************************)
EXTENDS VfsTreeProofs

(* Steps *)

\* What MountKept says of a step.
KeptStep ==
    \A h \in (files \cap files') \cup (names \cap names') :
        [mounts'[h.mount] EXCEPT !.refs = 0] = [mounts[h.mount] EXCEPT !.refs = 0]

\* A step that leaves the mounts alone keeps what the invariant says of them.
LEMMA NamesStay ==
    ASSUME VfsInv, UNCHANGED mountVars
    PROVE  NamesInv' /\ KeptStep /\ MountInv(mounts', namespaces') /\ mounted' \in BOOLEAN
  <1>1. mounts' = mounts /\ namespaces' = namespaces /\ dentries' = dentries /\ mounted' = mounted
        /\ names' = names
    BY Zenon DEF mountVars
  <1>2. NamesInv'
    BY Zenon, <1>1 DEF VfsInv, NamesInv
  <1>3. KeptStep
    BY Zenon, <1>1 DEF KeptStep
  <1> QED
    BY Zenon, <1>1, <1>2, <1>3 DEF VfsInv

\* A step of the tree under which open files stay regular files.
LEMMA TreeStep ==
    ASSUME VfsInv, TreeInv(inodes'), KindsOK(inodes'),
           \A f \in files : inodes'[f.inode].used /\ inodes'[f.inode].kind = "regular",
           UNCHANGED <<handles, openCount, files, mountVars>>
    PROVE  VfsInv' /\ KeptStep
  <1>1. /\ handles' = handles /\ openCount' = openCount /\ files' = files /\ mounts' = mounts
        /\ mounted' = mounted /\ UNCHANGED mountVars
    BY Zenon DEF mountVars
  <1>2. NamesInv' /\ KeptStep /\ MountInv(mounts', namespaces') /\ mounted' \in BOOLEAN
    BY Zenon, <1>1, NamesStay
  <1>3. ASSUME NEW f \in files PROVE FileOK(f, handles', inodes', mounts')
    <2>1. FileOK(f, handles, inodes, mounts)
      BY Zenon DEF VfsInv, FilesInv
    <2> QED
      BY Zenon, <1>1, <2>1 DEF FileOK
  <1>4. FilesInv'
    <2>1. /\ \A f, g \in files : f.slot = g.slot => f = g
          /\ IsFiniteSet(files) /\ IsFiniteSet(DOMAIN handles)
          /\ openCount = Cardinality(files) /\ openCount = Cardinality(DOMAIN handles)
          /\ ~mounted => files = {}
      BY Zenon DEF VfsInv, FilesInv
    <2> QED
      BY Zenon, <1>1, <1>3, <2>1 DEF FilesInv
  <1> QED
    BY Zenon, <1>2, <1>4 DEF VfsInv

\* What an open file relies on.
LEMMA OpenFile ==
    ASSUME VfsInv, NEW f \in files
    PROVE  /\ f.inode \in Inodes /\ inodes[f.inode].used /\ inodes[f.inode].kind = "regular"
           /\ HasOpenHandle(f.inode)
           /\ f.mount \in Mounts /\ mounts[f.mount].used
           /\ \E s \in DOMAIN handles : handles[s].mount = f.mount
  <1>1. FileOK(f, handles, inodes, mounts)
    BY Zenon DEF VfsInv, FilesInv
  <1>2. handles[f.slot] = Place(f.mount, f.inode) /\ f.slot \in DOMAIN handles
    BY Zenon, <1>1 DEF FileOK
  <1>3. handles[f.slot].mount = f.mount /\ handles[f.slot].inode = f.inode
    BY <1>2 DEF Place
  <1> QED
    BY Zenon, <1>1, <1>2, <1>3 DEF FileOK, HasOpenHandle

\* create_node_at makes a tree with one more inode.
LEMMA CreatedIs ==
    ASSUME TreeInv(inodes), NEW dir \in InodesUsed, inodes[dir].kind = "dir", NEW name,
           CanCreate(dir, name), NEW kind
    PROVE  CreatedOK(Created(dir, name, kind), inodes, Min(FreeInodes(inodes)), kind)
  <1>a. PICK i : i = Min(FreeInodes(inodes))
    BY Zenon
  <1>b. PICK u : u = Created(dir, name, kind)
    BY Zenon
  <1>1. i \in Inodes /\ ~inodes[i].used
    <2>1. PICK S : S = FreeInodes(inodes)
      BY Zenon
    <2>2. S \in SUBSET Nat /\ S # {}
      BY Zenon, <2>1, SizesOK DEF FreeInodes, CanCreate
    <2>3. Min(S) \in S
      BY Zenon, <2>2, MinIn
    <2>4. i \in S
      BY Zenon, <1>a, <2>1, <2>3
    <2> QED
      BY Zenon, <2>1, <2>4 DEF FreeInodes
  <1>2. PICK v : v = [inodes EXCEPT ![i] = NewInode(kind, dir)]
    BY Zenon
  <1>3. ButFor(v, inodes, i, NewInode(kind, dir))
    <2>1. inodes = [j \in Inodes |-> inodes[j]]
      BY Zenon DEF TreeInv, TreeFun
    <2>2. ButFor([inodes EXCEPT ![i] = NewInode(kind, dir)], inodes, i, NewInode(kind, dir))
      BY Zenon, <1>1, <2>1, ButForExcept
    <2> QED
      BY Zenon, <1>2, <2>2
  <1>4. u = AddChild(v, dir, name, i)
    BY Zenon, <1>a, <1>b, <1>2 DEF Created
  <1>5. dir \in Inodes /\ inodes[dir].used
    BY Zenon DEF InodesUsed
  <1>6. name \notin DOMAIN inodes[dir].children
    BY Zenon DEF CanCreate
  <1>7. TreeFun(v)
    <2>1. IsNode(NewInode(kind, dir))
      <3>1. NewInode(kind, dir) = Node(TRUE, kind, dir, {"r", "w"}, 0, [n \in {} |-> 0])
        BY Zenon, NewInodeIs
      <3>2. TRUE \in BOOLEAN
        BY Zenon
      <3> QED
        BY Zenon, <3>1, <3>2 DEF IsNode
    <2>2. TreeFun(inodes)
      BY Zenon DEF TreeInv
    <2> QED
      BY Zenon, <1>1, <1>3, <2>1, <2>2, ButForKeeps
  <1>8. name \notin DOMAIN v[dir].children
    BY Zenon, <1>1, <1>3, <1>5, <1>6 DEF ButFor
  <1>9. Added(AddChild(v, dir, name, i), v, dir, name, i)
    BY Zenon, <1>5, <1>7, <1>8, AddChildIs
  <1>10. Added(u, v, dir, name, i)
    BY Zenon, <1>4, <1>9
  <1>11. CreatedOK(u, inodes, i, kind)
    BY Zenon, <1>1, <1>3, <1>5, <1>6, <1>10, CreateKeeps
  <1> QED
    BY Zenon, <1>a, <1>b, <1>11

\* mkdir
LEMMA MkdirStep ==
    ASSUME VfsInv, NEW path \in Paths, Mkdir(path)
    PROVE  VfsInv' /\ KeptStep
  <1>1. PICK dir : /\ dir = ParentOf(path) /\ dir.err = "Ok" /\ CanCreate(dir.inode, NameOf(path))
                   /\ inodes' = Created(dir.inode, NameOf(path), "dir")
    BY Zenon DEF Mkdir
  <1>2. TreeInv(inodes) /\ MountInv(mounts, namespaces)
    BY Zenon DEF VfsInv
  <1>3. dir.inode \in InodesUsed /\ inodes[dir.inode].kind = "dir"
    BY Zenon, <1>1, <1>2, ParentOK
  <1>4. PICK i : i = Min(FreeInodes(inodes))
    BY Zenon
  <1>5. CreatedOK(inodes', inodes, i, "dir")
    <2>1. CreatedOK(Created(dir.inode, NameOf(path), "dir"), inodes, Min(FreeInodes(inodes)), "dir")
      BY Zenon, <1>1, <1>2, <1>3, CreatedIs
    <2> QED
      BY Zenon, <1>1, <1>4, <2>1
  <1>6. \A f \in files : inodes'[f.inode].used /\ inodes'[f.inode].kind = "regular"
    BY Zenon, <1>5, OpenFile DEF CreatedOK, TreeTo
  <1>8. KindsOK(inodes')
    BY Zenon, <1>5, KindsTo DEF CreatedOK, VfsInv
  <1>7. UNCHANGED <<handles, openCount, files, mountVars>>
    BY Zenon DEF Mkdir
  <1> QED
    BY Zenon, <1>5, <1>6, <1>7, <1>8, TreeStep DEF CreatedOK, TreeTo

\* chmod
LEMMA ChmodStep ==
    ASSUME VfsInv, NEW path \in Paths, NEW mode, Chmod(path, mode)
    PROVE  VfsInv' /\ KeptStep
  <1>1. PICK i : /\ Resolve(0, path).err = "Ok" /\ i = Resolve(0, path).inode
                 /\ inodes' = [inodes EXCEPT ![i].mode = mode]
    BY Zenon DEF Chmod
  <1>2. TreeInv(inodes) /\ MountInv(mounts, namespaces)
    BY Zenon DEF VfsInv
  <1>3. i \in Inodes
    BY Zenon, <1>1, <1>2, ResolveOK DEF InodesUsed
  <1>4. PICK r : r = Node(inodes[i].used, inodes[i].kind, inodes[i].parent, mode, inodes[i].size,
                          inodes[i].children)
    BY Zenon
  <1>5. ButFor(inodes', inodes, i, r)
    <2>1. [inodes[i] EXCEPT !.mode = mode] = r
      BY Zenon, <1>2, <1>3, <1>4, NodeExcept DEF TreeInv, TreeFun
    <2>2. inodes' = [inodes EXCEPT ![i] = [inodes[i] EXCEPT !.mode = mode]]
      BY Zenon, <1>1
    <2>3. inodes' = [inodes EXCEPT ![i] = r]
      BY Zenon, <2>1, <2>2
    <2>4. inodes = [j \in Inodes |-> inodes[j]]
      BY Zenon, <1>2 DEF TreeInv, TreeFun
    <2>5. ButFor([inodes EXCEPT ![i] = r], inodes, i, r)
      BY Zenon, <1>3, <2>4, ButForExcept
    <2> QED
      BY Zenon, <2>3, <2>5
  <1>6. PICK size \in 0 .. FileMax : size = inodes[i].size
    BY Zenon, <1>2, <1>3 DEF TreeInv
  <1>7. TreeTo(inodes', inodes, MaxInodes)
    <2>1. ButFor(inodes', inodes, i, Node(inodes[i].used, inodes[i].kind, inodes[i].parent, mode, size,
                                          inodes[i].children))
      BY Zenon, <1>4, <1>5, <1>6
    <2> QED
      BY Zenon, <1>2, <1>3, <2>1, PlainKeeps
  <1>8. \A f \in files : inodes'[f.inode].used /\ inodes'[f.inode].kind = "regular"
    BY Zenon, <1>7, OpenFile, SizesOK DEF TreeTo
  <1>9. UNCHANGED <<handles, openCount, files, mountVars>>
    BY Zenon DEF Chmod
  <1>10. KindsOK(inodes')
    BY Zenon, <1>7, KindsTo, SizesOK DEF VfsInv
  <1> QED
    BY Zenon, <1>7, <1>8, <1>9, <1>10, TreeStep DEF TreeTo

\* Freeing an inode that has no entries and is not open keeps the invariant.
LEMMA FreedStep ==
    ASSUME VfsInv, NEW dir, NEW name, Entry(inodes, dir, name, Child(dir, name)),
           \A n, x : ~Entry(inodes, Child(dir, name), n, x), Freed(dir, name),
           \A f \in files : f.inode # Child(dir, name),
           UNCHANGED <<handles, openCount, files, mountVars>>
    PROVE  VfsInv' /\ KeptStep
  <1>1. TreeInv(inodes)
    BY Zenon DEF VfsInv
  <1>2. PICK c : c = Child(dir, name)
    BY Zenon
  <1>3. PICK v : v = RemoveChild(inodes, dir, name)
    BY Zenon
  <1>4. dir \in Inodes /\ c \in Inodes
    <2>1. dir \in Inodes
      BY Zenon DEF Entry
    <2>2. c \in Inodes
      BY Zenon, <1>1, <1>2 DEF TreeInv
    <2> QED
      BY Zenon, <2>1, <2>2
  <1>5. Taken(v, inodes, dir, name)
    BY Zenon, <1>1, <1>3, <1>4, RemoveChildIs DEF TreeInv
  <1>6. ButFor(inodes', v, c, FreeInode)
    <2>1. inodes' = [v EXCEPT ![c] = FreeInode]
      BY Zenon, <1>2, <1>3 DEF Freed
    <2>2. v = [j \in Inodes |-> v[j]]
      BY Zenon, <1>5 DEF Taken, TreeFun
    <2>3. ButFor([v EXCEPT ![c] = FreeInode], v, c, FreeInode)
      BY Zenon, <1>4, <2>2, ButForExcept
    <2> QED
      BY Zenon, <2>1, <2>3
  <1>7. Entry(inodes, dir, name, c) /\ \A n, x : ~Entry(inodes, c, n, x)
    BY Zenon, <1>2
  <1>8. TreeTo(inodes', inodes, c)
    BY Zenon, <1>1, <1>5, <1>6, <1>7, FreeKeeps
  <1>9. \A f \in files : inodes'[f.inode].used /\ inodes'[f.inode].kind = "regular"
    BY Zenon, <1>2, <1>8, OpenFile DEF TreeTo
  <1>10. KindsOK(inodes')
    <2>1. FreeInode.kind = "regular"
      BY DEF FreeInode
    <2>2. inodes'[c].kind = "regular"
      BY Zenon, <1>6, <2>1 DEF ButFor
    <2> QED
      BY Zenon, <1>8, <2>2, KindsTo DEF VfsInv
  <1> QED
    BY Zenon, <1>8, <1>9, <1>10, TreeStep DEF TreeTo

\* What unlink and remove_dir find: the directory of the path has the entry.
LEMMA EntryOf ==
    ASSUME VfsInv, NEW path \in Paths, NEW dir, dir = ParentOf(path), dir.err = "Ok",
           NameOf(path) \in DOMAIN inodes[dir.inode].children
    PROVE  Entry(inodes, dir.inode, NameOf(path), Child(dir.inode, NameOf(path)))
  <1>1. TreeInv(inodes) /\ MountInv(mounts, namespaces)
    BY Zenon DEF VfsInv
  <1>2. dir.inode \in Inodes
    BY Zenon, <1>1, ParentOK DEF InodesUsed
  <1> QED
    BY Zenon, <1>2 DEF Entry, Child

\* unlink: a file that is open is refused.
LEMMA UnlinkStep ==
    ASSUME VfsInv, NEW path \in Paths, Unlink(path)
    PROVE  VfsInv' /\ KeptStep
  <1>1. PICK dir : /\ dir = ParentOf(path) /\ dir.err = "Ok"
                   /\ NameOf(path) \in DOMAIN inodes[dir.inode].children
                   /\ inodes[Child(dir.inode, NameOf(path))].kind # "dir"
                   /\ ~HasOpenHandle(Child(dir.inode, NameOf(path)))
                   /\ Freed(dir.inode, NameOf(path))
    BY Zenon DEF Unlink
  <1>2. PICK d, n : d = dir.inode /\ n = NameOf(path)
    BY Zenon
  <1>3. Entry(inodes, d, n, Child(d, n))
    BY Zenon, <1>1, <1>2, EntryOf
  <1>4. \A m, x : ~Entry(inodes, Child(d, n), m, x)
    BY Zenon, <1>1, <1>2 DEF VfsInv, TreeInv
  <1>5. \A f \in files : f.inode # Child(d, n)
    BY Zenon, <1>1, <1>2, OpenFile
  <1>6. UNCHANGED <<handles, openCount, files, mountVars>>
    BY Zenon DEF Unlink
  <1>7. Freed(d, n)
    BY Zenon, <1>1, <1>2
  <1> QED
    BY Zenon, <1>3, <1>4, <1>5, <1>6, <1>7, FreedStep

\* remove_dir: a directory with entries is refused.
LEMMA RemoveDirStep ==
    ASSUME VfsInv, NEW path \in Paths, RemoveDir(path)
    PROVE  VfsInv' /\ KeptStep
  <1>1. PICK dir : /\ dir = ParentOf(path) /\ dir.err = "Ok"
                   /\ NameOf(path) \in DOMAIN inodes[dir.inode].children
                   /\ inodes[Child(dir.inode, NameOf(path))].kind = "dir"
                   /\ DOMAIN inodes[Child(dir.inode, NameOf(path))].children = {}
                   /\ Freed(dir.inode, NameOf(path))
    BY Zenon DEF RemoveDir
  <1>2. PICK d, n : d = dir.inode /\ n = NameOf(path)
    BY Zenon
  <1>3. Entry(inodes, d, n, Child(d, n))
    BY Zenon, <1>1, <1>2, EntryOf
  <1>4. \A m, x : ~Entry(inodes, Child(d, n), m, x)
    BY Zenon, <1>1, <1>2 DEF Entry
  <1>5. \A f \in files : f.inode # Child(d, n)
    <2>1. "dir" # "regular"
      OBVIOUS
    <2> QED
      BY Zenon, <1>1, <1>2, <2>1, OpenFile
  <1>6. UNCHANGED <<handles, openCount, files, mountVars>>
    BY Zenon DEF RemoveDir
  <1>7. Freed(d, n)
    BY Zenon, <1>1, <1>2
  <1> QED
    BY Zenon, <1>3, <1>4, <1>5, <1>6, <1>7, FreedStep

\* rename moves one entry: what was a tree is one, as nothing moves below itself.
LEMMA MovedIs ==
    ASSUME TreeInv(inodes), NEW old, NEW oldName, Entry(inodes, old, oldName, Child(old, oldName)),
           NEW new \in InodesUsed, inodes[new].kind = "dir", NEW newName,
           newName \notin DOMAIN inodes[new].children, MayMove(Child(old, oldName), new)
    PROVE  TreeTo(Moved(old, oldName, new, newName), inodes, MaxInodes)
  <1>1. PICK i : i = Child(old, oldName)
    BY Zenon
  <1>2. PICK v : v = RemoveChild(inodes, old, oldName)
    BY Zenon
  <1>3. PICK w : w = AddChild(v, new, newName, i)
    BY Zenon
  <1>4. PICK u : u = Moved(old, oldName, new, newName)
    BY Zenon
  <1>5. Entry(inodes, old, oldName, i) /\ i \in Inodes /\ old \in Inodes
    <2>1. old \in Inodes
      BY Zenon DEF Entry
    <2>2. i \in Inodes
      BY Zenon, <1>1 DEF TreeInv
    <2> QED
      BY Zenon, <1>1, <2>1, <2>2
  <1>6. new \in Inodes /\ inodes[new].used
    BY Zenon DEF InodesUsed
  <1>7. Taken(v, inodes, old, oldName)
    BY Zenon, <1>2, <1>5, RemoveChildIs DEF TreeInv
  <1>8. newName \notin DOMAIN v[new].children
    <2>1. \A c : ~Entry(inodes, new, newName, c)
      BY Zenon DEF Entry
    <2>2. \A c : ~Entry(v, new, newName, c)
      BY Zenon, <1>7, <2>1 DEF Taken
    <2> QED
      BY Zenon, <1>6, <2>2 DEF Entry
  <1>9. Added(w, v, new, newName, i)
    <2>1. TreeFun(v)
      BY Zenon, <1>7 DEF Taken
    <2>2. Added(AddChild(v, new, newName, i), v, new, newName, i)
      BY Zenon, <1>6, <1>8, <2>1, AddChildIs
    <2> QED
      BY Zenon, <1>3, <2>2
  <1>10. PICK r : r = Node(w[i].used, w[i].kind, new, w[i].mode, w[i].size, w[i].children)
    BY Zenon
  <1>11. ButFor(u, w, i, r)
    <2>1. w = [j \in Inodes |-> w[j]] /\ IsNode(w[i])
      BY Zenon, <1>5, <1>9 DEF Added, TreeFun
    <2>2. [w[i] EXCEPT !.parent = new] = r
      BY Zenon, <1>10, <2>1, NodeExcept
    <2>3. u = [w EXCEPT ![i] = [w[i] EXCEPT !.parent = new]]
      BY Zenon, <1>1, <1>2, <1>3, <1>4 DEF Moved
    <2>4. u = [w EXCEPT ![i] = r]
      BY Zenon, <2>2, <2>3
    <2>5. ButFor([w EXCEPT ![i] = r], w, i, r)
      BY Zenon, <1>5, <2>1, ButForExcept
    <2> QED
      BY Zenon, <2>4, <2>5
  <1>12. ButFor(u, w, i, Node(w[i].used, w[i].kind, new, w[i].mode, w[i].size, w[i].children))
    BY Zenon, <1>10, <1>11
  <1>13. Escapes(inodes, i, new)
    BY Zenon, <1>1, <1>5, <1>6, MayMoveEscapes
  <1>14. TreeTo(u, inodes, MaxInodes)
    BY Zenon, <1>5, <1>6, <1>7, <1>9, <1>12, <1>13, MoveKeeps
  <1> QED
    BY Zenon, <1>4, <1>14

\* rename
LEMMA RenameStep ==
    ASSUME VfsInv, NEW oldPath \in Paths, NEW newPath \in Paths, Rename(oldPath, newPath)
    PROVE  VfsInv' /\ KeptStep
  <1>1. PICK old, new :
           /\ old = ParentOf(oldPath) /\ new = ParentOf(newPath)
           /\ old.err = "Ok" /\ NameOf(oldPath) \in DOMAIN inodes[old.inode].children
           /\ new.err = "Ok" /\ NameOf(newPath) \notin DOMAIN inodes[new.inode].children
           /\ MayMove(Child(old.inode, NameOf(oldPath)), new.inode)
           /\ inodes' = Moved(old.inode, NameOf(oldPath), new.inode, NameOf(newPath))
    BY Zenon DEF Rename
  <1>2. TreeInv(inodes) /\ MountInv(mounts, namespaces)
    BY Zenon DEF VfsInv
  <1>3. PICK d, n, e, m : d = old.inode /\ n = NameOf(oldPath) /\ e = new.inode /\ m = NameOf(newPath)
    BY Zenon
  <1>4. Entry(inodes, d, n, Child(d, n))
    BY Zenon, <1>1, <1>3, EntryOf
  <1>5. e \in InodesUsed /\ inodes[e].kind = "dir"
    BY Zenon, <1>1, <1>2, <1>3, ParentOK
  <1>6. m \notin DOMAIN inodes[e].children /\ MayMove(Child(d, n), e) /\ inodes' = Moved(d, n, e, m)
    BY Zenon, <1>1, <1>3
  <1>7. TreeTo(Moved(d, n, e, m), inodes, MaxInodes)
    BY Zenon, <1>2, <1>4, <1>5, <1>6, MovedIs
  <1>8. TreeTo(inodes', inodes, MaxInodes)
    BY Zenon, <1>6, <1>7
  <1>9. \A f \in files : inodes'[f.inode].used /\ inodes'[f.inode].kind = "regular"
    BY Zenon, <1>8, OpenFile, SizesOK DEF TreeTo
  <1>10. UNCHANGED <<handles, openCount, files, mountVars>>
    BY Zenon DEF Rename
  <1>11. KindsOK(inodes')
    BY Zenon, <1>8, KindsTo, SizesOK DEF VfsInv
  <1> QED
    BY Zenon, <1>8, <1>9, <1>10, <1>11, TreeStep DEF TreeTo

-----------------------------------------------------------------------------
(* Open files *)

\* A finite set and one more.
LEMMA Grown ==
    ASSUME NEW S, IsFiniteSet(S), NEW x, x \notin S
    PROVE  IsFiniteSet(S \cup {x}) /\ Cardinality(S \cup {x}) = Cardinality(S) + 1
  BY Zenon, FS_AddElement

\* A finite set and one less.
LEMMA Shrunk ==
    ASSUME NEW S, IsFiniteSet(S), NEW x \in S
    PROVE  /\ IsFiniteSet(S \ {x}) /\ Cardinality(S \ {x}) = Cardinality(S) - 1
           /\ Cardinality(S) \in Nat \ {0}
  <1>1. IsFiniteSet(S \ {x}) /\ Cardinality(S \ {x}) = Cardinality(S) - 1
    BY Zenon, FS_RemoveElement
  <1>2. Cardinality(S) \in Nat /\ Cardinality(S \ {x}) \in Nat
    BY Zenon, <1>1, FS_CardinalityType
  <1> QED
    BY <1>1, <1>2

\* A step on inodes and files that leaves the mounts alone.
LEMMA FilesNext ==
    ASSUME VfsInv, TreeInv(inodes'), KindsOK(inodes'), FilesInv', UNCHANGED mountVars
    PROVE  VfsInv' /\ KeptStep
  <1>1. NamesInv' /\ KeptStep /\ MountInv(mounts', namespaces') /\ mounted' \in BOOLEAN
    BY Zenon, NamesStay
  <1> QED
    BY Zenon, <1>1 DEF VfsInv

\* The end of open.
LEMMA OpenedStep ==
    ASSUME VfsInv, mounted, TreeInv(inodes'), KindsOK(inodes'),
           \A f \in files : inodes'[f.inode].used /\ inodes'[f.inode].kind = "regular",
           NEW m \in Mounts, mounts[m].used,
           NEW i \in Inodes, inodes'[i].used, inodes'[i].kind = "regular",
           NEW opt, opt.write => ~mounts[m].ro,
           FreeHandles # {}, Opened(m, i, opt), UNCHANGED mountVars
    PROVE  VfsInv' /\ KeptStep
  <1>1. PICK slot : slot = Min(FreeHandles)
    BY Zenon
  <1>2. slot \notin DOMAIN handles
    <2>1. FreeHandles \in SUBSET Nat
      BY SizesOK DEF FreeHandles
    <2>2. Min(FreeHandles) \in FreeHandles
      BY Zenon, <2>1, MinIn
    <2> QED
      BY Zenon, <1>1, <2>2 DEF FreeHandles
  <1>3. PICK g : g = FileRec(slot, m, i, 0, opt.read, opt.write)
    BY Zenon
  <1>4. /\ handles' = [s \in DOMAIN handles \cup {slot} |-> IF s = slot THEN Place(m, i) ELSE handles[s]]
        /\ openCount' = openCount + 1 /\ files' = files \cup {g}
    BY Zenon, <1>1, <1>3 DEF Opened, Place, FileRec
  <1>5. /\ DOMAIN handles' = DOMAIN handles \cup {slot} /\ handles'[slot] = Place(m, i)
        /\ \A s \in DOMAIN handles : handles'[s] = handles[s]
    BY Zenon, <1>2, <1>4
  <1>6. mounts' = mounts /\ mounted' = mounted
    BY Zenon DEF mountVars
  <1>7. /\ g.slot = slot /\ g.mount = m /\ g.inode = i /\ g.offset = 0 /\ g.writable = opt.write
        /\ IsFile(g)
    <2>1. /\ g.slot = slot /\ g.mount = m /\ g.inode = i /\ g.offset = 0 /\ g.writable = opt.write
      BY <1>3 DEF FileRec
    <2>2. IsFile(g)
      BY Zenon, <1>3 DEF IsFile
    <2> QED
      BY Zenon, <2>1, <2>2
  <1>8. FileOK(g, handles', inodes', mounts')
    <2>1. 0 \in 0 .. FileMax
      BY SizesOK
    <2> QED
      BY Zenon, <1>5, <1>6, <1>7, <2>1 DEF FileOK
  <1>9. ASSUME NEW f \in files
        PROVE  FileOK(f, handles', inodes', mounts') /\ f.slot # slot
    <2>1. FileOK(f, handles, inodes, mounts)
      BY Zenon DEF VfsInv, FilesInv
    <2> QED
      BY Zenon, <1>2, <1>5, <1>6, <2>1 DEF FileOK
  <1>10. g \notin files
    BY Zenon, <1>7, <1>9
  <1>11. /\ \A f, h \in files : f.slot = h.slot => f = h
         /\ IsFiniteSet(files) /\ IsFiniteSet(DOMAIN handles)
         /\ openCount = Cardinality(files) /\ openCount = Cardinality(DOMAIN handles)
    BY Zenon DEF VfsInv, FilesInv
  <1>12. \A f, h \in files' : f.slot = h.slot => f = h
    BY Zenon, <1>4, <1>7, <1>9, <1>11
  <1>13. /\ IsFiniteSet(files') /\ Cardinality(files') = openCount'
         /\ IsFiniteSet(DOMAIN handles') /\ Cardinality(DOMAIN handles') = openCount'
    <2>1. IsFiniteSet(files \cup {g}) /\ Cardinality(files \cup {g}) = openCount + 1
      BY Zenon, <1>10, <1>11, Grown
    <2>2. /\ IsFiniteSet(DOMAIN handles \cup {slot})
          /\ Cardinality(DOMAIN handles \cup {slot}) = openCount + 1
      BY Zenon, <1>2, <1>11, Grown
    <2> QED
      BY Zenon, <1>4, <1>5, <2>1, <2>2
  <1>14. \A f \in files' : FileOK(f, handles', inodes', mounts')
    BY Zenon, <1>4, <1>8, <1>9
  <1>15. FilesInv'
    BY Zenon, <1>6, <1>12, <1>13, <1>14 DEF FilesInv
  <1> QED
    BY Zenon, <1>15, FilesNext

\* close: the slot is freed and the count goes down together.
LEMMA CloseStep ==
    ASSUME VfsInv, NEW f, Close(f)
    PROVE  VfsInv' /\ KeptStep
  <1>1. f \in files /\ files' = files \ {f} /\ inodes' = inodes /\ UNCHANGED mountVars
    BY Zenon DEF Close
  <1>2. Valid(f)
    BY Zenon, <1>1, InvHandles DEF HandlesValid
  <1>3. /\ handles' = [s \in DOMAIN handles \ {f.slot} |-> handles[s]]
        /\ openCount' = IF openCount = 0 THEN 0 ELSE openCount - 1
    BY Zenon, <1>2 DEF Close
  <1>4. /\ DOMAIN handles' = DOMAIN handles \ {f.slot}
        /\ \A s \in DOMAIN handles : s # f.slot => s \in DOMAIN handles' /\ handles'[s] = handles[s]
    BY Zenon, <1>3
  <1>5. mounts' = mounts /\ mounted' = mounted
    BY Zenon, <1>1 DEF mountVars
  <1>6. /\ \A g, h \in files : g.slot = h.slot => g = h
        /\ IsFiniteSet(files) /\ IsFiniteSet(DOMAIN handles)
        /\ openCount = Cardinality(files) /\ openCount = Cardinality(DOMAIN handles)
        /\ ~mounted => files = {}
        /\ \A g \in files : FileOK(g, handles, inodes, mounts)
    BY Zenon DEF VfsInv, FilesInv
  <1>7. \A g \in files' : FileOK(g, handles', inodes', mounts')
    <2> TAKE g \in files'
    <2>1. FileOK(g, handles, inodes, mounts) /\ g.slot # f.slot
      BY Zenon, <1>1, <1>6
    <2> QED
      BY Zenon, <1>1, <1>4, <1>5, <2>1 DEF FileOK
  <1>8. /\ IsFiniteSet(files') /\ Cardinality(files') = openCount - 1
        /\ openCount \in Nat \ {0}
    BY Zenon, <1>1, <1>6, Shrunk
  <1>9. IsFiniteSet(DOMAIN handles') /\ Cardinality(DOMAIN handles') = openCount - 1
    <2>1. f.slot \in DOMAIN handles
      BY Zenon, <1>2 DEF Valid
    <2> QED
      BY Zenon, <1>4, <1>6, <2>1, Shrunk
  <1>10. openCount' = openCount - 1
    BY Zenon, <1>3, <1>8
  <1>11. FilesInv'
    BY Zenon, <1>1, <1>5, <1>6, <1>7, <1>8, <1>9, <1>10 DEF FilesInv
  <1>12. TreeInv(inodes') /\ KindsOK(inodes')
    BY Zenon, <1>1 DEF VfsInv
  <1> QED
    BY Zenon, <1>1, <1>11, <1>12, FilesNext

\* read_handle, write_handle and seek move the offset of a handle.
LEMMA MovesStep ==
    ASSUME VfsInv, TreeInv(inodes'), KindsOK(inodes'),
           \A f \in files : inodes'[f.inode].used /\ inodes'[f.inode].kind = "regular",
           NEW f \in files, NEW off \in 0 .. FileMax, Moves(f, off),
           UNCHANGED <<handles, openCount, mountVars>>
    PROVE  VfsInv' /\ KeptStep
  <1>1. /\ handles' = handles /\ openCount' = openCount /\ mounts' = mounts /\ mounted' = mounted
        /\ UNCHANGED mountVars
    BY Zenon DEF mountVars
  <1>2. PICK g : g = [f EXCEPT !.offset = off]
    BY Zenon
  <1>3. files' = (files \ {f}) \cup {g}
    BY Zenon, <1>2 DEF Moves
  <1>4. /\ \A h, k \in files : h.slot = k.slot => h = k
        /\ IsFiniteSet(files) /\ IsFiniteSet(DOMAIN handles)
        /\ openCount = Cardinality(files) /\ openCount = Cardinality(DOMAIN handles)
        /\ ~mounted => files = {}
        /\ \A h \in files : FileOK(h, handles, inodes, mounts)
    BY Zenon DEF VfsInv, FilesInv
  <1>5. /\ IsFile(g) /\ g.slot = f.slot /\ g.mount = f.mount /\ g.inode = f.inode /\ g.offset = off
        /\ g.writable = f.writable
    <2>1. IsFile(f)
      BY Zenon, <1>4 DEF FileOK
    <2>2. PICK slot, mount, inode, offset, readable, writable :
            f = FileRec(slot, mount, inode, offset, readable, writable)
      BY Zenon, <2>1 DEF IsFile
    <2>3. g = FileRec(slot, mount, inode, off, readable, writable)
      BY <1>2, <2>2 DEF FileRec
    <2>4. IsFile(g)
      BY Zenon, <2>3 DEF IsFile
    <2>5. /\ g.slot = f.slot /\ g.mount = f.mount /\ g.inode = f.inode /\ g.offset = off
          /\ g.writable = f.writable
      BY <2>2, <2>3 DEF FileRec
    <2> QED
      BY Zenon, <2>4, <2>5
  <1>6. ASSUME NEW h \in files PROVE FileOK(h, handles', inodes', mounts')
    <2>1. FileOK(h, handles, inodes, mounts)
      BY Zenon, <1>4
    <2> QED
      BY Zenon, <1>1, <2>1 DEF FileOK
  <1>7. FileOK(g, handles', inodes', mounts')
    <2>1. FileOK(f, handles', inodes', mounts')
      BY Zenon, <1>6
    <2> QED
      BY Zenon, <1>5, <2>1 DEF FileOK
  <1>8. \A h \in files' : FileOK(h, handles', inodes', mounts')
    BY Zenon, <1>3, <1>6, <1>7
  <1>9. \A h \in files \ {f} : h.slot # g.slot
    BY Zenon, <1>4, <1>5
  <1>10. \A h, k \in files' : h.slot = k.slot => h = k
    BY Zenon, <1>3, <1>4, <1>9
  <1>11. IsFiniteSet(files') /\ Cardinality(files') = openCount
    <2>1. PICK S : S = files \ {f}
      BY Zenon
    <2>2. IsFiniteSet(S) /\ Cardinality(S) = openCount - 1 /\ openCount \in Nat \ {0}
      BY Zenon, <1>4, <2>1, Shrunk
    <2>3. IsFiniteSet(S \cup {g}) /\ Cardinality(S \cup {g}) = Cardinality(S) + 1
      BY Zenon, <1>9, <2>1, <2>2, Grown
    <2>4. (openCount - 1) + 1 = openCount
      BY <2>2
    <2> QED
      BY Zenon, <1>3, <2>1, <2>2, <2>3, <2>4
  <1>12. ~mounted => files' = {}
    BY Zenon, <1>4
  <1>13. FilesInv'
    BY Zenon, <1>1, <1>4, <1>8, <1>10, <1>11, <1>12 DEF FilesInv
  <1> QED
    BY Zenon, <1>1, <1>13, FilesNext

\* Offsets and sizes stay within a file.
LEMMA FileNumbers ==
    ASSUME VfsInv, NEW f \in files
    PROVE  f.offset \in 0 .. FileMax /\ inodes[f.inode].size \in 0 .. FileMax
  <1>1. FileOK(f, handles, inodes, mounts)
    BY Zenon DEF VfsInv, FilesInv
  <1> QED
    BY Zenon, <1>1 DEF VfsInv, TreeInv, FileOK

\* read_handle
LEMMA ReadHandleStep ==
    ASSUME VfsInv, NEW f, NEW n \in 1 .. FileMax, ReadHandle(f, n)
    PROVE  VfsInv' /\ KeptStep
  <1>1. /\ f \in files /\ Moves(f, f.offset + Min({Left(f), n})) /\ inodes' = inodes
        /\ UNCHANGED <<handles, openCount, mountVars>>
    BY Zenon DEF ReadHandle
  <1>2. f.offset \in 0 .. FileMax /\ inodes[f.inode].size \in 0 .. FileMax
    BY Zenon, <1>1, FileNumbers
  <1>3. PICK left : left = Left(f)
    BY Zenon
  <1>4. left \in Nat /\ f.offset + left \in 0 .. FileMax
    BY <1>2, <1>3, SizesOK DEF Left
  <1>5. PICK k : k = Min({left, n})
    BY Zenon
  <1>6. k \in Nat /\ k <= left
    <2>1. left <= n \/ n <= left
      BY <1>4
    <2>2. \E x \in {left, n} : \A y \in {left, n} : x <= y
      BY <1>4
    <2>3. k \in {left, n} /\ \A y \in {left, n} : k <= y
      BY Zenon, <1>5, <2>2 DEF Min
    <2> QED
      BY <1>4, <2>3
  <1>7. f.offset + k \in 0 .. FileMax
    BY <1>2, <1>4, <1>6, SizesOK
  <1>8. Moves(f, f.offset + k)
    BY Zenon, <1>1, <1>3, <1>5
  <1>9. TreeInv(inodes') /\ KindsOK(inodes')
    BY Zenon, <1>1 DEF VfsInv
  <1>10. \A g \in files : inodes'[g.inode].used /\ inodes'[g.inode].kind = "regular"
    BY Zenon, <1>1, OpenFile
  <1> QED
    BY Zenon, <1>1, <1>7, <1>8, <1>9, <1>10, MovesStep

\* seek_handle
LEMMA SeekStep ==
    ASSUME VfsInv, NEW f, NEW d, Seek(f, d)
    PROVE  VfsInv' /\ KeptStep
  <1>1. /\ f \in files /\ Moves(f, f.offset + d) /\ inodes' = inodes
        /\ f.offset + d \in 0 .. FileMax /\ UNCHANGED <<handles, openCount, mountVars>>
    BY Zenon DEF Seek, SeekTargets
  <1>2. TreeInv(inodes') /\ KindsOK(inodes')
    BY Zenon, <1>1 DEF VfsInv
  <1>3. \A g \in files : inodes'[g.inode].used /\ inodes'[g.inode].kind = "regular"
    BY Zenon, <1>1, OpenFile
  <1> QED
    BY Zenon, <1>1, <1>2, <1>3, MovesStep

\* write_handle
LEMMA WriteHandleStep ==
    ASSUME VfsInv, NEW f, NEW n \in 1 .. FileMax, WriteHandle(f, n)
    PROVE  VfsInv' /\ KeptStep
  <1>1. /\ f \in files /\ Moves(f, f.offset + n) /\ f.offset + n <= FileMax
        /\ inodes' = [inodes EXCEPT ![f.inode].size = Max({@, f.offset + n})]
        /\ UNCHANGED <<handles, openCount, mountVars>>
    BY Zenon DEF WriteHandle
  <1>2. f.offset \in 0 .. FileMax /\ inodes[f.inode].size \in 0 .. FileMax
    BY Zenon, <1>1, FileNumbers
  <1>3. f.offset + n \in 0 .. FileMax
    BY <1>1, <1>2, SizesOK
  <1>4. PICK i, old, end : i = f.inode /\ old = inodes[f.inode].size /\ end = f.offset + n
    BY Zenon
  <1>5. PICK size : size = Max({old, end})
    BY Zenon
  <1>6. size \in 0 .. FileMax
    <2>1. old \in 0 .. FileMax /\ end \in 0 .. FileMax
      BY Zenon, <1>2, <1>3, <1>4
    <2>2. \E x \in {old, end} : \A y \in {old, end} : x >= y
      BY <2>1
    <2>3. size \in {old, end}
      BY Zenon, <1>5, <2>2 DEF Max
    <2> QED
      BY Zenon, <2>1, <2>3
  <1>7. TreeInv(inodes) /\ i \in Inodes
    BY Zenon, <1>1, <1>4, OpenFile DEF VfsInv
  <1>8. PICK r : r = Node(inodes[i].used, inodes[i].kind, inodes[i].parent, inodes[i].mode, size,
                          inodes[i].children)
    BY Zenon
  <1>9. ButFor(inodes', inodes, i, r)
    <2>1. [inodes[i] EXCEPT !.size = size] = r
      BY Zenon, <1>7, <1>8, NodeExcept DEF TreeInv, TreeFun
    <2>2. inodes' = [inodes EXCEPT ![i] = [inodes[i] EXCEPT !.size = size]]
      BY Zenon, <1>1, <1>4, <1>5
    <2>3. inodes' = [inodes EXCEPT ![i] = r]
      BY Zenon, <2>1, <2>2
    <2>4. inodes = [j \in Inodes |-> inodes[j]]
      BY Zenon, <1>7 DEF TreeInv, TreeFun
    <2>5. ButFor([inodes EXCEPT ![i] = r], inodes, i, r)
      BY Zenon, <1>7, <2>4, ButForExcept
    <2> QED
      BY Zenon, <2>3, <2>5
  <1>10. PICK mode : mode = inodes[i].mode
    BY Zenon
  <1>11. TreeTo(inodes', inodes, MaxInodes)
    <2>1. ButFor(inodes', inodes, i, Node(inodes[i].used, inodes[i].kind, inodes[i].parent, mode, size,
                                          inodes[i].children))
      BY Zenon, <1>8, <1>9, <1>10
    <2> QED
      BY Zenon, <1>6, <1>7, <2>1, PlainKeeps
  <1>12. \A g \in files : inodes'[g.inode].used /\ inodes'[g.inode].kind = "regular"
    BY Zenon, <1>11, OpenFile, SizesOK DEF TreeTo
  <1>13. TreeInv(inodes') /\ KindsOK(inodes')
    <2>1. KindsOK(inodes')
      BY Zenon, <1>11, KindsTo, SizesOK DEF VfsInv
    <2> QED
      BY Zenon, <1>11, <2>1 DEF TreeTo
  <1> QED
    BY Zenon, <1>1, <1>3, <1>12, <1>13, MovesStep

\* open of a file that exists
LEMMA OpenExistingStep ==
    ASSUME VfsInv, NEW path \in Paths, NEW opt, OpenExisting(path, opt)
    PROVE  VfsInv' /\ KeptStep
  <1>1. PICK m, i : /\ m = Resolve(0, path).mount /\ i = Resolve(0, path).inode
                    /\ Resolve(0, path).err = "Ok" /\ MayOpen(Resolve(0, path), opt)
                    /\ FreeHandles # {} /\ Opened(m, i, opt)
    BY Zenon DEF OpenExisting
  <1>2. mounted /\ inodes' = inodes /\ UNCHANGED mountVars
    BY Zenon DEF OpenExisting
  <1>3. TreeInv(inodes) /\ MountInv(mounts, namespaces) /\ KindsOK(inodes)
    BY Zenon DEF VfsInv
  <1>4. m \in Mounts /\ mounts[m].used /\ i \in Inodes /\ inodes[i].used
    BY Zenon, <1>1, <1>3, ResolveOK DEF MountsOf, InodesUsed
  <1>5. inodes[i].kind = "regular" /\ (opt.write => ~mounts[m].ro)
    BY Zenon, <1>1, <1>3, <1>4 DEF MayOpen, KindsOK
  <1>6. TreeInv(inodes') /\ KindsOK(inodes') /\ inodes'[i].used /\ inodes'[i].kind = "regular"
    BY Zenon, <1>2, <1>3, <1>4, <1>5
  <1>7. \A f \in files : inodes'[f.inode].used /\ inodes'[f.inode].kind = "regular"
    BY Zenon, <1>2, OpenFile
  <1> QED
    BY Zenon, <1>1, <1>2, <1>4, <1>5, <1>6, <1>7, OpenedStep

\* open with create, of a file that does not exist
LEMMA OpenCreatingStep ==
    ASSUME VfsInv, NEW path \in Paths, NEW opt, OpenCreating(path, opt)
    PROVE  VfsInv' /\ KeptStep
  <1>1. PICK dir : /\ dir = ParentOf(path) /\ dir.err = "Ok" /\ ~mounts[dir.mount].ro
                   /\ CanCreate(dir.inode, NameOf(path))
                   /\ inodes' = Created(dir.inode, NameOf(path), "regular")
                   /\ IF FreeHandles # {} THEN Opened(dir.mount, Min(FreeInodes(inodes)), opt)
                      ELSE UNCHANGED <<handles, openCount, files>>
    BY Zenon DEF OpenCreating
  <1>2. mounted /\ UNCHANGED mountVars
    BY Zenon DEF OpenCreating
  <1>3. TreeInv(inodes) /\ MountInv(mounts, namespaces)
    BY Zenon DEF VfsInv
  <1>4. PICK m : m = dir.mount
    BY Zenon
  <1>5. /\ dir.inode \in InodesUsed /\ inodes[dir.inode].kind = "dir"
        /\ m \in Mounts /\ mounts[m].used /\ ~mounts[m].ro
    BY Zenon, <1>1, <1>3, <1>4, ParentOK DEF MountsOf
  <1>6. PICK i : i = Min(FreeInodes(inodes))
    BY Zenon
  <1>7. CreatedOK(inodes', inodes, i, "regular")
    <2>1. CreatedOK(Created(dir.inode, NameOf(path), "regular"), inodes, Min(FreeInodes(inodes)),
                    "regular")
      BY Zenon, <1>1, <1>3, <1>5, CreatedIs
    <2> QED
      BY Zenon, <1>1, <1>6, <2>1
  <1>8. \A f \in files : inodes'[f.inode].used /\ inodes'[f.inode].kind = "regular"
    BY Zenon, <1>7, OpenFile DEF CreatedOK, TreeTo
  <1>9. KindsOK(inodes')
    BY Zenon, <1>7, KindsTo DEF CreatedOK, VfsInv
  <1>10. TreeInv(inodes') /\ i \in Inodes /\ inodes'[i].used /\ inodes'[i].kind = "regular"
    BY Zenon, <1>7 DEF CreatedOK, TreeTo
  <1>11. CASE FreeHandles # {}
    <2>1. Opened(m, i, opt)
      BY Zenon, <1>1, <1>4, <1>6, <1>11
    <2> QED
      BY Zenon, <1>2, <1>5, <1>8, <1>9, <1>10, <1>11, <2>1, OpenedStep
  <1>12. CASE FreeHandles = {}
    <2>1. UNCHANGED <<handles, openCount, files, mountVars>>
      BY Zenon, <1>1, <1>2, <1>12
    <2> QED
      BY Zenon, <1>8, <1>9, <1>10, <2>1, TreeStep
  <1> QED
    BY Zenon, <1>11, <1>12

-----------------------------------------------------------------------------
(* Mounts and namespaces *)

\* Reading the fields of a mount.
LEMMA MountFields ==
    ASSUME NEW a, NEW b, NEW c, NEW d, NEW e, NEW f, NEW g, NEW h
    PROVE  /\ MountRec(a, b, c, d, e, f, g, h).used = a /\ MountRec(a, b, c, d, e, f, g, h).ns = b
           /\ MountRec(a, b, c, d, e, f, g, h).parent = c /\ MountRec(a, b, c, d, e, f, g, h).point = d
           /\ MountRec(a, b, c, d, e, f, g, h).root = e /\ MountRec(a, b, c, d, e, f, g, h).ro = f
           /\ MountRec(a, b, c, d, e, f, g, h).prop = g /\ MountRec(a, b, c, d, e, f, g, h).refs = h
  BY DEF MountRec

\* MountNode::EMPTY, and the root mount of a namespace.
LEMMA NewMounts ==
    /\ FreeMount.used = FALSE /\ FreeMount.refs = 0 /\ IsMount(FreeMount)
    /\ \A ns : /\ RootMount(ns).used /\ RootMount(ns).ns = ns /\ RootMount(ns).parent = NoParent
               /\ RootMount(ns).refs = 0 /\ IsMount(RootMount(ns))
  <1>1. FreeMount = MountRec(FALSE, 0, NoParent, 0, 0, FALSE, "private", 0)
    BY Zenon DEF FreeMount, MountRec
  <1>2. \A ns : RootMount(ns) = MountRec(TRUE, ns, NoParent, 0, 0, FALSE, "private", 0)
    BY Zenon DEF RootMount, MountRec
  <1>3. IsMount(FreeMount) /\ \A ns : IsMount(RootMount(ns))
    BY Zenon, <1>1, <1>2 DEF IsMount
  <1>4. FreeMount.used = FALSE /\ FreeMount.refs = 0
    BY <1>1 DEF MountRec
  <1>5. ASSUME NEW ns
        PROVE  /\ RootMount(ns).used /\ RootMount(ns).ns = ns /\ RootMount(ns).parent = NoParent
               /\ RootMount(ns).refs = 0
    BY DEF RootMount
  <1> QED
    BY Zenon, <1>3, <1>4, <1>5

\* u is t, but for mount id.
MountBut(u, t, id, r) ==
    MountFun(u) /\ u[id] = r /\ \A m \in Mounts : m # id => u[m] = t[m]

\* Writing one slot of the mount table.
LEMMA MountButExcept ==
    ASSUME NEW t, MountFun(t), NEW id \in Mounts, NEW r, IsMount(r)
    PROVE  MountBut([t EXCEPT ![id] = r], t, id, r)
  <1>1. PICK u : u = [t EXCEPT ![id] = r]
    BY Zenon
  <1>2. t = [m \in Mounts |-> t[m]]
    BY Zenon DEF MountFun
  <1>3. u = [m \in Mounts |-> IF m = id THEN r ELSE t[m]]
    BY <1>1, <1>2
  <1>4. u = [m \in Mounts |-> u[m]] /\ u[id] = r /\ \A m \in Mounts : m # id => u[m] = t[m]
    BY Zenon, <1>3
  <1>5. \A m \in Mounts : IsMount(u[m])
    BY Zenon, <1>4 DEF MountFun
  <1>6. MountBut(u, t, id, r)
    BY Zenon, <1>4, <1>5 DEF MountBut, MountFun
  <1> QED
    BY Zenon, <1>1, <1>6

\* A mount without references has no dentry.
LEMMA NoNames ==
    ASSUME VfsInv, NEW id \in Mounts, mounts[id].refs = 0
    PROVE  \A d \in names : d.mount # id
  <1>1. SUFFICES ASSUME NEW d \in names, d.mount = id PROVE FALSE
    BY Zenon
  <1>2. /\ NameOK(d, dentries, mounts) /\ IsFiniteSet(DOMAIN dentries)
        /\ Cardinality(At(dentries, id)) = 0
    BY Zenon DEF VfsInv, NamesInv
  <1>3. IsFiniteSet(At(dentries, id))
    <2>1. At(dentries, id) \in SUBSET DOMAIN dentries
      BY Zenon DEF At
    <2> QED
      BY Zenon, <1>2, <2>1, FS_Subset
  <1>4. At(dentries, id) = {}
    BY Zenon, <1>2, <1>3, FS_EmptySet
  <1>5. d.slot \in DOMAIN dentries /\ dentries[d.slot] = Place(d.mount, d.inode)
    BY Zenon, <1>2 DEF NameOK
  <1>6. dentries[d.slot].mount = id
    BY <1>1, <1>5 DEF Place
  <1> QED
    BY Zenon, <1>4, <1>5, <1>6 DEF At

\* Only a mount changes that no file and no dentry is under.
LEMMA MountStep ==
    ASSUME VfsInv, NEW id \in Mounts, mounts[id].refs = 0, \A f \in files : f.mount # id,
           NEW r, MountBut(mounts', mounts, id, r), r.refs = 0,
           MountInv(mounts', namespaces'), UNCHANGED <<fsVars, dentries, mounted, names>>
    PROVE  VfsInv' /\ KeptStep
  <1>1. /\ inodes' = inodes /\ handles' = handles /\ openCount' = openCount /\ files' = files
        /\ dentries' = dentries /\ mounted' = mounted /\ names' = names
    BY Zenon DEF fsVars
  <1>2. \A d \in names : d.mount # id
    BY Zenon, NoNames
  <1>3. /\ \A m \in Mounts : m # id => mounts'[m] = mounts[m]
        /\ mounts'[id].refs = 0
    BY Zenon DEF MountBut
  <1>4. \A f \in files : mounts'[f.mount] = mounts[f.mount]
    BY Zenon, <1>3, OpenFile
  <1>5. \A d \in names : NameOK(d, dentries, mounts) /\ mounts'[d.mount] = mounts[d.mount]
    <2> TAKE d \in names
    <2>1. NameOK(d, dentries, mounts)
      BY Zenon DEF VfsInv, NamesInv
    <2>2. d.mount \in Mounts
      BY Zenon, <2>1 DEF NameOK
    <2> QED
      BY Zenon, <1>2, <1>3, <2>1, <2>2
  <1>6. KeptStep
    BY Zenon, <1>4, <1>5 DEF KeptStep
  <1>7. FilesInv'
    <2>1. \A f \in files' : FileOK(f, handles', inodes', mounts')
      <3> SUFFICES ASSUME NEW f \in files PROVE FileOK(f, handles', inodes', mounts')
        BY Zenon, <1>1
      <3>1. FileOK(f, handles, inodes, mounts)
        BY Zenon DEF VfsInv, FilesInv
      <3> QED
        BY Zenon, <1>1, <1>4, <3>1 DEF FileOK
    <2>2. /\ \A f, g \in files : f.slot = g.slot => f = g
          /\ IsFiniteSet(files) /\ IsFiniteSet(DOMAIN handles)
          /\ openCount = Cardinality(files) /\ openCount = Cardinality(DOMAIN handles)
          /\ ~mounted => files = {}
      BY Zenon DEF VfsInv, FilesInv
    <2>3. /\ \A f, g \in files' : f.slot = g.slot => f = g
          /\ IsFiniteSet(files') /\ IsFiniteSet(DOMAIN handles')
          /\ openCount' = Cardinality(files') /\ openCount' = Cardinality(DOMAIN handles')
      BY Zenon, <1>1, <2>2
    <2>4. ~mounted' => files' = {}
      BY <1>1, <2>2
    <2> QED
      BY Zenon, <2>1, <2>3, <2>4 DEF FilesInv
  <1>8. NamesInv'
    <2>1. \A d \in names' : NameOK(d, dentries', mounts')
      BY Zenon, <1>1, <1>5 DEF NameOK
    <2>2. \A m \in Mounts : mounts'[m].refs = Cardinality(At(dentries', m))
      <3>1. \A m \in Mounts : mounts'[m].refs = mounts[m].refs
        BY Zenon, <1>3
      <3> QED
        BY Zenon, <1>1, <3>1 DEF VfsInv, NamesInv
    <2>3. /\ \A d, e \in names : d.slot = e.slot => d = e
          /\ IsFiniteSet(DOMAIN dentries) /\ (~mounted => names = {})
      BY Zenon DEF VfsInv, NamesInv
    <2>4. /\ \A d, e \in names' : d.slot = e.slot => d = e
          /\ IsFiniteSet(DOMAIN dentries')
      BY Zenon, <1>1, <2>3
    <2>5. ~mounted' => names' = {}
      BY <1>1, <2>3
    <2> QED
      BY Zenon, <2>1, <2>2, <2>4, <2>5 DEF NamesInv
  <1> QED
    BY Zenon, <1>1, <1>6, <1>7, <1>8 DEF VfsInv

\* The slot a new mount gets.
LEMMA FreeMountSlot ==
    ASSUME VfsInv, FreeMounts # {}
    PROVE  /\ Min(FreeMounts) \in Mounts /\ ~mounts[Min(FreeMounts)].used
           /\ mounts[Min(FreeMounts)].refs = 0
           /\ \A f \in files : f.mount # Min(FreeMounts)
  <1>1. PICK S : S = FreeMounts
    BY Zenon
  <1>2. S \in SUBSET Nat /\ S # {}
    BY Zenon, <1>1, SizesOK DEF FreeMounts
  <1>3. Min(S) \in S
    BY Zenon, <1>2, MinIn
  <1>4. PICK id : id = Min(FreeMounts)
    BY Zenon
  <1>5. id \in Mounts /\ ~mounts[id].used
    BY Zenon, <1>1, <1>3, <1>4 DEF FreeMounts
  <1>6. mounts[id].refs = 0
    BY Zenon, <1>5 DEF VfsInv, MountInv
  <1>7. \A f \in files : f.mount # id
    BY Zenon, <1>5, OpenFile
  <1> QED
    BY Zenon, <1>4, <1>5, <1>6, <1>7

\* What MountInv keeps when a free slot becomes mount r.
LEMMA MountAdded ==
    ASSUME NEW ms, NEW nss, MountInv(ms, nss), NEW id \in Mounts, ~ms[id].used,
           NEW r, NEW u, MountBut(u, ms, id, r), r.used,
           r.parent = NoParent \/ r.root = r.point,
           r.ns = 0 => r.parent \in Mounts /\ ms[r.parent].used /\ ms[r.parent].ns = 0
    PROVE  MountInv(u, nss)
  <1>1. MountFun(u) /\ u[id] = r /\ \A m \in Mounts : m # id => u[m] = ms[m]
    BY Zenon DEF MountBut
  <1>2. \A m \in Mounts : ms[m].used => m # id /\ u[m] = ms[m]
    BY Zenon, <1>1
  <1>3. ASSUME NEW m \in Mounts, u[m].used PROVE u[m].parent = NoParent \/ u[m].root = u[m].point
    <2>1. CASE m = id
      BY Zenon, <1>1, <2>1
    <2>2. CASE m # id
      <3>1. ms[m].used => ms[m].parent = NoParent \/ ms[m].root = ms[m].point
        BY Zenon DEF MountInv
      <3>2. u[m] = ms[m]
        BY Zenon, <1>1, <2>2
      <3> QED
        BY <1>3, <3>1, <3>2
    <2> QED
      BY Zenon, <2>1, <2>2
  <1>4. ASSUME NEW m \in Mounts, ~u[m].used PROVE u[m].refs = 0
    <2>1. CASE m = id
      BY Zenon, <1>1, <1>4, <2>1
    <2>2. CASE m # id
      <3>1. ~ms[m].used => ms[m].refs = 0
        BY Zenon DEF MountInv
      <3>2. u[m] = ms[m]
        BY Zenon, <1>1, <2>2
      <3> QED
        BY <1>4, <3>1, <3>2
    <2> QED
      BY Zenon, <2>1, <2>2
  <1>5. ASSUME NEW m \in Mounts, u[m].used, u[m].ns = 0, m # 0
        PROVE  u[m].parent \in Mounts /\ u[u[m].parent].used /\ u[u[m].parent].ns = 0
    <2>1. PICK p : p = u[m].parent
      BY Zenon
    <2>2. p \in Mounts /\ ms[p].used /\ ms[p].ns = 0
      <3>1. CASE m = id
        BY Zenon, <1>1, <1>5, <2>1, <3>1
      <3>2. CASE m # id
        BY Zenon, <1>1, <1>5, <2>1, <3>2 DEF MountInv
      <3> QED
        BY Zenon, <3>1, <3>2
    <2> QED
      BY Zenon, <1>2, <2>1, <2>2
  <1>6. \A n \in DOMAIN nss : nss[n] \in Mounts /\ u[nss[n]].used
                              /\ u[nss[n]].ns = n /\ u[nss[n]].parent = NoParent
    <2> TAKE n \in DOMAIN nss
    <2>1. PICK m : m = nss[n]
      BY Zenon
    <2>2. m \in Mounts /\ ms[m].used /\ ms[m].ns = n /\ ms[m].parent = NoParent
      BY Zenon, <2>1 DEF MountInv
    <2> QED
      BY Zenon, <1>2, <2>1, <2>2
  <1>7. /\ 0 \in DOMAIN nss /\ nss[0] = 0
        /\ nss = [n \in DOMAIN nss |-> nss[n]] /\ DOMAIN nss \subseteq Namespaces
    BY Zenon DEF MountInv
  <1> QED
    BY Zenon, <1>1, <1>3, <1>4, <1>5, <1>6, <1>7 DEF MountInv

\* Mount id is no root mount, and no mount of the root namespace hangs below it.
Loose(ms, nss, id) ==
    /\ \A n \in DOMAIN nss : nss[n] # id
    /\ \A m \in Mounts : ms[m].used /\ ms[m].ns = 0 => ms[m].parent # id

\* What it keeps when such a mount goes.
LEMMA MountTaken ==
    ASSUME NEW ms, NEW nss, MountInv(ms, nss), NEW id \in Mounts, Loose(ms, nss, id),
           NEW u, MountBut(u, ms, id, FreeMount)
    PROVE  MountInv(u, nss)
  <1>1. MountFun(u) /\ u[id] = FreeMount /\ \A m \in Mounts : m # id => u[m] = ms[m]
    BY Zenon DEF MountBut
  <1>2. \A m \in Mounts : u[m].used => m # id /\ u[m] = ms[m]
    BY Zenon, <1>1, NewMounts
  <1>3. \A m \in Mounts : u[m].used => u[m].parent = NoParent \/ u[m].root = u[m].point
    BY Zenon, <1>2 DEF MountInv
  <1>4. ASSUME NEW m \in Mounts, ~u[m].used PROVE u[m].refs = 0
    <2>1. CASE m = id
      BY Zenon, <1>1, <2>1, NewMounts
    <2>2. CASE m # id
      BY Zenon, <1>1, <1>4, <2>2 DEF MountInv
    <2> QED
      BY Zenon, <2>1, <2>2
  <1>5. ASSUME NEW m \in Mounts, u[m].used, u[m].ns = 0, m # 0
        PROVE  u[m].parent \in Mounts /\ u[u[m].parent].used /\ u[u[m].parent].ns = 0
    <2>1. PICK p : p = u[m].parent
      BY Zenon
    <2>2. u[m] = ms[m]
      BY Zenon, <1>2, <1>5
    <2>3. p \in Mounts /\ ms[p].used /\ ms[p].ns = 0 /\ p # id
      BY Zenon, <1>5, <2>1, <2>2 DEF MountInv, Loose
    <2> QED
      BY Zenon, <1>1, <2>1, <2>3
  <1>6. \A n \in DOMAIN nss : nss[n] \in Mounts /\ u[nss[n]].used
                              /\ u[nss[n]].ns = n /\ u[nss[n]].parent = NoParent
    <2> TAKE n \in DOMAIN nss
    <2>1. PICK m : m = nss[n]
      BY Zenon
    <2>2. m \in Mounts /\ ms[m].used /\ ms[m].ns = n /\ ms[m].parent = NoParent /\ m # id
      BY Zenon, <2>1 DEF MountInv, Loose
    <2> QED
      BY Zenon, <1>1, <2>1, <2>2
  <1>7. /\ 0 \in DOMAIN nss /\ nss[0] = 0
        /\ nss = [n \in DOMAIN nss |-> nss[n]] /\ DOMAIN nss \subseteq Namespaces
    BY Zenon DEF MountInv
  <1> QED
    BY Zenon, <1>1, <1>3, <1>4, <1>5, <1>6, <1>7 DEF MountInv

\* mount_in_namespace
LEMMA MountInNamespaceStep ==
    ASSUME VfsInv, NEW ns, NEW path \in Paths, NEW ro, NEW prop, MountInNamespace(ns, path, ro, prop)
    PROVE  VfsInv' /\ KeptStep
  <1>a. PICK p, i, id : p = Resolve(ns, path).mount /\ i = Resolve(ns, path).inode /\ id = Min(FreeMounts)
    BY Zenon
  <1>b. PICK r : r = MountRec(TRUE, ns, p, i, i, ro, prop, 0)
    BY Zenon
  <1>1. Resolve(ns, path).err = "Ok" /\ FreeMounts # {} /\ mounts' = [mounts EXCEPT ![id] = r]
    BY Zenon, <1>a, <1>b DEF MountInNamespace, MountRec
  <1>2. namespaces' = namespaces /\ UNCHANGED <<fsVars, dentries, mounted, names>>
    BY Zenon DEF MountInNamespace
  <1>3. TreeInv(inodes) /\ MountInv(mounts, namespaces)
    BY Zenon DEF VfsInv
  <1>4. p \in Mounts /\ mounts[p].used /\ mounts[p].ns = ns
    BY Zenon, <1>a, <1>1, <1>3, ResolveOK DEF MountsOf
  <1>5. id \in Mounts /\ ~mounts[id].used /\ mounts[id].refs = 0 /\ \A f \in files : f.mount # id
    BY Zenon, <1>a, <1>1, FreeMountSlot
  <1>6. r.used /\ r.ns = ns /\ r.parent = p /\ r.root = r.point /\ r.refs = 0
    BY <1>b DEF MountRec
  <1>7. MountBut(mounts', mounts, id, r)
    <2>1. IsMount(r)
      <3>1. TRUE \in BOOLEAN
        BY Zenon
      <3> QED
        BY Zenon, <1>b, <3>1 DEF IsMount
    <2>2. MountFun(mounts)
      BY Zenon, <1>3 DEF MountInv
    <2>3. MountBut([mounts EXCEPT ![id] = r], mounts, id, r)
      BY Zenon, <1>5, <2>1, <2>2, MountButExcept
    <2> QED
      BY Zenon, <1>1, <2>3
  <1>8. r.ns = 0 => r.parent \in Mounts /\ mounts[r.parent].used /\ mounts[r.parent].ns = 0
    BY Zenon, <1>4, <1>6
  <1>9. MountInv(mounts', namespaces)
    BY Zenon, <1>3, <1>5, <1>6, <1>7, <1>8, MountAdded
  <1>10. MountInv(mounts', namespaces')
    BY Zenon, <1>2, <1>9
  <1> QED
    BY Zenon, <1>2, <1>5, <1>6, <1>7, <1>10, MountStep

\* unmount_mount: a mount with handles, dentries or mounts below it is refused.
LEMMA UnmountMountStep ==
    ASSUME VfsInv, NEW id \in Mounts, UnmountMount(id)
    PROVE  VfsInv' /\ KeptStep
  <1>1. /\ mounts[id].used /\ namespaces[mounts[id].ns] # id /\ ~InUse(id)
        /\ mounts' = [mounts EXCEPT ![id] = FreeMount]
        /\ namespaces' = namespaces /\ UNCHANGED <<fsVars, dentries, mounted, names>>
    BY Zenon DEF UnmountMount
  <1>2. MountInv(mounts, namespaces)
    BY Zenon DEF VfsInv
  <1>3. mounts[id].refs = 0 /\ \A f \in files : f.mount # id
    BY Zenon, <1>1, OpenFile DEF InUse
  <1>4. \A m \in Mounts : mounts[m].used /\ mounts[m].ns = 0 => mounts[m].parent # id
    BY Zenon, <1>1 DEF InUse
  <1>5. \A n \in DOMAIN namespaces : namespaces[n] # id
    BY Zenon, <1>1, <1>2 DEF MountInv
  <1>6. MountBut(mounts', mounts, id, FreeMount)
    <2>1. MountFun(mounts)
      BY Zenon, <1>2 DEF MountInv
    <2>2. MountBut([mounts EXCEPT ![id] = FreeMount], mounts, id, FreeMount)
      BY Zenon, <2>1, MountButExcept, NewMounts
    <2> QED
      BY Zenon, <1>1, <2>2
  <1>7. MountInv(mounts', namespaces)
    <2>1. Loose(mounts, namespaces, id)
      BY Zenon, <1>4, <1>5 DEF Loose
    <2> QED
      BY Zenon, <1>2, <1>6, <2>1, MountTaken
  <1>8. MountInv(mounts', namespaces')
    BY Zenon, <1>1, <1>7
  <1>9. FreeMount.refs = 0
    BY Zenon, NewMounts
  <1> QED
    BY Zenon, <1>1, <1>3, <1>6, <1>8, <1>9, MountStep

WithRoot(nss, ns, id) == [n \in DOMAIN nss \cup {ns} |-> IF n = ns THEN id ELSE nss[n]]

\* A new namespace with its root mount, and one that goes.
LEMMA NamespaceAdded ==
    ASSUME NEW ms, NEW nss, MountInv(ms, nss), NEW ns \in Namespaces, ns \notin DOMAIN nss,
           NEW id \in Mounts, ms[id].used, ms[id].ns = ns, ms[id].parent = NoParent
    PROVE  MountInv(ms, WithRoot(nss, ns, id))
  <1>a. PICK q : q = WithRoot(nss, ns, id)
    BY Zenon
  <1>1. /\ DOMAIN q = DOMAIN nss \cup {ns} /\ q[ns] = id /\ \A n \in DOMAIN nss : q[n] = nss[n]
        /\ q = [n \in DOMAIN q |-> q[n]]
    BY Zenon, <1>a DEF WithRoot
  <1>2. 0 \in DOMAIN q /\ q[0] = 0 /\ DOMAIN q \subseteq Namespaces
    BY Zenon, <1>1 DEF MountInv
  <1>3. \A n \in DOMAIN q : q[n] \in Mounts /\ ms[q[n]].used
                            /\ ms[q[n]].ns = n /\ ms[q[n]].parent = NoParent
    BY Zenon, <1>1 DEF MountInv
  <1>4. MountInv(ms, q)
    BY Zenon, <1>1, <1>2, <1>3 DEF MountInv
  <1> QED
    BY Zenon, <1>a, <1>4

\* A namespace other than the first one goes.
LEMMA NamespaceTaken ==
    ASSUME NEW ms, NEW nss, MountInv(ms, nss), NEW ns, ns # 0,
           NEW q, q = [n \in DOMAIN nss \ {ns} |-> nss[n]]
    PROVE  MountInv(ms, q) /\ DOMAIN q = DOMAIN nss \ {ns} /\ \A n \in DOMAIN q : q[n] = nss[n]
  <1>1. /\ DOMAIN q = DOMAIN nss \ {ns} /\ \A n \in DOMAIN q : q[n] = nss[n]
        /\ q = [n \in DOMAIN q |-> q[n]]
    BY Zenon
  <1>2. 0 \in DOMAIN q /\ q[0] = 0 /\ DOMAIN q \subseteq Namespaces
    BY Zenon, <1>1 DEF MountInv
  <1>3. \A n \in DOMAIN q : q[n] \in Mounts /\ ms[q[n]].used
                            /\ ms[q[n]].ns = n /\ ms[q[n]].parent = NoParent
    BY Zenon, <1>1 DEF MountInv
  <1>4. MountInv(ms, q)
    BY Zenon, <1>1, <1>2, <1>3 DEF MountInv
  <1> QED
    BY Zenon, <1>1, <1>4

\* create_namespace
LEMMA CreateNamespaceStep ==
    ASSUME VfsInv, CreateNamespace
    PROVE  VfsInv' /\ KeptStep
  <1>1. PICK ns, id :
           /\ ns = Min(Namespaces \ DOMAIN namespaces) /\ id = Min(FreeMounts)
           /\ Namespaces \ DOMAIN namespaces # {} /\ FreeMounts # {}
           /\ mounts' = [mounts EXCEPT ![id] = RootMount(ns)]
           /\ namespaces' = [n \in DOMAIN namespaces \cup {ns} |-> IF n = ns THEN id ELSE namespaces[n]]
           /\ UNCHANGED <<fsVars, dentries, mounted, names>>
    BY Zenon DEF CreateNamespace
  <1>2. MountInv(mounts, namespaces)
    BY Zenon DEF VfsInv
  <1>3. ns \in Namespaces /\ ns \notin DOMAIN namespaces /\ ns # 0
    <2>1. PICK S : S = Namespaces \ DOMAIN namespaces
      BY Zenon
    <2>2. S \in SUBSET Nat /\ S # {}
      BY Zenon, <1>1, <2>1, SizesOK
    <2>3. Min(S) \in S
      BY Zenon, <2>2, MinIn
    <2>4. ns \in Namespaces /\ ns \notin DOMAIN namespaces
      BY Zenon, <1>1, <2>1, <2>3
    <2>5. 0 \in DOMAIN namespaces
      BY Zenon, <1>2 DEF MountInv
    <2> QED
      BY Zenon, <2>4, <2>5
  <1>4. id \in Mounts /\ ~mounts[id].used /\ mounts[id].refs = 0 /\ \A f \in files : f.mount # id
    BY Zenon, <1>1, FreeMountSlot
  <1>5. PICK r : r = RootMount(ns)
    BY Zenon
  <1>6. r.used /\ r.ns = ns /\ r.parent = NoParent /\ r.refs = 0 /\ IsMount(r)
    BY Zenon, <1>5, NewMounts
  <1>7. MountBut(mounts', mounts, id, r)
    <2>1. MountFun(mounts)
      BY Zenon, <1>2 DEF MountInv
    <2>2. MountBut([mounts EXCEPT ![id] = r], mounts, id, r)
      BY Zenon, <1>4, <1>6, <2>1, MountButExcept
    <2> QED
      BY Zenon, <1>1, <1>5, <2>2
  <1>8. MountInv(mounts', namespaces)
    BY Zenon, <1>2, <1>3, <1>4, <1>6, <1>7, MountAdded
  <1>9. mounts'[id].used /\ mounts'[id].ns = ns /\ mounts'[id].parent = NoParent
    BY Zenon, <1>6, <1>7 DEF MountBut
  <1>10. MountInv(mounts', namespaces')
    <2>1. MountInv(mounts', WithRoot(namespaces, ns, id))
      BY Zenon, <1>3, <1>4, <1>8, <1>9, NamespaceAdded
    <2> QED
      BY Zenon, <1>1, <2>1 DEF WithRoot
  <1> QED
    BY Zenon, <1>1, <1>4, <1>6, <1>7, <1>10, MountStep

\* destroy_namespace: one with a file or a dentry held below it is refused.
LEMMA DestroyNamespaceStep ==
    ASSUME VfsInv, NEW ns, DestroyNamespace(ns)
    PROVE  VfsInv' /\ KeptStep
  <1>1. PICK id :
           /\ id = namespaces[ns] /\ ns # 0 /\ ns \in DOMAIN namespaces
           /\ \A m \in Mounts : mounts[m].used /\ mounts[m].ns = ns =>
                 mounts[m].refs = 0 /\ \A s \in DOMAIN handles : handles[s].mount # m
           /\ mounts' = [mounts EXCEPT ![id] = FreeMount]
           /\ namespaces' = [n \in DOMAIN namespaces \ {ns} |-> namespaces[n]]
           /\ UNCHANGED <<fsVars, dentries, mounted, names>>
    BY Zenon DEF DestroyNamespace
  <1>2. MountInv(mounts, namespaces)
    BY Zenon DEF VfsInv
  <1>3. id \in Mounts /\ mounts[id].used /\ mounts[id].ns = ns
    BY Zenon, <1>1, <1>2 DEF MountInv
  <1>4. mounts[id].refs = 0 /\ \A f \in files : f.mount # id
    BY Zenon, <1>1, <1>3, OpenFile
  <1>5. /\ MountInv(mounts, namespaces') /\ DOMAIN namespaces' = DOMAIN namespaces \ {ns}
        /\ \A n \in DOMAIN namespaces' : namespaces'[n] = namespaces[n]
    BY Zenon, <1>1, <1>2, NamespaceTaken
  <1>6. \A n \in DOMAIN namespaces' : namespaces'[n] # id
    BY Zenon, <1>3, <1>5 DEF MountInv
  <1>7. \A m \in Mounts : mounts[m].used /\ mounts[m].ns = 0 => mounts[m].parent # id
    <2>1. ASSUME NEW m \in Mounts, mounts[m].used, mounts[m].ns = 0, mounts[m].parent = id PROVE FALSE
      <3>1. CASE m = 0
        <4>1. mounts[0].parent = NoParent
          BY Zenon, <1>2 DEF MountInv
        <4> QED
          BY Zenon, <1>3, <2>1, <3>1, <4>1, SizesOK
      <3>2. CASE m # 0
        BY Zenon, <1>1, <1>2, <1>3, <2>1, <3>2 DEF MountInv
      <3> QED
        BY Zenon, <3>1, <3>2
    <2> QED
      BY Zenon, <2>1
  <1>8. MountBut(mounts', mounts, id, FreeMount)
    <2>1. MountFun(mounts)
      BY Zenon, <1>2 DEF MountInv
    <2>2. MountBut([mounts EXCEPT ![id] = FreeMount], mounts, id, FreeMount)
      BY Zenon, <1>3, <2>1, MountButExcept, NewMounts
    <2> QED
      BY Zenon, <1>1, <2>2
  <1>9. MountInv(mounts', namespaces')
    <2>1. Loose(mounts, namespaces', id)
      BY Zenon, <1>6, <1>7 DEF Loose
    <2> QED
      BY Zenon, <1>3, <1>5, <1>8, <2>1, MountTaken
  <1>10. FreeMount.refs = 0
    BY Zenon, NewMounts
  <1> QED
    BY Zenon, <1>1, <1>3, <1>4, <1>8, <1>9, <1>10, MountStep

-----------------------------------------------------------------------------
(* Dentries *)

\* u is t, but for the references of mount m.
RefsTo(u, t, m, k) ==
    /\ MountFun(u) /\ u[m].refs = k
    /\ \A j \in Mounts : j # m => u[j] = t[j]
    /\ \A j \in Mounts : /\ u[j].used = t[j].used /\ u[j].ns = t[j].ns /\ u[j].parent = t[j].parent
                         /\ u[j].point = t[j].point /\ u[j].root = t[j].root /\ u[j].ro = t[j].ro
                         /\ [u[j] EXCEPT !.refs = 0] = [t[j] EXCEPT !.refs = 0]

\* Writing the reference count of a mount.
LEMMA RefsExcept ==
    ASSUME NEW t, MountFun(t), NEW m \in Mounts, NEW k
    PROVE  RefsTo([t EXCEPT ![m] = [t[m] EXCEPT !.refs = k]], t, m, k)
  <1>0. PICK used \in BOOLEAN : \E ns, parent, point, root, ro, prop, refs :
           t[m] = MountRec(used, ns, parent, point, root, ro, prop, refs)
    BY Zenon DEF MountFun, IsMount
  <1>1. PICK ns, parent, point, root, ro, prop, refs :
           t[m] = MountRec(used, ns, parent, point, root, ro, prop, refs)
    BY Zenon, <1>0
  <1>2. PICK r : r = [t[m] EXCEPT !.refs = k]
    BY Zenon
  <1>3. r = MountRec(used, ns, parent, point, root, ro, prop, k)
    BY <1>1, <1>2 DEF MountRec
  <1>4. IsMount(r)
    BY Zenon, <1>1, <1>3 DEF IsMount
  <1>5. PICK u : u = [t EXCEPT ![m] = r]
    BY Zenon
  <1>6. MountFun(u) /\ u[m] = r /\ \A j \in Mounts : j # m => u[j] = t[j]
    <2>1. MountBut([t EXCEPT ![m] = r], t, m, r)
      BY Zenon, <1>4, MountButExcept
    <2> QED
      BY Zenon, <1>5, <2>1 DEF MountBut
  <1>7. /\ r.used = t[m].used /\ r.ns = t[m].ns /\ r.parent = t[m].parent
        /\ r.point = t[m].point /\ r.root = t[m].root /\ r.ro = t[m].ro /\ r.refs = k
    BY <1>1, <1>3 DEF MountRec
  <1>8. [r EXCEPT !.refs = 0] = [t[m] EXCEPT !.refs = 0]
    BY <1>1, <1>3 DEF MountRec
  <1>9. \A j \in Mounts : /\ u[j].used = t[j].used /\ u[j].ns = t[j].ns /\ u[j].parent = t[j].parent
                          /\ u[j].point = t[j].point /\ u[j].root = t[j].root /\ u[j].ro = t[j].ro
                          /\ [u[j] EXCEPT !.refs = 0] = [t[j] EXCEPT !.refs = 0]
    <2> TAKE j \in Mounts
    <2>1. CASE j = m
      BY Zenon, <1>6, <1>7, <1>8, <2>1
    <2>2. CASE j # m
      BY Zenon, <1>6, <2>2
    <2> QED
      BY Zenon, <2>1, <2>2
  <1>10. RefsTo(u, t, m, k)
    BY Zenon, <1>6, <1>7, <1>9 DEF RefsTo
  <1> QED
    BY Zenon, <1>2, <1>5, <1>10

\* The counts are not in what the invariant says of the mount tree.
LEMMA RefsKeeps ==
    ASSUME NEW t, NEW nss, MountInv(t, nss), NEW m \in Mounts, t[m].used, NEW k,
           NEW u, RefsTo(u, t, m, k)
    PROVE  MountInv(u, nss)
  <1>1. /\ MountFun(u) /\ \A j \in Mounts : j # m => u[j] = t[j]
        /\ \A j \in Mounts : /\ u[j].used = t[j].used /\ u[j].ns = t[j].ns
                             /\ u[j].parent = t[j].parent /\ u[j].point = t[j].point
                             /\ u[j].root = t[j].root
    BY Zenon DEF RefsTo
  <1>2. ASSUME NEW j \in Mounts, u[j].used PROVE u[j].parent = NoParent \/ u[j].root = u[j].point
    <2>1. t[j].used => t[j].parent = NoParent \/ t[j].root = t[j].point
      BY Zenon DEF MountInv
    <2> QED
      BY <1>1, <1>2, <2>1
  <1>3. ASSUME NEW j \in Mounts, ~u[j].used PROVE u[j].refs = 0
    <2>1. ~t[j].used => t[j].refs = 0
      BY Zenon DEF MountInv
    <2>2. ~t[j].used
      BY <1>1, <1>3
    <2>3. j # m
      BY Zenon, <2>2
    <2> QED
      BY Zenon, <1>1, <2>1, <2>2, <2>3
  <1>4. ASSUME NEW j \in Mounts, u[j].used, u[j].ns = 0, j # 0
        PROVE  u[j].parent \in Mounts /\ u[u[j].parent].used /\ u[u[j].parent].ns = 0
    <2>1. t[j].used /\ t[j].ns = 0
      BY <1>1, <1>4
    <2>2. PICK p : p = t[j].parent
      BY Zenon
    <2>3. p \in Mounts /\ t[p].used /\ t[p].ns = 0
      BY Zenon, <1>4, <2>1, <2>2 DEF MountInv
    <2>4. u[j].parent = p /\ u[p].used /\ u[p].ns = 0
      BY <1>1, <2>2, <2>3
    <2> QED
      BY Zenon, <2>3, <2>4
  <1>5. \A n \in DOMAIN nss : nss[n] \in Mounts /\ u[nss[n]].used
                              /\ u[nss[n]].ns = n /\ u[nss[n]].parent = NoParent
    <2> TAKE n \in DOMAIN nss
    <2>1. PICK j : j = nss[n]
      BY Zenon
    <2>2. j \in Mounts /\ t[j].used /\ t[j].ns = n /\ t[j].parent = NoParent
      BY Zenon, <2>1 DEF MountInv
    <2>3. u[j].used /\ u[j].ns = n /\ u[j].parent = NoParent
      BY <1>1, <2>2
    <2> QED
      BY Zenon, <2>1, <2>2, <2>3
  <1>6. /\ 0 \in DOMAIN nss /\ nss[0] = 0
        /\ nss = [n \in DOMAIN nss |-> nss[n]] /\ DOMAIN nss \subseteq Namespaces
    BY Zenon DEF MountInv
  <1> QED
    BY Zenon, <1>1, <1>2, <1>3, <1>4, <1>5, <1>6 DEF MountInv

\* What a step on dentries leaves alone.
LEMMA DentryStep ==
    ASSUME VfsInv, NEW m \in Mounts, mounts[m].used, NEW k, RefsTo(mounts', mounts, m, k),
           UNCHANGED <<fsVars, namespaces, mounted>>, NamesInv'
    PROVE  VfsInv' /\ KeptStep
  <1>1. /\ inodes' = inodes /\ handles' = handles /\ openCount' = openCount /\ files' = files
        /\ mounted' = mounted /\ namespaces' = namespaces
    BY Zenon DEF fsVars
  <1>2. MountInv(mounts', namespaces')
    <2>1. MountInv(mounts', namespaces)
      BY Zenon, RefsKeeps DEF VfsInv
    <2> QED
      BY Zenon, <1>1, <2>1
  <1>3. \A j \in Mounts : /\ mounts'[j].used = mounts[j].used /\ mounts'[j].ro = mounts[j].ro
                          /\ [mounts'[j] EXCEPT !.refs = 0] = [mounts[j] EXCEPT !.refs = 0]
    BY Zenon DEF RefsTo
  <1>4. \A d \in names : d.mount \in Mounts
    BY Zenon DEF VfsInv, NamesInv, NameOK
  <1>5. KeptStep
    BY Zenon, <1>3, <1>4, OpenFile DEF KeptStep
  <1>6. FilesInv'
    <2>1. \A f \in files' : FileOK(f, handles', inodes', mounts')
      <3> SUFFICES ASSUME NEW f \in files PROVE FileOK(f, handles', inodes', mounts')
        BY Zenon, <1>1
      <3>1. FileOK(f, handles, inodes, mounts)
        BY Zenon DEF VfsInv, FilesInv
      <3>2. f.mount \in Mounts /\ mounts[f.mount].used /\ (f.writable => ~mounts[f.mount].ro)
        BY Zenon, <3>1 DEF FileOK
      <3>3. mounts'[f.mount].used /\ (f.writable => ~mounts'[f.mount].ro)
        BY <1>3, <3>2
      <3> QED
        BY Zenon, <1>1, <3>1, <3>3 DEF FileOK
    <2>2. /\ \A f, g \in files : f.slot = g.slot => f = g
          /\ IsFiniteSet(files) /\ IsFiniteSet(DOMAIN handles)
          /\ openCount = Cardinality(files) /\ openCount = Cardinality(DOMAIN handles)
          /\ ~mounted => files = {}
      BY Zenon DEF VfsInv, FilesInv
    <2>3. /\ \A f, g \in files' : f.slot = g.slot => f = g
          /\ IsFiniteSet(files') /\ IsFiniteSet(DOMAIN handles')
          /\ openCount' = Cardinality(files') /\ openCount' = Cardinality(DOMAIN handles')
      BY Zenon, <1>1, <2>2
    <2>4. ~mounted' => files' = {}
      BY <1>1, <2>2
    <2> QED
      BY Zenon, <2>1, <2>3, <2>4 DEF FilesInv
  <1>7. TreeInv(inodes') /\ KindsOK(inodes') /\ mounted' \in BOOLEAN
    BY Zenon, <1>1 DEF VfsInv
  <1> QED
    BY Zenon, <1>2, <1>5, <1>6, <1>7 DEF VfsInv

\* lookup_in_namespace: a dentry and a reference are added together.
LEMMA LookupStep ==
    ASSUME VfsInv, NEW ns, NEW path \in Paths, LookupInNamespace(ns, path)
    PROVE  VfsInv' /\ KeptStep
  <1>1. PICK m, i, slot : /\ m = Resolve(ns, path).mount /\ i = Resolve(ns, path).inode
                          /\ slot = Min(FreeDentries \cup {MaxDentries})
    BY Zenon
  <1>2. PICK e : e = NameRec(slot, m, i)
    BY Zenon
  <1>3. /\ Resolve(ns, path).err = "Ok" /\ slot # MaxDentries
        /\ dentries' = [s \in DOMAIN dentries \cup {slot} |-> IF s = slot THEN Place(m, i) ELSE dentries[s]]
        /\ mounts' = [mounts EXCEPT ![m] = [mounts[m] EXCEPT !.refs = mounts[m].refs + 1]]
        /\ names' = names \cup {e}
    BY Zenon, <1>1, <1>2 DEF LookupInNamespace, Place, NameRec
  <1>4. mounted /\ UNCHANGED <<fsVars, namespaces, mounted>>
    BY Zenon DEF LookupInNamespace
  <1>5. m \in Mounts /\ mounts[m].used
    BY Zenon, <1>1, <1>3, ResolveOK DEF MountsOf, VfsInv
  <1>6. slot \notin DOMAIN dentries
    <2>1. PICK S : S = FreeDentries \cup {MaxDentries}
      BY Zenon
    <2>2. S \in SUBSET Nat /\ S # {}
      BY <2>1, SizesOK DEF FreeDentries
    <2>3. Min(S) \in S
      BY Zenon, <2>2, MinIn
    <2> QED
      BY Zenon, <1>1, <1>3, <2>1, <2>3 DEF FreeDentries
  <1>7. PICK k : k = mounts[m].refs + 1
    BY Zenon
  <1>8. RefsTo(mounts', mounts, m, k)
    <2>1. RefsTo([mounts EXCEPT ![m] = [mounts[m] EXCEPT !.refs = k]], mounts, m, k)
      BY Zenon, <1>5, RefsExcept DEF VfsInv, MountInv
    <2> QED
      BY Zenon, <1>3, <1>7, <2>1
  <1>9. /\ DOMAIN dentries' = DOMAIN dentries \cup {slot} /\ dentries'[slot] = Place(m, i)
        /\ \A s \in DOMAIN dentries : dentries'[s] = dentries[s]
    BY Zenon, <1>3, <1>6
  <1>10. /\ \A d \in names : NameOK(d, dentries, mounts)
         /\ \A d, c \in names : d.slot = c.slot => d = c
         /\ IsFiniteSet(DOMAIN dentries)
         /\ \A j \in Mounts : mounts[j].refs = Cardinality(At(dentries, j))
    BY Zenon DEF VfsInv, NamesInv
  <1>11. e.slot = slot /\ e.mount = m /\ e.inode = i
    BY <1>2 DEF NameRec
  <1>12. \A j \in Mounts : mounts'[j].used = mounts[j].used
    BY Zenon, <1>8 DEF RefsTo
  <1>13. ASSUME NEW d \in names PROVE NameOK(d, dentries', mounts') /\ d.slot # slot
    <2>1. /\ d = NameRec(d.slot, d.mount, d.inode)
          /\ d.slot \in DOMAIN dentries /\ dentries[d.slot] = Place(d.mount, d.inode)
          /\ d.mount \in Mounts /\ mounts[d.mount].used
      BY Zenon, <1>10 DEF NameOK
    <2>2. mounts'[d.mount].used
      BY <1>12, <2>1
    <2> QED
      BY Zenon, <1>6, <1>9, <2>1, <2>2 DEF NameOK
  <1>14. NameOK(e, dentries', mounts')
    <2>1. mounts'[m].used
      BY <1>5, <1>12
    <2> QED
      BY Zenon, <1>2, <1>5, <1>9, <1>11, <2>1 DEF NameOK
  <1>15. \A d \in names' : NameOK(d, dentries', mounts')
    BY Zenon, <1>3, <1>13, <1>14
  <1>16. \A d, c \in names' : d.slot = c.slot => d = c
    BY Zenon, <1>3, <1>10, <1>11, <1>13
  <1>17. IsFiniteSet(DOMAIN dentries')
    <2>1. IsFiniteSet(DOMAIN dentries \cup {slot})
      BY Zenon, <1>6, <1>10, Grown
    <2> QED
      BY Zenon, <1>9, <2>1
  <1>18. ASSUME NEW j \in Mounts PROVE mounts'[j].refs = Cardinality(At(dentries', j))
    <2>1. dentries'[slot].mount = m
      BY Zenon, <1>9, PlaceFields
    <2>2. CASE j = m
      <3>1. At(dentries', m) = At(dentries, m) \cup {slot} /\ slot \notin At(dentries, m)
        BY Zenon, <1>6, <1>9, <2>1 DEF At
      <3>2. IsFiniteSet(At(dentries, m))
        <4>1. At(dentries, m) \in SUBSET DOMAIN dentries
          BY Zenon DEF At
        <4> QED
          BY Zenon, <1>10, <4>1, FS_Subset
      <3>3. Cardinality(At(dentries, m) \cup {slot}) = Cardinality(At(dentries, m)) + 1
        BY Zenon, <3>1, <3>2, Grown
      <3>4. mounts'[m].refs = k
        BY Zenon, <1>8 DEF RefsTo
      <3> QED
        BY Zenon, <1>5, <1>7, <1>10, <2>2, <3>1, <3>3, <3>4
    <2>3. CASE j # m
      <3>1. At(dentries', j) = At(dentries, j)
        BY Zenon, <1>6, <1>9, <2>1, <2>3 DEF At
      <3>2. mounts'[j] = mounts[j]
        BY Zenon, <1>8, <2>3 DEF RefsTo
      <3> QED
        BY Zenon, <1>10, <3>1, <3>2
    <2> QED
      BY Zenon, <2>2, <2>3
  <1>19. ~mounted' => names' = {}
    BY <1>4
  <1>20. NamesInv'
    BY Zenon, <1>15, <1>16, <1>17, <1>18, <1>19 DEF NamesInv
  <1> QED
    BY Zenon, <1>4, <1>5, <1>8, <1>20, DentryStep

\* release_dentry: a dentry and a reference go together.
LEMMA ReleaseStep ==
    ASSUME VfsInv, NEW e, ReleaseDentry(e)
    PROVE  VfsInv' /\ KeptStep
  <1>1. PICK m, slot : m = e.mount /\ slot = e.slot
    BY Zenon
  <1>2. /\ mounted /\ e \in names /\ names' = names \ {e}
        /\ dentries' = [s \in DOMAIN dentries \ {slot} |-> dentries[s]]
        /\ mounts' = [mounts EXCEPT ![m] = [mounts[m] EXCEPT !.refs =
                        IF mounts[m].refs = 0 THEN 0 ELSE mounts[m].refs - 1]]
        /\ UNCHANGED <<fsVars, namespaces, mounted>>
    BY Zenon, <1>1 DEF ReleaseDentry
  <1>3. /\ \A d \in names : NameOK(d, dentries, mounts)
        /\ \A d, c \in names : d.slot = c.slot => d = c
        /\ IsFiniteSet(DOMAIN dentries)
        /\ \A j \in Mounts : mounts[j].refs = Cardinality(At(dentries, j))
    BY Zenon DEF VfsInv, NamesInv
  <1>4. /\ m \in Mounts /\ mounts[m].used /\ slot \in DOMAIN dentries
        /\ dentries[slot] = Place(m, e.inode)
    BY Zenon, <1>1, <1>2, <1>3 DEF NameOK
  <1>5. dentries[slot].mount = m
    BY Zenon, <1>4, PlaceFields
  <1>6. PICK k : k = IF mounts[m].refs = 0 THEN 0 ELSE mounts[m].refs - 1
    BY Zenon
  <1>7. RefsTo(mounts', mounts, m, k)
    <2>1. RefsTo([mounts EXCEPT ![m] = [mounts[m] EXCEPT !.refs = k]], mounts, m, k)
      BY Zenon, <1>4, RefsExcept DEF VfsInv, MountInv
    <2> QED
      BY Zenon, <1>2, <1>6, <2>1
  <1>8. /\ DOMAIN dentries' = DOMAIN dentries \ {slot}
        /\ \A s \in DOMAIN dentries : s # slot => s \in DOMAIN dentries' /\ dentries'[s] = dentries[s]
    BY Zenon, <1>2
  <1>9. \A j \in Mounts : mounts'[j].used = mounts[j].used
    BY Zenon, <1>7 DEF RefsTo
  <1>10. ASSUME NEW d \in names' PROVE NameOK(d, dentries', mounts')
    <2>1. d \in names /\ d.slot # slot
      BY Zenon, <1>1, <1>2, <1>3
    <2>2. /\ d = NameRec(d.slot, d.mount, d.inode)
          /\ d.slot \in DOMAIN dentries /\ dentries[d.slot] = Place(d.mount, d.inode)
          /\ d.mount \in Mounts /\ mounts[d.mount].used
      BY Zenon, <1>3, <2>1 DEF NameOK
    <2>3. mounts'[d.mount].used
      BY <1>9, <2>2
    <2> QED
      BY Zenon, <1>8, <2>1, <2>2, <2>3 DEF NameOK
  <1>11. \A d, c \in names' : d.slot = c.slot => d = c
    BY Zenon, <1>2, <1>3
  <1>12. IsFiniteSet(DOMAIN dentries')
    <2>1. IsFiniteSet(DOMAIN dentries \ {slot})
      BY Zenon, <1>3, <1>4, Shrunk
    <2> QED
      BY Zenon, <1>8, <2>1
  <1>13. ASSUME NEW j \in Mounts PROVE mounts'[j].refs = Cardinality(At(dentries', j))
    <2>1. CASE j = m
      <3>1. At(dentries', m) = At(dentries, m) \ {slot} /\ slot \in At(dentries, m)
        BY Zenon, <1>4, <1>5, <1>8 DEF At
      <3>2. IsFiniteSet(At(dentries, m))
        <4>1. At(dentries, m) \in SUBSET DOMAIN dentries
          BY Zenon DEF At
        <4> QED
          BY Zenon, <1>3, <4>1, FS_Subset
      <3>3. /\ Cardinality(At(dentries, m) \ {slot}) = Cardinality(At(dentries, m)) - 1
            /\ Cardinality(At(dentries, m)) \in Nat \ {0}
        BY Zenon, <3>1, <3>2, Shrunk
      <3>4. mounts'[m].refs = k
        BY Zenon, <1>7 DEF RefsTo
      <3>5. mounts[m].refs = Cardinality(At(dentries, m))
        BY Zenon, <1>3, <1>4
      <3>6. k = Cardinality(At(dentries, m)) - 1
        BY Zenon, <1>6, <3>3, <3>5
      <3> QED
        BY Zenon, <2>1, <3>1, <3>3, <3>4, <3>6
    <2>2. CASE j # m
      <3>1. At(dentries', j) = At(dentries, j)
        BY Zenon, <1>5, <1>8, <2>2 DEF At
      <3>2. mounts'[j] = mounts[j]
        BY Zenon, <1>7, <2>2 DEF RefsTo
      <3> QED
        BY Zenon, <1>3, <3>1, <3>2
    <2> QED
      BY Zenon, <2>1, <2>2
  <1>14. ~mounted' => names' = {}
    BY <1>2
  <1>15. NamesInv'
    BY Zenon, <1>10, <1>11, <1>12, <1>13, <1>14 DEF NamesInv
  <1> QED
    BY Zenon, <1>2, <1>4, <1>7, <1>15, DentryStep

-----------------------------------------------------------------------------
(* The ramfs, and the theorems *)

\* FileSystem::new: the root alone is a tree.
LEMMA EmptyTreeInv == TreeInv(EmptyTree) /\ KindsOK(EmptyTree)
  <1>1. PICK t : t = EmptyTree
    BY Zenon
  <1>2. 0 \in Inodes
    BY Zenon, SizesOK
  <1>3. t = [i \in Inodes |-> t[i]] /\ t[0] = NewInode("dir", 0)
        /\ \A i \in Inodes : i # 0 => t[i] = FreeInode
    BY Zenon, <1>1, <1>2 DEF EmptyTree
  <1>4. PICK none : none = [n \in {} |-> 0]
    BY Zenon
  <1>5. DOMAIN none = {}
    BY Zenon, <1>4
  <1>6. /\ NewInode("dir", 0) = Node(TRUE, "dir", 0, {"r", "w"}, 0, none)
        /\ FreeInode = Node(FALSE, "regular", 0, {}, 0, none)
    BY Zenon, <1>4, NewInodeIs
  <1>7. \A i \in Inodes : IsNode(t[i])
    <2>1. TRUE \in BOOLEAN /\ FALSE \in BOOLEAN
      BY Zenon
    <2>2. IsNode(NewInode("dir", 0)) /\ IsNode(FreeInode)
      BY Zenon, <1>6, <2>1 DEF IsNode
    <2> QED
      BY Zenon, <1>3, <2>2
  <1>8. /\ t[0].used /\ t[0].kind = "dir" /\ t[0].size = 0 /\ t[0].parent = 0
        /\ t[0].children = none
    BY <1>3, <1>6 DEF Node
  <1>9. /\ FreeInode.used = FALSE /\ FreeInode.kind = "regular" /\ FreeInode.parent = 0
        /\ FreeInode.size = 0 /\ FreeInode.children = none
    BY <1>6 DEF Node
  <1>10. \A i \in Inodes : /\ t[i].size = 0 /\ t[i].parent = 0 /\ t[i].children = none
                           /\ t[i].kind = "dir" \/ t[i].kind = "regular"
                           /\ i # 0 => ~t[i].used
    BY Zenon, <1>3, <1>8, <1>9
  <1>11. \A d, n, c : ~Entry(t, d, n, c)
    BY Zenon, <1>5, <1>10 DEF Entry
  <1>12. \A i \in Inodes : t[i].size \in 0 .. FileMax /\ t[i].parent \in Inodes
    <2>1. 0 \in 0 .. FileMax
      BY SizesOK
    <2> QED
      BY Zenon, <1>2, <1>10, <2>1
  <1>13. Founded(t)
    BY Zenon, <1>10 DEF Founded
  <1>14. TreeInv(t)
    BY Zenon, <1>3, <1>7, <1>8, <1>10, <1>11, <1>12, <1>13 DEF TreeInv, TreeFun
  <1>15. KindsOK(t)
    BY Zenon, <1>10 DEF KindsOK
  <1> QED
    BY Zenon, <1>1, <1>14, <1>15

\* The initial states satisfy the invariant.
LEMMA InitInv == Init => VfsInv
  <1> SUFFICES ASSUME Init PROVE VfsInv
    OBVIOUS
  <1>1. /\ inodes = EmptyTree /\ handles = [s \in {} |-> 0] /\ openCount = 0
        /\ mounts = [m \in Mounts |-> IF m = 0 THEN RootMount(0) ELSE FreeMount]
        /\ namespaces = [n \in {0} |-> 0] /\ dentries = [s \in {} |-> 0]
        /\ mounted = TRUE /\ files = {} /\ names = {}
    BY Zenon DEF Init
  <1>2. DOMAIN handles = {} /\ DOMAIN dentries = {} /\ DOMAIN namespaces = {0} /\ namespaces[0] = 0
    BY Zenon, <1>1
  <1>3. IsFiniteSet({}) /\ Cardinality({}) = 0
    BY Zenon, FS_EmptySet
  <1>4. 0 \in Mounts /\ 0 \in Namespaces
    BY Zenon, SizesOK
  <1>5. /\ mounts = [m \in Mounts |-> mounts[m]] /\ mounts[0] = RootMount(0)
        /\ \A m \in Mounts : m # 0 => mounts[m] = FreeMount
    BY Zenon, <1>1, <1>4
  <1>6. MountFun(mounts)
    <2>1. \A m \in Mounts : IsMount(mounts[m])
      BY Zenon, <1>5, NewMounts
    <2> QED
      BY Zenon, <1>5, <2>1 DEF MountFun
  <1>7. /\ mounts[0].used /\ mounts[0].ns = 0 /\ mounts[0].parent = NoParent
        /\ \A m \in Mounts : mounts[m].refs = 0 /\ (m # 0 => ~mounts[m].used)
    <2>1. /\ mounts[0].used /\ mounts[0].ns = 0 /\ mounts[0].parent = NoParent /\ mounts[0].refs = 0
      BY <1>5 DEF RootMount
    <2>2. ASSUME NEW m \in Mounts, m # 0 PROVE mounts[m].refs = 0 /\ ~mounts[m].used
      BY Zenon, <1>5, <2>2, NewMounts
    <2> QED
      BY Zenon, <2>1, <2>2
  <1>8. MountInv(mounts, namespaces)
    <2>1. namespaces = [n \in DOMAIN namespaces |-> namespaces[n]]
      BY Zenon, <1>1
    <2>2. \A m \in Mounts : mounts[m].used => mounts[m].parent = NoParent \/ mounts[m].root = mounts[m].point
      BY Zenon, <1>7
    <2>3. \A n \in DOMAIN namespaces : namespaces[n] \in Mounts /\ mounts[namespaces[n]].used
             /\ mounts[namespaces[n]].ns = n /\ mounts[namespaces[n]].parent = NoParent
      BY Zenon, <1>2, <1>4, <1>7
    <2> QED
      BY Zenon, <1>2, <1>4, <1>6, <1>7, <2>1, <2>2, <2>3 DEF MountInv
  <1>9. FilesInv
    BY Zenon, <1>1, <1>2, <1>3 DEF FilesInv
  <1>10. NamesInv
    <2>1. \A m : At(dentries, m) = {}
      BY Zenon, <1>2 DEF At
    <2> QED
      BY Zenon, <1>1, <1>2, <1>3, <1>7, <2>1 DEF NamesInv
  <1> QED
    BY Zenon, <1>1, <1>8, <1>9, <1>10, EmptyTreeInv DEF VfsInv

\* unmount_ramfs: no handle or dentry is held.
LEMMA UnmountRamfsStep ==
    ASSUME VfsInv, UnmountRamfs
    PROVE  VfsInv' /\ KeptStep
  <1>1. /\ openCount = 0 /\ names = {} /\ mounted' = FALSE
        /\ inodes' = inodes /\ handles' = handles /\ openCount' = openCount /\ files' = files
        /\ mounts' = mounts /\ namespaces' = namespaces /\ dentries' = dentries /\ names' = names
    BY Zenon DEF UnmountRamfs, fsVars
  <1>2. KeptStep
    BY Zenon, <1>1 DEF KeptStep
  <1>3. files = {}
    <2>1. IsFiniteSet(files) /\ Cardinality(files) = 0
      BY Zenon, <1>1 DEF VfsInv, FilesInv
    <2> QED
      BY Zenon, <2>1, FS_EmptySet
  <1>4. FilesInv'
    <2>1. /\ IsFiniteSet(files) /\ IsFiniteSet(DOMAIN handles)
          /\ openCount = Cardinality(files) /\ openCount = Cardinality(DOMAIN handles)
      BY Zenon DEF VfsInv, FilesInv
    <2> QED
      BY Zenon, <1>1, <1>3, <2>1 DEF FilesInv
  <1>5. NamesInv'
    <2>1. /\ IsFiniteSet(DOMAIN dentries)
          /\ \A m \in Mounts : mounts[m].refs = Cardinality(At(dentries, m))
      BY Zenon DEF VfsInv, NamesInv
    <2> QED
      BY Zenon, <1>1, <2>1 DEF NamesInv
  <1>6. mounted' \in BOOLEAN
    BY Zenon, <1>1
  <1>7. TreeInv(inodes') /\ KindsOK(inodes') /\ MountInv(mounts', namespaces')
    BY Zenon, <1>1 DEF VfsInv
  <1> QED
    BY Zenon, <1>2, <1>4, <1>5, <1>6, <1>7 DEF VfsInv

\* mount_ramfs
LEMMA MountRamfsStep ==
    ASSUME VfsInv, MountRamfs
    PROVE  VfsInv' /\ KeptStep
  <1>1. files = {} /\ names = {} /\ files' = {} /\ names' = {}
    BY Zenon DEF VfsInv, FilesInv, NamesInv, MountRamfs
  <1>2. Init'
    BY Zenon, <1>1 DEF MountRamfs, Init
  <1>3. VfsInv'
    BY <1>2, InitInv, PTL
  <1>4. KeptStep
    BY Zenon, <1>1 DEF KeptStep
  <1> QED
    BY Zenon, <1>3, <1>4

\* Every step keeps the invariant, and the mounts of the handles held.
LEMMA VfsStep ==
    ASSUME VfsInv, [Next]_vfsVars
    PROVE  VfsInv' /\ (KeptStep \/ UNCHANGED vfsVars)
  <1>1. CASE UNCHANGED vfsVars
    <2>1. UNCHANGED <<handles, openCount, files, mountVars>> /\ inodes' = inodes
      BY Zenon, <1>1 DEF vfsVars, fsVars
    <2>2. TreeInv(inodes') /\ KindsOK(inodes')
      BY Zenon, <2>1 DEF VfsInv
    <2>3. \A f \in files : inodes'[f.inode].used /\ inodes'[f.inode].kind = "regular"
      BY Zenon, <2>1, OpenFile
    <2> QED
      BY Zenon, <1>1, <2>1, <2>2, <2>3, TreeStep
  <1>2. ASSUME NEW path \in Paths,
               \/ Mkdir(path) \/ Unlink(path) \/ RemoveDir(path)
               \/ \E mode \in Modes : Chmod(path, mode)
               \/ \E new \in Paths : Rename(path, new)
        PROVE  VfsInv' /\ KeptStep
    BY Zenon, <1>2, MkdirStep, UnlinkStep, RemoveDirStep, ChmodStep, RenameStep
  <1>3. ASSUME NEW path \in Paths, NEW opt, OpenExisting(path, opt) \/ OpenCreating(path, opt)
        PROVE  VfsInv' /\ KeptStep
    BY Zenon, <1>3, OpenExistingStep, OpenCreatingStep
  <1>4. ASSUME NEW path \in Paths, NEW ns,
               \/ LookupInNamespace(ns, path)
               \/ \E kind \in MountKinds : MountInNamespace(ns, path, kind[1], kind[2])
        PROVE  VfsInv' /\ KeptStep
    BY Zenon, <1>4, LookupStep, MountInNamespaceStep
  <1>5. ASSUME NEW f,
               \/ Close(f)
               \/ \E n \in 1 .. FileMax : ReadHandle(f, n) \/ WriteHandle(f, n)
               \/ \E d \in -FileMax .. FileMax + 1 : Seek(f, d)
        PROVE  VfsInv' /\ KeptStep
    BY Zenon, <1>5, CloseStep, ReadHandleStep, WriteHandleStep, SeekStep
  <1>6. ASSUME \/ \E d \in names : ReleaseDentry(d)
               \/ \E id \in Mounts : UnmountMount(id)
               \/ \E ns \in Namespaces : DestroyNamespace(ns)
               \/ CreateNamespace \/ UnmountRamfs \/ MountRamfs
        PROVE  VfsInv' /\ KeptStep
    BY Zenon, <1>6, ReleaseStep, UnmountMountStep, DestroyNamespaceStep, CreateNamespaceStep,
       UnmountRamfsStep, MountRamfsStep
  <1>7. CASE Next
    BY Zenon, <1>2, <1>3, <1>4, <1>5, <1>6, <1>7 DEF Next
  <1> QED
    BY Zenon, <1>1, <1>7

\* Every reachable state satisfies the inductive invariant: the inode table is a
\* tree, the mounts of the first namespace hang together, and the handle, dentry and
\* reference counts are those of the tables (open, close, mount_in_namespace,
\* unmount_mount, lookup_in_namespace, release_dentry).
THEOREM VfsInvariant == Spec => []VfsInv
  <1>1. VfsInv /\ [Next]_vfsVars => VfsInv'
    BY Zenon, VfsStep
  <1> QED
    BY <1>1, InitInv, PTL DEF Spec

\* For every size of the tables and every set of paths, mkdir, unlink, remove_dir and
\* rename keep the inodes a tree under the root: entry and parent agree, and no
\* directory is moved below itself and lost.
THEOREM VfsTreeStaysOK == Spec => []TreeOK
  BY VfsInvariant, InvTree, PTL

\* A handle from open names a regular file in use until it is closed, and a dentry a
\* mount in use until it is released, whatever is removed, moved or unmounted between.
THEOREM VfsHandlesStayValid == Spec => []HandlesValid
  BY VfsInvariant, InvHandles, PTL

\* While a handle or a dentry that names a mount is held, unmount_mount,
\* destroy_namespace and unmount_ramfs leave that mount as it is.
THEOREM VfsMountsKept == Spec => MountKept
  <1>1. VfsInv /\ [Next]_vfsVars =>
          [\A h \in (files \cap files') \cup (names \cap names') :
             [mounts'[h.mount] EXCEPT !.refs = 0] = [mounts[h.mount] EXCEPT !.refs = 0]]_vfsVars
    BY Zenon, VfsStep DEF KeptStep
  <1> QED
    BY <1>1, VfsInvariant, PTL DEF Spec, MountKept
=============================================================================
