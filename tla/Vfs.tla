-------------------------------- MODULE Vfs --------------------------------
(***************************************************************************)
(* The virtual file system of src/vfs.rs: the ramfs inode table, open      *)
(* files, the mount tree, namespaces and dentries, all in fixed tables.    *)
(* A mount covers a directory of the one ramfs and only changes the flags  *)
(* under it.  Calls that fail without an effect are no steps.              *)
(*                                                                         *)
(* File contents are left out; a file has its size, a handle its offset.   *)
(* A path is a sequence of names and "..".  files and names are what the   *)
(* callers hold: neither FileHandle nor DentryHandle can be copied.        *)
(***************************************************************************)
EXTENDS Integers, Sequences, FiniteSetsExt

CONSTANTS
    MaxInodes, MaxChildren, MaxHandles, MaxMounts, MaxNamespaces, MaxDentries,
    MaxComponents, FileMax,
    Names,      \* file names
    Paths,      \* paths the callers use
    Modes,      \* sets of "r" and "w" that chmod may set
    MountKinds, \* pairs of the read-only flag and the propagation of a mount
    MaxHeld     \* handles of both kinds callers hold at a time (bound of the model)

ASSUME VfsAssumption ==
    /\ {MaxInodes, MaxChildren, MaxHandles, MaxMounts, MaxNamespaces} \subseteq Nat \ {0}
    /\ {MaxDentries, MaxComponents, FileMax, MaxHeld} \subseteq Nat
    /\ ".." \notin Names
    /\ MountKinds \subseteq BOOLEAN \X {"private", "shared", "slave", "unbindable"}
    /\ Paths \subseteq Seq(Names \cup {".."})

Inodes == 0 .. MaxInodes - 1
Mounts == 0 .. MaxMounts - 1
Namespaces == 0 .. MaxNamespaces - 1
NoParent == MaxMounts

VARIABLES
    inodes,         \* FILE_SYSTEM.inodes
    handles,        \* FILE_SYSTEM.handles: used slot -> [mount, inode]
    openCount,      \* FILE_SYSTEM.open_count
    mounts,         \* MOUNTS
    namespaces,     \* NAMESPACES: used namespace -> its root mount
    dentries,       \* DENTRIES: used slot -> [mount, inode]
    mounted,        \* MOUNTED
    files,          \* the FileHandles that callers hold
    names           \* the DentryHandles that callers hold

fsVars == <<inodes, handles, openCount, files>>
mountVars == <<mounts, namespaces, dentries, mounted, names>>
vfsVars == <<fsVars, mountVars>>

FreeInode == [used |-> FALSE, kind |-> "regular", parent |-> 0, mode |-> {}, size |-> 0,
              children |-> [n \in {} |-> 0]]
NewInode(kind, parent) == [used |-> TRUE, kind |-> kind, parent |-> parent, mode |-> {"r", "w"},
                           size |-> 0, children |-> [n \in {} |-> 0]]

FreeMount == [used |-> FALSE, ns |-> 0, parent |-> NoParent, point |-> 0, root |-> 0,
              ro |-> FALSE, prop |-> "private", refs |-> 0]
RootMount(ns) == [used |-> TRUE, ns |-> ns, parent |-> NoParent, point |-> 0, root |-> 0,
                  ro |-> FALSE, prop |-> "private", refs |-> 0]

EmptyTree == [i \in Inodes |-> IF i = 0 THEN NewInode("dir", 0) ELSE FreeInode]

\* After mount_ramfs.
Init ==
    /\ inodes = EmptyTree
    /\ handles = [s \in {} |-> 0] /\ openCount = 0
    /\ mounts = [m \in Mounts |-> IF m = 0 THEN RootMount(0) ELSE FreeMount]
    /\ namespaces = [n \in {0} |-> 0]
    /\ dentries = [s \in {} |-> 0]
    /\ mounted = TRUE
    /\ files = {} /\ names = {}

-----------------------------------------------------------------------------
(* Paths *)

AllButLast(s) == SubSeq(s, 1, Len(s) - 1)

\* parse_path: ".." takes the last component away; a path that is too long at
\* some point is refused.
Component(acc, c) ==
    IF ~acc.ok THEN acc
    ELSE IF c = ".." THEN [acc EXCEPT !.names = IF @ = <<>> THEN @ ELSE AllButLast(@)]
    ELSE [ok |-> Len(acc.names) < MaxComponents, names |-> Append(acc.names, c)]

Parsed ==
    [path \in Paths |->
        LET parse[k \in 0 .. Len(path)] ==
              IF k = 0 THEN [ok |-> TRUE, names |-> <<>>] ELSE Component(parse[k - 1], path[k])
        IN parse[Len(path)]]

Stop(err) == [err |-> err, mount |-> 0, inode |-> 0]

MountChild(ns, parent, point) ==
    {m \in Mounts : mounts[m].used /\ mounts[m].ns = ns
                    /\ mounts[m].parent = parent /\ mounts[m].point = point}

\* At inode i under mount m, or under the mount that covers i there.
Cover(m, i, covering) ==
    IF covering = {} THEN [err |-> "Ok", mount |-> m, inode |-> i]
    ELSE [err |-> "Ok", mount |-> Min(covering), inode |-> mounts[Min(covering)].root]

\* One component further.
Descend(ns, at, name) ==
    IF at.err # "Ok" THEN at
    ELSE IF inodes[at.inode].kind # "dir" THEN Stop("NotDirectory")
    ELSE IF name \notin DOMAIN inodes[at.inode].children THEN Stop("NotFound")
    ELSE Cover(at.mount, inodes[at.inode].children[name],
               MountChild(ns, at.mount, inodes[at.inode].children[name]))

Walk(ns, components) ==
    IF ns \notin DOMAIN namespaces THEN Stop("NamespaceNotFound")
    ELSE LET walk[k \in 0 .. Len(components)] ==
               IF k = 0 THEN [err |-> "Ok", mount |-> namespaces[ns], inode |-> 0]
               ELSE Descend(ns, walk[k - 1], components[k])
         IN walk[Len(components)]

\* resolve_mount: where a path leads.
Resolve(ns, path) ==
    IF Parsed[path].ok THEN Walk(ns, Parsed[path].names) ELSE Stop("InvalidPath")

OnlyDirectory(at) == IF at.err = "Ok" /\ inodes[at.inode].kind # "dir" THEN Stop("NotDirectory") ELSE at

\* parent_and_name_mount: the directory that holds the last component.
ParentOf(path) ==
    IF Parsed[path].ok /\ Parsed[path].names # <<>>
    THEN OnlyDirectory(Walk(0, AllButLast(Parsed[path].names)))
    ELSE Stop("InvalidPath")

NameOf(path) == Parsed[path].names[Len(Parsed[path].names)]

-----------------------------------------------------------------------------
(* The directory tree *)

FreeInodes(t) == {i \in Inodes : ~t[i].used}

\* create_node_at, where it succeeds.
CanCreate(dir, name) ==
    /\ name \notin DOMAIN inodes[dir].children
    /\ Cardinality(DOMAIN inodes[dir].children) < MaxChildren
    /\ FreeInodes(inodes) # {}

AddChild(t, dir, name, i) ==
    [t EXCEPT ![dir].children = [n \in DOMAIN @ \cup {name} |-> IF n = name THEN i ELSE @[n]]]
RemoveChild(t, dir, name) ==
    [t EXCEPT ![dir].children = [n \in DOMAIN @ \ {name} |-> @[n]]]

Created(dir, name, kind) ==
    LET i == Min(FreeInodes(inodes)) IN
    AddChild([inodes EXCEPT ![i] = NewInode(kind, dir)], dir, name, i)

\* The inodes from i upwards, as many as is_descendant looks at.
Above(i) == IF i = 0 THEN 0 ELSE inodes[i].parent
Climb(i) ==
    LET up[k \in 0 .. MaxInodes - 1] == IF k = 0 THEN i ELSE Above(up[k - 1])
    IN {up[k] : k \in 0 .. MaxInodes - 1}
IsDescendant(i, ancestor) == ancestor \in Climb(i) \/ 0 \notin Climb(i)

Mkdir(path) ==
    /\ mounted
    /\ \E dir \in {ParentOf(path)} :
         /\ dir.err = "Ok" /\ ~mounts[dir.mount].ro
         /\ CanCreate(dir.inode, NameOf(path))
         /\ inodes' = Created(dir.inode, NameOf(path), "dir")
    /\ UNCHANGED <<handles, openCount, files, mountVars>>

\* The mode of a directory is never looked at, and left out.
Chmod(path, mode) ==
    /\ mounted
    /\ \E at \in {Resolve(0, path)} :
         /\ at.err = "Ok" /\ ~mounts[at.mount].ro
         /\ inodes[at.inode].kind = "regular"
         /\ inodes' = [inodes EXCEPT ![at.inode].mode = mode]
    /\ UNCHANGED <<handles, openCount, files, mountVars>>

\* Mutation: an open file may be removed.
OpenNever(i) == FALSE

HasOpenHandle(i) == \E s \in DOMAIN handles : handles[s].inode = i

Child(dir, name) == inodes[dir].children[name]

\* The entry of a path is removed and its inode freed.
Freed(dir, name) ==
    inodes' = [RemoveChild(inodes, dir, name) EXCEPT ![Child(dir, name)] = FreeInode]

Unlink(path) ==
    /\ mounted
    /\ \E dir \in {ParentOf(path)} :
         /\ dir.err = "Ok" /\ ~mounts[dir.mount].ro
         /\ NameOf(path) \in DOMAIN inodes[dir.inode].children
         /\ inodes[Child(dir.inode, NameOf(path))].kind # "dir"
         /\ ~HasOpenHandle(Child(dir.inode, NameOf(path)))
         /\ Freed(dir.inode, NameOf(path))
    /\ UNCHANGED <<handles, openCount, files, mountVars>>

RemoveDir(path) ==
    /\ mounted
    /\ \E dir \in {ParentOf(path)} :
         /\ dir.err = "Ok" /\ ~mounts[dir.mount].ro
         /\ NameOf(path) \in DOMAIN inodes[dir.inode].children
         /\ inodes[Child(dir.inode, NameOf(path))].kind = "dir"
         /\ DOMAIN inodes[Child(dir.inode, NameOf(path))].children = {}
         /\ Freed(dir.inode, NameOf(path))
    /\ UNCHANGED <<handles, openCount, files, mountVars>>

\* Mutation: a directory may go below itself.
MayMoveAnywhere(i, dir) == TRUE

MayMove(i, dir) == ~(inodes[i].kind = "dir" /\ IsDescendant(dir, i))

Moved(old, oldName, new, newName) ==
    LET i == Child(old, oldName) IN
    [AddChild(RemoveChild(inodes, old, oldName), new, newName, i) EXCEPT ![i].parent = new]

Rename(oldPath, newPath) ==
    /\ mounted
    /\ \E old \in {ParentOf(oldPath)}, new \in {ParentOf(newPath)} :
         /\ old.err = "Ok" /\ NameOf(oldPath) \in DOMAIN inodes[old.inode].children
         /\ new.err = "Ok" /\ old.mount = new.mount
         /\ ~mounts[old.mount].ro
         /\ NameOf(newPath) \notin DOMAIN inodes[new.inode].children
         /\ MayMove(Child(old.inode, NameOf(oldPath)), new.inode)
         /\ \/ old.inode = new.inode
            \/ Cardinality(DOMAIN inodes[new.inode].children) < MaxChildren
         /\ inodes' = Moved(old.inode, NameOf(oldPath), new.inode, NameOf(newPath))
    /\ UNCHANGED <<handles, openCount, files, mountVars>>

-----------------------------------------------------------------------------
(* Open files *)

Options == {[read |-> TRUE, write |-> FALSE, create |-> FALSE],
            [read |-> FALSE, write |-> TRUE, create |-> TRUE],
            [read |-> TRUE, write |-> TRUE, create |-> TRUE]}

FreeHandles == (0 .. MaxHandles - 1) \ DOMAIN handles

MayHold == Cardinality(files) + Cardinality(names) < MaxHeld

\* The end of open.
Opened(mount, i, opt) ==
    LET slot == Min(FreeHandles) IN
    /\ MayHold
    /\ handles' = [s \in DOMAIN handles \cup {slot} |->
                     IF s = slot THEN [mount |-> mount, inode |-> i] ELSE handles[s]]
    /\ openCount' = openCount + 1
    /\ files' = files \cup {[slot |-> slot, mount |-> mount, inode |-> i, offset |-> 0,
                             readable |-> opt.read, writable |-> opt.write]}

MayOpen(at, opt) ==
    /\ ~((opt.write \/ opt.create) /\ mounts[at.mount].ro)
    /\ inodes[at.inode].kind # "dir"
    /\ opt.read => "r" \in inodes[at.inode].mode
    /\ opt.write => "w" \in inodes[at.inode].mode

OpenExisting(path, opt) ==
    /\ mounted
    /\ \E at \in {Resolve(0, path)} :
         /\ at.err = "Ok" /\ MayOpen(at, opt) /\ FreeHandles # {}
         /\ Opened(at.mount, at.inode, opt)
    /\ UNCHANGED <<inodes, mountVars>>

\* open with create on a path that leads nowhere.  The file is created before
\* a handle is looked for, and stays when there is none.
OpenCreating(path, opt) ==
    /\ mounted
    /\ opt.create /\ Resolve(0, path).err = "NotFound"
    /\ \E dir \in {ParentOf(path)} :
         /\ dir.err = "Ok" /\ ~mounts[dir.mount].ro
         /\ CanCreate(dir.inode, NameOf(path))
         /\ inodes' = Created(dir.inode, NameOf(path), "regular")
         /\ IF FreeHandles # {} THEN Opened(dir.mount, Min(FreeInodes(inodes)), opt)
            ELSE UNCHANGED <<handles, openCount, files>>
    /\ UNCHANGED mountVars

\* validate_handle
Valid(f) ==
    /\ mounted
    /\ f.slot \in DOMAIN handles
    /\ handles[f.slot].mount = f.mount /\ handles[f.slot].inode = f.inode
    /\ inodes[f.inode].used /\ mounts[f.mount].used

\* close takes the handle from the caller also when it fails.
Close(f) ==
    /\ f \in files
    /\ files' = files \ {f}
    /\ IF Valid(f)
       THEN /\ handles' = [s \in DOMAIN handles \ {f.slot} |-> handles[s]]
            /\ openCount' = IF openCount = 0 THEN 0 ELSE openCount - 1
       ELSE UNCHANGED <<handles, openCount>>
    /\ UNCHANGED <<inodes, mountVars>>

Moves(f, offset) == files' = (files \ {f}) \cup {[f EXCEPT !.offset = offset]}

Left(f) == IF f.offset < inodes[f.inode].size THEN inodes[f.inode].size - f.offset ELSE 0

ReadHandle(f, n) ==
    /\ f \in files /\ Valid(f)
    /\ f.readable
    /\ Moves(f, f.offset + Min({Left(f), n}))
    /\ UNCHANGED <<inodes, handles, openCount, mountVars>>

WriteHandle(f, n) ==
    /\ f \in files /\ Valid(f)
    /\ ~mounts[f.mount].ro /\ f.writable
    /\ f.offset + n <= FileMax
    /\ inodes' = [inodes EXCEPT ![f.inode].size = Max({@, f.offset + n})]
    /\ Moves(f, f.offset + n)
    /\ UNCHANGED <<handles, openCount, mountVars>>

SeekTargets == 0 .. FileMax

Seek(f, d) ==
    /\ f \in files /\ Valid(f)
    /\ f.offset + d \in SeekTargets
    /\ Moves(f, f.offset + d)
    /\ UNCHANGED <<inodes, handles, openCount, mountVars>>

-----------------------------------------------------------------------------
(* Mounts and namespaces *)

FreeMounts == {m \in Mounts : ~mounts[m].used}

MayPropagate(parent, prop) ==
    /\ mounts[parent].prop # "unbindable"
    /\ ~(prop = "slave" /\ mounts[parent].prop = "private")

MountInNamespace(ns, path, ro, prop) ==
    /\ mounted
    /\ \E at \in {Resolve(ns, path)} :
         /\ at.err = "Ok"
         /\ at.inode # 0 /\ inodes[at.inode].kind = "dir"
         /\ MayPropagate(at.mount, prop)
         /\ MountChild(ns, at.mount, at.inode) = {}
         /\ FreeMounts # {}
         /\ mounts' = [mounts EXCEPT ![Min(FreeMounts)] =
              [used |-> TRUE, ns |-> ns, parent |-> at.mount, point |-> at.inode,
               root |-> at.inode, ro |-> ro, prop |-> prop, refs |-> 0]]
    /\ UNCHANGED <<fsVars, namespaces, dentries, mounted, names>>

\* Mutation: open files do not keep a mount.
InUseNoFiles(id) ==
    \/ mounts[id].refs # 0
    \/ \E m \in Mounts : mounts[m].used /\ mounts[m].parent = id

InUse(id) ==
    \/ mounts[id].refs # 0
    \/ \E s \in DOMAIN handles : handles[s].mount = id
    \/ \E m \in Mounts : mounts[m].used /\ mounts[m].parent = id

UnmountMount(id) ==
    /\ mounted
    /\ mounts[id].used
    /\ mounts[id].ns \in DOMAIN namespaces /\ namespaces[mounts[id].ns] # id
    /\ ~InUse(id)
    /\ mounts' = [mounts EXCEPT ![id] = FreeMount]
    /\ UNCHANGED <<fsVars, namespaces, dentries, mounted, names>>

CreateNamespace ==
    LET ns == Min(Namespaces \ DOMAIN namespaces)
        m == Min(FreeMounts) IN
    /\ mounted
    /\ Namespaces \ DOMAIN namespaces # {} /\ FreeMounts # {}
    /\ mounts' = [mounts EXCEPT ![m] = RootMount(ns)]
    /\ namespaces' = [n \in DOMAIN namespaces \cup {ns} |-> IF n = ns THEN m ELSE namespaces[n]]
    /\ UNCHANGED <<fsVars, dentries, mounted, names>>

\* Only the root mount goes; mounts made in the namespace stay behind.
DestroyNamespace(ns) ==
    /\ mounted
    /\ ns # 0 /\ ns \in DOMAIN namespaces
    /\ \A m \in Mounts : mounts[m].used /\ mounts[m].ns = ns =>
         mounts[m].refs = 0 /\ \A s \in DOMAIN handles : handles[s].mount # m
    /\ mounts' = [mounts EXCEPT ![namespaces[ns]] = FreeMount]
    /\ namespaces' = [n \in DOMAIN namespaces \ {ns} |-> namespaces[n]]
    /\ UNCHANGED <<fsVars, dentries, mounted, names>>

-----------------------------------------------------------------------------
(* Dentries *)

FreeDentries == (0 .. MaxDentries - 1) \ DOMAIN dentries

LookupInNamespace(ns, path) ==
    /\ mounted
    /\ \E at \in {Resolve(ns, path)}, slot \in {Min(FreeDentries \cup {MaxDentries})} :
         /\ at.err = "Ok" /\ slot # MaxDentries /\ MayHold
         /\ dentries' = [s \in DOMAIN dentries \cup {slot} |->
                           IF s = slot THEN [mount |-> at.mount, inode |-> at.inode] ELSE dentries[s]]
         /\ mounts' = [mounts EXCEPT ![at.mount].refs = @ + 1]
         /\ names' = names \cup {[slot |-> slot, mount |-> at.mount, inode |-> at.inode]}
    /\ UNCHANGED <<fsVars, namespaces, mounted>>

ReleaseDentry(d) ==
    /\ mounted /\ d \in names
    /\ d.slot \in DOMAIN dentries
    /\ dentries[d.slot].mount = d.mount /\ dentries[d.slot].inode = d.inode
    /\ dentries' = [s \in DOMAIN dentries \ {d.slot} |-> dentries[s]]
    /\ mounts' = [mounts EXCEPT ![d.mount].refs = IF @ = 0 THEN 0 ELSE @ - 1]
    /\ names' = names \ {d}
    /\ UNCHANGED <<fsVars, namespaces, mounted>>

-----------------------------------------------------------------------------
(* The ramfs itself; init and its self-checks hold no dentry when they do this *)

UnmountRamfs ==
    /\ mounted /\ openCount = 0 /\ names = {}
    /\ mounted' = FALSE
    /\ UNCHANGED <<fsVars, mounts, namespaces, dentries, names>>

MountRamfs ==
    /\ ~mounted
    /\ inodes' = EmptyTree
    /\ handles' = [s \in {} |-> 0] /\ openCount' = 0
    /\ mounts' = [m \in Mounts |-> IF m = 0 THEN RootMount(0) ELSE FreeMount]
    /\ namespaces' = [n \in {0} |-> 0]
    /\ dentries' = [s \in {} |-> 0]
    /\ mounted' = TRUE
    /\ UNCHANGED <<files, names>>

Next ==
    \/ \E path \in Paths :
         \/ Mkdir(path) \/ Unlink(path) \/ RemoveDir(path)
         \/ \E mode \in Modes : Chmod(path, mode)
         \/ \E new \in Paths : Rename(path, new)
         \/ \E opt \in Options : OpenExisting(path, opt) \/ OpenCreating(path, opt)
         \/ \E ns \in Namespaces :
              \/ LookupInNamespace(ns, path)
              \/ \E kind \in MountKinds : MountInNamespace(ns, path, kind[1], kind[2])
    \/ \E f \in files :
         \/ Close(f)
         \/ \E n \in 1 .. FileMax : ReadHandle(f, n) \/ WriteHandle(f, n)
         \/ \E d \in -FileMax .. FileMax + 1 : Seek(f, d)
    \/ \E d \in names : ReleaseDentry(d)
    \/ \E id \in Mounts : UnmountMount(id)
    \/ \E ns \in Namespaces : DestroyNamespace(ns)
    \/ CreateNamespace
    \/ UnmountRamfs \/ MountRamfs

Spec == Init /\ [][Next]_vfsVars

-----------------------------------------------------------------------------
(* Properties *)

\* create_node_at, unlink, remove_dir, rename: the inodes form a tree.  Every
\* node in use is the child of exactly the directory it names as its parent,
\* entries lead to nodes in use, and every node is below the root.
\* create_namespace, unmount_mount, destroy_namespace: so do the mounts.  A
\* namespace has its own root mount, and every other mount of the root
\* namespace hangs below a mount of that namespace.
TreeOK ==
    /\ inodes[0].used /\ inodes[0].kind = "dir"
    /\ \A i \in Inodes : inodes[i].used /\ i # 0 =>
         LET dir == inodes[i].parent IN
         /\ inodes[dir].used /\ inodes[dir].kind = "dir"
         /\ Cardinality({n \in DOMAIN inodes[dir].children : Child(dir, n) = i}) = 1
         /\ 0 \in Climb(i)
    /\ \A dir \in Inodes : \A n \in DOMAIN inodes[dir].children :
         inodes[Child(dir, n)].used /\ inodes[Child(dir, n)].parent = dir
    /\ \A ns \in DOMAIN namespaces : LET root == mounts[namespaces[ns]] IN
         root.used /\ root.ns = ns /\ root.parent = NoParent
    /\ \A m \in Mounts \ {0} : mounts[m].used /\ mounts[m].ns = 0 =>
         mounts[m].parent # NoParent /\ mounts[mounts[m].parent].used
                                     /\ mounts[mounts[m].parent].ns = 0

\* open, close, seek, unlink, unmount_mount, lookup_in_namespace, release_dentry:
\* a handle is good for as long as its caller has it. A FileHandle names a
\* regular file, its offset stays within what a file can hold, as the raw copies
\* of read_handle and write_handle rely on, and a writable one belongs to no
\* read-only mount, also after mount slots were reused; a DentryHandle can still
\* be released; and open_count and the reference counts of the mounts count them.
HandlesValid ==
    /\ \A f \in files :
         /\ Valid(f) /\ inodes[f.inode].kind = "regular"
         /\ f.offset \in 0 .. FileMax /\ inodes[f.inode].size \in 0 .. FileMax
         /\ f.writable => ~mounts[f.mount].ro
    /\ openCount = Cardinality(files) /\ openCount = Cardinality(DOMAIN handles)
    /\ mounted =>
         /\ \A m \in Mounts :
              mounts[m].refs = Cardinality({s \in DOMAIN dentries : dentries[s].mount = m})
         /\ \A d \in names : /\ d.slot \in DOMAIN dentries
                             /\ dentries[d.slot] = [mount |-> d.mount, inode |-> d.inode]
                             /\ mounts[d.mount].used

\* unmount_mount, destroy_namespace: a mount under which a file is open or a
\* dentry is held stays what it is.
MountKept ==
    [][\A h \in (files \cap files') \cup (names \cap names') :
         [mounts'[h.mount] EXCEPT !.refs = 0] = [mounts[h.mount] EXCEPT !.refs = 0]]_vfsVars
=============================================================================
