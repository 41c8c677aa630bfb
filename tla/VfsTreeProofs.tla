--------------------------- MODULE VfsTreeProofs ---------------------------
(***************************************************************************)
(* The inductive invariant of the ramfs and the mount tree (Vfs.tla), what *)
(* it implies, and what the operators of the model do to the inode table:  *)
(* paths, walks, adding, freeing and moving an inode.  VfsProofs.tla has   *)
(* the steps.                                                              *)
(*                                                                         *)
(* The core is Founded: climbing from parent to parent leads out of every  *)
(* set of inodes that the root is not in.  As the table is finite, the     *)
(* climb of is_descendant then reaches the root, and the check that rename *)
(* makes rules out exactly the moves that would close a cycle.             *)
(***************************************************************************)
EXTENDS Vfs, FiniteSetTheorems, WellFoundedInduction, TLAPS

\* A nonempty set of numbers has a least element.
LEMMA LeastNumber ==
    ASSUME NEW F \in SUBSET Nat, F # {}
    PROVE  \E s \in F : \A x \in F : s <= x
  <1>1. \E s \in F : \A x \in F : ~(<<x, s>> \in OpToRel(<, Nat))
    <2>1. IsWellFoundedOn(OpToRel(<, Nat), Nat)
      BY Zenon, NatLessThanWellFounded
    <2>2. PICK R : R = OpToRel(<, Nat)
      BY Zenon
    <2> QED
      BY Zenon, <2>1, <2>2, WFMin
  <1>2. PICK s \in F : \A x \in F : ~(<<x, s>> \in OpToRel(<, Nat))
    BY Zenon, <1>1
  <1>3. \A x \in F : ~(x < s)
    <2> TAKE x \in F
    <2>1. <<x, s>> \in Nat \X Nat
      BY Zenon
    <2> QED
      BY Zenon, <1>2, <2>1 DEF OpToRel
  <1> QED
    BY <1>3

\* What holds of 0 and goes from each number to the next holds of all.
LEMMA CountUp ==
    ASSUME NEW H \in SUBSET Nat, 0 \in H, \A n \in H : n + 1 \in H
    PROVE  H = Nat
  <1> SUFFICES ASSUME H # Nat PROVE FALSE
    BY Zenon
  <1>1. PICK F : F = Nat \ H
    BY Zenon
  <1>2. F \in SUBSET Nat /\ F # {}
    BY Zenon, <1>1
  <1>3. PICK s \in F : \A x \in F : s <= x
    BY Zenon, <1>2, LeastNumber
  <1>4. s \in Nat /\ s \notin H /\ s # 0
    BY Zenon, <1>1
  <1>5. s - 1 \in Nat /\ ~(s <= s - 1) /\ (s - 1) + 1 = s
    BY <1>4
  <1>6. s - 1 \in H
    BY Zenon, <1>1, <1>3, <1>5
  <1> QED
    BY Zenon, <1>4, <1>5, <1>6

\* n steps g through a set S, from s on: they exist, and stay in the set.
IsRun(f, S, s, n, g) ==
    /\ f = [k \in 0 .. n |-> IF k = 0 THEN s ELSE g[<<f[k - 1], k>>]]
    /\ \A k \in 0 .. n : f[k] \in S

\* g can be iterated n times from s without leaving S.
LEMMA Iterates ==
    ASSUME NEW S, NEW s \in S, NEW n \in Nat, NEW g \in [S \X (1 .. n) -> S]
    PROVE  \E f : IsRun(f, S, s, n, g)
  <1> DEFINE Runs(m, f) == /\ f = [k \in 0 .. m |-> f[k]] /\ f[0] = s
                           /\ \A k \in 0 .. m : f[k] \in S
                           /\ \A k \in 1 .. m : f[k] = g[<<f[k - 1], k>>]
  <1>1. PICK H : H = {m \in Nat : m <= n => \E f : Runs(m, f)}
    BY Zenon
  <1>2. 0 \in H
    <2>1. PICK f : f = [k \in 0 .. 0 |-> s]
      BY Zenon
    <2>2. 0 \in 0 .. 0 /\ 1 .. 0 = {}
      OBVIOUS
    <2>3. Runs(0, f)
      <3>1. \A k \in 0 .. 0 : f[k] = s
        BY Zenon, <2>1
      <3>2. f = [k \in 0 .. 0 |-> f[k]]
        BY Zenon, <2>1
      <3> QED
        BY Zenon, <2>2, <3>1, <3>2
    <2> HIDE DEF Runs
    <2> QED
      BY <1>1, <2>3
  <1>3. ASSUME NEW m \in H PROVE m + 1 \in H
    <2>1. m \in Nat /\ m + 1 \in Nat
      BY <1>1
    <2> SUFFICES ASSUME m + 1 <= n PROVE \E f : Runs(m + 1, f)
      <3> HIDE DEF Runs
      <3> QED
        BY Zenon, <1>1, <2>1
    <2>2. m <= n /\ m + 1 \in 1 .. n /\ m \in 0 .. m /\ (m + 1) - 1 = m /\ 0 \in 0 .. m /\ 0 # m + 1
      BY <2>1
    <2>3. PICK f : Runs(m, f)
      <3> HIDE DEF Runs
      <3> QED
        BY Zenon, <1>1, <2>2
    <2>4. PICK v : v = g[<<f[m], m + 1>>]
      BY Zenon
    <2>5. v \in S
      BY Zenon, <2>2, <2>3, <2>4
    <2>6. PICK h : h = [k \in 0 .. m + 1 |-> IF k = m + 1 THEN v ELSE f[k]]
      BY Zenon
    <2>7. \A k \in 0 .. m + 1 : k = m + 1 \/ k \in 0 .. m
      BY <2>1
    <2>8. \A k \in 0 .. m : k \in 0 .. m + 1 /\ k # m + 1
      BY <2>1
    <2>9. m + 1 \in 0 .. m + 1
      BY <2>1
    <2>10. \A k \in 1 .. m + 1 : k = m + 1 \/ (k \in 1 .. m /\ k \in 0 .. m /\ k - 1 \in 0 .. m)
      BY <2>1
    <2>11. h[m + 1] = v /\ \A k \in 0 .. m : h[k] = f[k]
      BY Zenon, <2>6, <2>8, <2>9
    <2>12. \A k \in 0 .. m + 1 : h[k] \in S
      BY Zenon, <2>3, <2>5, <2>7, <2>11
    <2>13. \A k \in 1 .. m + 1 : h[k] = g[<<h[k - 1], k>>]
      <3> TAKE k \in 1 .. m + 1
      <3>1. CASE k = m + 1
        <4>1. h[k - 1] = f[m]
          BY Zenon, <2>2, <2>11, <3>1
        <4> QED
          BY Zenon, <2>4, <2>11, <3>1, <4>1
      <3>2. CASE k \in 1 .. m /\ k \in 0 .. m /\ k - 1 \in 0 .. m
        BY Zenon, <2>3, <2>11, <3>2
      <3> QED
        BY Zenon, <2>10, <3>1, <3>2
    <2>14. h = [k \in 0 .. m + 1 |-> h[k]] /\ h[0] = s
      BY Zenon, <2>2, <2>3, <2>6, <2>11
    <2> QED
      BY Zenon, <2>12, <2>13, <2>14
  <1> HIDE DEF Runs
  <1>4. H \in SUBSET Nat
    BY Zenon, <1>1
  <1>5. H = Nat
    BY Zenon, <1>2, <1>3, <1>4, CountUp
  <1>6. n <= n
    OBVIOUS
  <1>7. PICK f : Runs(n, f)
    BY Zenon, <1>1, <1>5, <1>6
  <1>8. /\ f = [k \in 0 .. n |-> f[k]] /\ f[0] = s
        /\ \A k \in 0 .. n : f[k] \in S
        /\ \A k \in 1 .. n : f[k] = g[<<f[k - 1], k>>]
    BY Zenon, <1>7 DEF Runs
  <1>9. \A k \in 0 .. n : k = 0 \/ (k # 0 /\ k \in 1 .. n)
    OBVIOUS
  <1>10. \A k \in 0 .. n : f[k] = IF k = 0 THEN s ELSE g[<<f[k - 1], k>>]
    BY Zenon, <1>8, <1>9
  <1> QED
    BY Zenon, <1>8, <1>10 DEF IsRun

\* A walk whose every step keeps it in S, and that starts there, ends there.
LEMMA Stays ==
    ASSUME NEW S, NEW n \in Nat, NEW f, f[0] \in S, \A k \in 1 .. n : f[k - 1] \in S => f[k] \in S
    PROVE  \A k \in 0 .. n : f[k] \in S
  <1>1. PICK H : H = {m \in Nat : m <= n => f[m] \in S}
    BY Zenon
  <1>2. 0 \in H
    BY <1>1
  <1>3. ASSUME NEW m \in H PROVE m + 1 \in H
    <2>1. m \in Nat /\ m + 1 \in Nat /\ (m + 1) - 1 = m
      BY <1>1
    <2>2. ASSUME m + 1 <= n PROVE m <= n /\ m + 1 \in 1 .. n
      BY <2>1, <2>2
    <2> QED
      BY Zenon, <1>1, <2>1, <2>2
  <1>4. H \in SUBSET Nat
    BY Zenon, <1>1
  <1>5. H = Nat
    BY Zenon, <1>2, <1>3, <1>4, CountUp
  <1>6. \A k \in 0 .. n : k \in Nat /\ k <= n
    OBVIOUS
  <1> QED
    BY Zenon, <1>1, <1>5, <1>6

-----------------------------------------------------------------------------
(* Paths *)

\* parse_path yields names.
LEMMA ParsedNames ==
    ASSUME NEW path \in Paths
    PROVE  Parsed[path].names \in Seq(Names)
  <1>1. PICK S : S = [ok : BOOLEAN, names : Seq(Names)]
    BY Zenon
  <1>2. PICK n : n = Len(path)
    BY Zenon
  <1>3. n \in Nat /\ \A k \in 1 .. n : path[k] \in Names \cup {".."}
    BY <1>2, VfsAssumption
  <1>4. PICK s : s = [ok |-> TRUE, names |-> <<>>]
    BY Zenon
  <1>5. s \in S
    BY <1>1, <1>4
  <1>6. ASSUME NEW acc \in S, NEW k \in 1 .. n PROVE Component(acc, path[k]) \in S
    <2>1. MaxComponents \in Nat
      BY VfsAssumption
    <2>2. PICK c : c = path[k]
      BY Zenon
    <2>3. c = ".." \/ c \in Names
      BY Zenon, <1>3, <2>2
    <2>4. PICK l : l = acc.names
      BY Zenon
    <2>5. l \in Seq(Names) /\ acc.ok \in BOOLEAN /\ acc = [ok |-> acc.ok, names |-> l]
      BY <1>1, <2>4
    <2>6. ASSUME l # <<>> PROVE AllButLast(l) \in Seq(Names)
      BY <2>5, <2>6 DEF AllButLast
    <2>7. \A q \in Seq(Names) : [acc EXCEPT !.names = q] \in S
      BY <1>1, <2>5
    <2>8. c \in Names => [ok |-> Len(l) < MaxComponents, names |-> Append(l, c)] \in S
      BY <1>1, <2>1, <2>5
    <2> QED
      BY Zenon, <2>2, <2>3, <2>4, <2>5, <2>6, <2>7, <2>8 DEF Component
  <1>7. PICK g : g = [x \in S \X (1 .. n) |-> Component(x[1], path[x[2]])]
    BY Zenon
  <1>8. g \in [S \X (1 .. n) -> S]
    BY Zenon, <1>6, <1>7
  <1>9. \A acc \in S : \A k \in 1 .. n : g[<<acc, k>>] = Component(acc, path[k])
    BY Zenon, <1>7
  <1>10. PICK f : IsRun(f, S, s, n, g)
    BY Zenon, <1>3, <1>5, <1>8, Iterates
  <1>11. \A k \in 0 .. n : k = 0 \/ (k \in 1 .. n /\ k - 1 \in 0 .. n)
    BY <1>3
  <1>12. f = [k \in 0 .. n |-> IF k = 0 THEN s ELSE Component(f[k - 1], path[k])]
    <2>1. \A k \in 0 .. n : (IF k = 0 THEN s ELSE g[<<f[k - 1], k>>])
                            = IF k = 0 THEN s ELSE Component(f[k - 1], path[k])
      BY Zenon, <1>9, <1>10, <1>11 DEF IsRun
    <2> QED
      BY Zenon, <1>10, <2>1 DEF IsRun
  <1>13. PICK w : w = CHOOSE parse : parse = [k \in 0 .. n |-> IF k = 0 THEN s ELSE Component(parse[k - 1], path[k])]
    BY Zenon
  <1>14. w = [k \in 0 .. n |-> IF k = 0 THEN s ELSE Component(w[k - 1], path[k])]
    BY Zenon, <1>12, <1>13
  <1>15. Parsed[path] = w[n]
    <2>1. Parsed[path] = LET parse[k \in 0 .. Len(path)] ==
                              IF k = 0 THEN [ok |-> TRUE, names |-> <<>>]
                              ELSE Component(parse[k - 1], path[k])
                         IN parse[Len(path)]
      BY Zenon DEF Parsed
    <2> QED
      BY Zenon, <1>2, <1>4, <1>13, <2>1
  <1>16. w[0] \in S /\ \A k \in 1 .. n : w[k - 1] \in S => w[k] \in S
    <2>1. 0 \in 0 .. n /\ \A k \in 1 .. n : k \in 0 .. n /\ k # 0
      BY <1>3
    <2>2. w[0] = s /\ \A k \in 1 .. n : w[k] = Component(w[k - 1], path[k])
      BY Zenon, <1>14, <2>1
    <2> QED
      BY Zenon, <1>5, <1>6, <2>2
  <1>17. \A k \in 0 .. n : w[k] \in S
    BY Zenon, <1>3, <1>16, Stays
  <1>18. w[n] \in S
    BY <1>3, <1>17
  <1> QED
    BY Zenon, <1>1, <1>15, <1>18
-----------------------------------------------------------------------------
(* The inductive invariant *)

Node(used, kind, parent, mode, size, children) ==
    [used |-> used, kind |-> kind, parent |-> parent, mode |-> mode, size |-> size,
     children |-> children]
IsNode(r) ==
    \E used \in BOOLEAN : \E kind, parent, mode, size, children :
        r = Node(used, kind, parent, mode, size, children)

TreeFun(t) == t = [i \in Inodes |-> t[i]] /\ \A i \in Inodes : IsNode(t[i])

\* Directory d has an entry n that leads to inode c.
Entry(t, d, n, c) == d \in Inodes /\ n \in DOMAIN t[d].children /\ t[d].children[n] = c

\* Climbing from any set of inodes leads out of it, unless the root is in it.
Founded(t) == \A S \in SUBSET (Inodes \ {0}) : S # {} => \E i \in S : t[i].parent \notin S

TreeInv(t) ==
    /\ TreeFun(t)
    /\ t[0].used /\ t[0].kind = "dir"
    /\ \A i \in Inodes : t[i].size \in 0 .. FileMax /\ t[i].parent \in Inodes
    /\ \A i \in Inodes : ~t[i].used => t[i].parent = 0
    /\ \A d, n, c : Entry(t, d, n, c) =>
          c \in Inodes \ {0} /\ t[c].used /\ t[c].parent = d /\ t[d].used /\ t[d].kind = "dir"
    /\ \A d, n, m, c : Entry(t, d, n, c) /\ Entry(t, d, m, c) => n = m
    /\ \A i \in Inodes \ {0} : t[i].used => \E n : Entry(t, t[i].parent, n, i)
    /\ Founded(t)

KindsOK(t) == \A i \in Inodes : t[i].kind = "dir" \/ t[i].kind = "regular"

MountRec(used, ns, parent, point, root, ro, prop, refs) ==
    [used |-> used, ns |-> ns, parent |-> parent, point |-> point, root |-> root, ro |-> ro,
     prop |-> prop, refs |-> refs]
IsMount(r) ==
    \E used \in BOOLEAN : \E ns, parent, point, root, ro, prop, refs :
        r = MountRec(used, ns, parent, point, root, ro, prop, refs)
MountFun(m) == m = [i \in Mounts |-> m[i]] /\ \A i \in Mounts : IsMount(m[i])

\* A mount below another has the inode it covers for root; a namespace has its
\* own root mount, that of the first namespace is 0.
MountInv(ms, nss) ==
    /\ MountFun(ms)
    /\ \A m \in Mounts : ms[m].used => ms[m].parent = NoParent \/ ms[m].root = ms[m].point
    /\ \A m \in Mounts : ~ms[m].used => ms[m].refs = 0
    /\ \A m \in Mounts : ms[m].used /\ ms[m].ns = 0 /\ m # 0 =>
          ms[m].parent \in Mounts /\ ms[ms[m].parent].used /\ ms[ms[m].parent].ns = 0
    /\ 0 \in DOMAIN nss /\ nss[0] = 0
    /\ nss = [n \in DOMAIN nss |-> nss[n]] /\ DOMAIN nss \subseteq Namespaces
    /\ \A n \in DOMAIN nss : nss[n] \in Mounts /\ ms[nss[n]].used
                             /\ ms[nss[n]].ns = n /\ ms[nss[n]].parent = NoParent

FileRec(slot, mount, inode, offset, readable, writable) ==
    [slot |-> slot, mount |-> mount, inode |-> inode, offset |-> offset,
     readable |-> readable, writable |-> writable]
IsFile(f) ==
    \E slot, mount, inode, offset, readable, writable :
        f = FileRec(slot, mount, inode, offset, readable, writable)
Place(mount, inode) == [mount |-> mount, inode |-> inode]

\* An open file, with the tables it relies on.
FileOK(f, hs, t, ms) ==
    /\ IsFile(f)
    /\ f.slot \in DOMAIN hs /\ hs[f.slot] = Place(f.mount, f.inode)
    /\ f.offset \in 0 .. FileMax
    /\ f.inode \in Inodes /\ t[f.inode].used /\ t[f.inode].kind = "regular"
    /\ f.mount \in Mounts /\ ms[f.mount].used
    /\ f.writable => ~ms[f.mount].ro

FilesInv ==
    /\ \A f \in files : FileOK(f, handles, inodes, mounts)
    /\ \A f, g \in files : f.slot = g.slot => f = g
    /\ IsFiniteSet(files) /\ IsFiniteSet(DOMAIN handles)
    /\ openCount = Cardinality(files) /\ openCount = Cardinality(DOMAIN handles)
    /\ ~mounted => files = {}

NameRec(slot, mount, inode) == [slot |-> slot, mount |-> mount, inode |-> inode]
At(ds, m) == {s \in DOMAIN ds : ds[s].mount = m}
NameOK(d, ds, ms) ==
    /\ d = NameRec(d.slot, d.mount, d.inode)
    /\ d.slot \in DOMAIN ds /\ ds[d.slot] = Place(d.mount, d.inode)
    /\ d.mount \in Mounts /\ ms[d.mount].used

NamesInv ==
    /\ \A d \in names : NameOK(d, dentries, mounts)
    /\ \A d, e \in names : d.slot = e.slot => d = e
    /\ IsFiniteSet(DOMAIN dentries)
    /\ \A m \in Mounts : mounts[m].refs = Cardinality(At(dentries, m))
    /\ ~mounted => names = {}

VfsInv == TreeInv(inodes) /\ MountInv(mounts, namespaces) /\ FilesInv /\ NamesInv
                          /\ KindsOK(inodes) /\ mounted \in BOOLEAN

\* The tables of VfsAssumption have their slot 0, numbered from there.
LEMMA SizesOK ==
    /\ MaxInodes \in Nat \ {0} /\ MaxMounts \in Nat \ {0} /\ MaxNamespaces \in Nat \ {0}
    /\ MaxHandles \in Nat /\ MaxDentries \in Nat /\ FileMax \in Nat
    /\ 0 \in Inodes /\ 0 \in Mounts /\ 0 \in Namespaces /\ NoParent \notin Mounts
    /\ Inodes \subseteq Nat /\ Mounts \subseteq Nat /\ Namespaces \subseteq Nat
    /\ \A i \in Inodes : i # MaxInodes
  <1>1. /\ MaxInodes \in Nat \ {0} /\ MaxMounts \in Nat \ {0} /\ MaxNamespaces \in Nat \ {0}
        /\ MaxHandles \in Nat /\ MaxDentries \in Nat /\ FileMax \in Nat
    BY VfsAssumption
  <1> QED
    BY <1>1 DEF Inodes, Mounts, Namespaces, NoParent

\* The first free slot is a free slot.
LEMMA MinIn ==
    ASSUME NEW S \in SUBSET Nat, S # {}
    PROVE  Min(S) \in S
  <1>1. \E x \in S : \A y \in S : x <= y
    BY Zenon, LeastNumber
  <1> QED
    BY Zenon, <1>1 DEF Min

\* Where a walk in a namespace may be: at a mount of it and an inode in use.
Pos(m, i) == [err |-> "Ok", mount |-> m, inode |-> i]
MountsOf(ns) == {m \in Mounts : mounts[m].used /\ mounts[m].ns = ns}
InodesUsed == {i \in Inodes : inodes[i].used}
Positions(ns) == {Stop("NotDirectory"), Stop("NotFound")}
                 \cup {Pos(x[1], x[2]) : x \in MountsOf(ns) \X InodesUsed}

\* Reading a place of a walk.
LEMMA PosFields ==
    /\ \A m, i : Pos(m, i).err = "Ok" /\ Pos(m, i).mount = m /\ Pos(m, i).inode = i
    /\ \A e : Stop(e).err = e
  BY DEF Pos, Stop

\* A mount of the namespace and an inode in use are a place of a walk.
LEMMA PosIn ==
    ASSUME NEW ns, NEW m \in MountsOf(ns), NEW i \in InodesUsed
    PROVE  Pos(m, i) \in Positions(ns)
  <1>1. <<m, i>> \in MountsOf(ns) \X InodesUsed /\ <<m, i>>[1] = m /\ <<m, i>>[2] = i
    BY Zenon
  <1>2. PICK x : x \in MountsOf(ns) \X InodesUsed /\ x[1] = m /\ x[2] = i
    BY Zenon, <1>1
  <1> QED
    BY Zenon, <1>2 DEF Positions

\* resolve_mount, one component.
LEMMA DescendIn ==
    ASSUME TreeInv(inodes), MountInv(mounts, namespaces), NEW ns, NEW name,
           NEW at \in Positions(ns)
    PROVE  Descend(ns, at, name) \in Positions(ns)
  <1>1. Stop("NotDirectory") \in Positions(ns) /\ Stop("NotFound") \in Positions(ns)
    BY Zenon DEF Positions
  <1>2. CASE at.err # "Ok"
    BY Zenon, <1>2 DEF Descend
  <1>3. CASE at.err = "Ok"
    <2>1. at # Stop("NotDirectory") /\ at # Stop("NotFound")
      <3>1. "NotDirectory" # "Ok" /\ "NotFound" # "Ok"
        OBVIOUS
      <3> QED
        BY Zenon, <1>3, <3>1, PosFields
    <2>2. PICK m \in MountsOf(ns), i \in InodesUsed : at = Pos(m, i)
      <3>1. PICK x \in MountsOf(ns) \X InodesUsed : at = Pos(x[1], x[2])
        BY Zenon, <2>1 DEF Positions
      <3>2. x[1] \in MountsOf(ns) /\ x[2] \in InodesUsed
        BY Zenon
      <3> QED
        BY Zenon, <3>1, <3>2
    <2>3. at.mount = m /\ at.inode = i
      BY Zenon, <2>2, PosFields
    <2>4. CASE inodes[i].kind # "dir" \/ name \notin DOMAIN inodes[i].children
      BY <1>1, <1>3, <2>3, <2>4 DEF Descend
    <2>5. CASE inodes[i].kind = "dir" /\ name \in DOMAIN inodes[i].children
      <3>1. PICK c : c = inodes[i].children[name]
        BY Zenon
      <3>2. Entry(inodes, i, name, c)
        BY Zenon, <2>5, <3>1 DEF Entry, InodesUsed
      <3>3. c \in InodesUsed
        BY Zenon, <3>2 DEF TreeInv, InodesUsed
      <3>4. PICK covering : covering = MountChild(ns, m, c)
        BY Zenon
      <3>5. Descend(ns, at, name) = Cover(m, c, covering)
        BY Zenon, <1>3, <2>3, <2>5, <3>1, <3>4 DEF Descend
      <3>6. CASE covering = {}
        <4>1. Cover(m, c, covering) = Pos(m, c)
          BY Zenon, <3>6 DEF Cover, Pos
        <4> QED
          BY Zenon, <3>3, <3>5, <4>1, PosIn
      <3>7. CASE covering # {}
        <4>1. covering \in SUBSET Nat
          BY Zenon, <3>4, SizesOK DEF MountChild
        <4>2. PICK k : k = Min(covering)
          BY Zenon
        <4>3. k \in covering
          BY Zenon, <3>7, <4>1, <4>2, MinIn
        <4>4. k \in Mounts /\ mounts[k].used /\ mounts[k].ns = ns /\ mounts[k].parent = m /\ mounts[k].point = c
          BY Zenon, <3>4, <4>3 DEF MountChild
        <4>5. mounts[k].parent # NoParent
          BY Zenon, <4>4, SizesOK DEF MountsOf
        <4>6. mounts[k].root = c
          BY Zenon, <4>4, <4>5 DEF MountInv
        <4>7. Cover(m, c, covering) = Pos(k, c)
          BY Zenon, <3>7, <4>2, <4>6 DEF Cover, Pos
        <4>8. k \in MountsOf(ns)
          BY Zenon, <4>4 DEF MountsOf
        <4> QED
          BY Zenon, <3>3, <3>5, <4>7, <4>8, PosIn
      <3> QED
        BY Zenon, <3>6, <3>7
    <2> QED
      BY Zenon, <2>4, <2>5
  <1> QED
    BY Zenon, <1>2, <1>3

\* resolve_mount, the loop: a walk never leaves its namespace and the inodes in use.
LEMMA WalkIn ==
    ASSUME TreeInv(inodes), MountInv(mounts, namespaces), NEW ns \in DOMAIN namespaces,
           NEW c, Len(c) \in Nat
    PROVE  Walk(ns, c) \in Positions(ns)
  <1>1. PICK S : S = Positions(ns)
    BY Zenon
  <1>2. PICK n : n = Len(c) /\ n \in Nat
    BY Zenon
  <1>3. PICK s : s = Pos(namespaces[ns], 0)
    BY Zenon
  <1>4. s \in S
    <2>1. namespaces[ns] \in MountsOf(ns)
      BY Zenon DEF MountInv, MountsOf
    <2>2. 0 \in InodesUsed
      BY Zenon, SizesOK DEF TreeInv, InodesUsed
    <2> QED
      BY Zenon, <1>1, <1>3, <2>1, <2>2, PosIn
  <1>5. \A at \in S : \A k \in 1 .. n : Descend(ns, at, c[k]) \in S
    BY Zenon, <1>1, DescendIn
  <1>6. PICK g : g = [x \in S \X (1 .. n) |-> Descend(ns, x[1], c[x[2]])]
    BY Zenon
  <1>7. g \in [S \X (1 .. n) -> S]
    BY Zenon, <1>5, <1>6
  <1>8. \A at \in S : \A k \in 1 .. n : g[<<at, k>>] = Descend(ns, at, c[k])
    BY Zenon, <1>6
  <1>9. PICK f : IsRun(f, S, s, n, g)
    BY Zenon, <1>2, <1>4, <1>7, Iterates
  <1>10. \A k \in 0 .. n : k = 0 \/ (k \in 1 .. n /\ k - 1 \in 0 .. n)
    BY <1>2
  <1>11. f = [k \in 0 .. n |-> IF k = 0 THEN s ELSE Descend(ns, f[k - 1], c[k])]
    <2>1. \A k \in 0 .. n : (IF k = 0 THEN s ELSE g[<<f[k - 1], k>>])
                            = IF k = 0 THEN s ELSE Descend(ns, f[k - 1], c[k])
      BY Zenon, <1>8, <1>9, <1>10 DEF IsRun
    <2> QED
      BY Zenon, <1>9, <2>1 DEF IsRun
  <1>12. PICK w : w = CHOOSE walk : walk = [k \in 0 .. n |-> IF k = 0 THEN s ELSE Descend(ns, walk[k - 1], c[k])]
    BY Zenon
  <1>13. w = [k \in 0 .. n |-> IF k = 0 THEN s ELSE Descend(ns, w[k - 1], c[k])]
    BY Zenon, <1>11, <1>12
  <1>14. Walk(ns, c) = w[n]
    BY Zenon, <1>2, <1>3, <1>12 DEF Walk, Pos
  <1>15. w[0] \in S /\ \A k \in 1 .. n : w[k - 1] \in S => w[k] \in S
    <2>1. 0 \in 0 .. n /\ \A k \in 1 .. n : k \in 0 .. n /\ k # 0
      BY <1>2
    <2>2. w[0] = s /\ \A k \in 1 .. n : w[k] = Descend(ns, w[k - 1], c[k])
      BY Zenon, <1>13, <2>1
    <2> QED
      BY Zenon, <1>4, <1>5, <2>2
  <1>16. \A k \in 0 .. n : w[k] \in S
    BY Zenon, <1>2, <1>15, Stays
  <1>17. w[n] \in S
    BY <1>2, <1>16
  <1> QED
    BY Zenon, <1>1, <1>14, <1>17

\* A walk that found something stands at a mount and an inode in use.
LEMMA PositionOK ==
    ASSUME NEW ns, NEW at \in Positions(ns), at.err = "Ok"
    PROVE  at.mount \in MountsOf(ns) /\ at.inode \in InodesUsed
  <1>1. at # Stop("NotDirectory") /\ at # Stop("NotFound")
    <2>1. "NotDirectory" # "Ok" /\ "NotFound" # "Ok"
      OBVIOUS
    <2> QED
      BY Zenon, <2>1, PosFields
  <1>2. PICK m \in MountsOf(ns), i \in InodesUsed : at = Pos(m, i)
    <2>1. PICK x \in MountsOf(ns) \X InodesUsed : at = Pos(x[1], x[2])
      BY Zenon, <1>1 DEF Positions
    <2>2. x[1] \in MountsOf(ns) /\ x[2] \in InodesUsed
      BY Zenon
    <2> QED
      BY Zenon, <2>1, <2>2
  <1> QED
    BY Zenon, <1>2, PosFields

\* A path that resolves leads to an inode in use, under a mount of the namespace.
LEMMA ResolveOK ==
    ASSUME TreeInv(inodes), MountInv(mounts, namespaces), NEW ns, NEW path \in Paths,
           Resolve(ns, path).err = "Ok"
    PROVE  /\ ns \in DOMAIN namespaces
           /\ Resolve(ns, path).mount \in MountsOf(ns) /\ Resolve(ns, path).inode \in InodesUsed
  <1>1. Stop("InvalidPath").err # "Ok" /\ Stop("NamespaceNotFound").err # "Ok"
    <2>1. "InvalidPath" # "Ok" /\ "NamespaceNotFound" # "Ok"
      OBVIOUS
    <2> QED
      BY Zenon, <2>1, PosFields
  <1>2. PICK c : c = Parsed[path].names
    BY Zenon
  <1>3. Resolve(ns, path) = Walk(ns, c)
    BY Zenon, <1>1, <1>2 DEF Resolve
  <1>4. ns \in DOMAIN namespaces
    BY Zenon, <1>1, <1>3 DEF Walk
  <1>5. Len(c) \in Nat
    <2>1. c \in Seq(Names)
      BY Zenon, <1>2, ParsedNames
    <2> QED
      BY <2>1
  <1>6. PICK at : at = Resolve(ns, path)
    BY Zenon
  <1>7. at \in Positions(ns)
    BY Zenon, <1>3, <1>4, <1>5, <1>6, WalkIn
  <1>8. at.err = "Ok"
    BY Zenon, <1>6
  <1>9. at.mount \in MountsOf(ns) /\ at.inode \in InodesUsed
    BY Zenon, <1>7, <1>8, PositionOK
  <1> QED
    BY Zenon, <1>4, <1>6, <1>9

\* The directory of a path is one, and has a mount of the root namespace.
LEMMA ParentOK ==
    ASSUME TreeInv(inodes), MountInv(mounts, namespaces), NEW path \in Paths,
           ParentOf(path).err = "Ok"
    PROVE  /\ ParentOf(path).mount \in MountsOf(0) /\ ParentOf(path).inode \in InodesUsed
           /\ inodes[ParentOf(path).inode].kind = "dir"
  <1>1. Stop("InvalidPath").err # "Ok" /\ Stop("NotDirectory").err # "Ok"
    <2>1. "InvalidPath" # "Ok" /\ "NotDirectory" # "Ok"
      OBVIOUS
    <2> QED
      BY Zenon, <2>1, PosFields
  <1>2. PICK l : l = Parsed[path].names
    BY Zenon
  <1>3. l # <<>> /\ ParentOf(path) = OnlyDirectory(Walk(0, AllButLast(l)))
    BY Zenon, <1>1, <1>2 DEF ParentOf
  <1>4. PICK c : c = AllButLast(l)
    BY Zenon
  <1>5. Len(c) \in Nat
    <2>1. l \in Seq(Names)
      BY Zenon, <1>2, ParsedNames
    <2> QED
      BY <1>3, <1>4, <2>1 DEF AllButLast
  <1>6. PICK at : at = Walk(0, c)
    BY Zenon
  <1>7. at \in Positions(0)
    BY Zenon, <1>5, <1>6, WalkIn DEF MountInv
  <1>8. ParentOf(path) = at /\ at.err = "Ok" /\ inodes[at.inode].kind = "dir"
    BY Zenon, <1>1, <1>3, <1>4, <1>6 DEF OnlyDirectory
  <1>9. at.mount \in MountsOf(0) /\ at.inode \in InodesUsed
    BY Zenon, <1>7, <1>8, PositionOK
  <1> QED
    BY Zenon, <1>8, <1>9

-----------------------------------------------------------------------------
(* Changes of the tree *)

\* Reading the fields of an inode.
LEMMA NodeFields ==
    ASSUME NEW a, NEW b, NEW c, NEW d, NEW e, NEW f
    PROVE  /\ Node(a, b, c, d, e, f).used = a /\ Node(a, b, c, d, e, f).kind = b
           /\ Node(a, b, c, d, e, f).parent = c /\ Node(a, b, c, d, e, f).mode = d
           /\ Node(a, b, c, d, e, f).size = e /\ Node(a, b, c, d, e, f).children = f
  BY DEF Node

\* Writing one field of an inode.
LEMMA NodeExcept ==
    ASSUME NEW r, IsNode(r), NEW x
    PROVE  /\ [r EXCEPT !.children = x] = Node(r.used, r.kind, r.parent, r.mode, r.size, x)
           /\ [r EXCEPT !.parent = x] = Node(r.used, r.kind, x, r.mode, r.size, r.children)
           /\ [r EXCEPT !.mode = x] = Node(r.used, r.kind, r.parent, x, r.size, r.children)
           /\ [r EXCEPT !.size = x] = Node(r.used, r.kind, r.parent, r.mode, x, r.children)
           /\ r.used \in BOOLEAN
  <1>1. PICK a \in BOOLEAN : \E b, c, d, e, f : r = Node(a, b, c, d, e, f)
    BY Zenon DEF IsNode
  <1>2. PICK b, c, d, e, f : r = Node(a, b, c, d, e, f)
    BY Zenon, <1>1
  <1> QED
    BY <1>2 DEF Node

\* Inode::new and Inode::EMPTY.
LEMMA NewInodeIs ==
    /\ \A kind, dir : NewInode(kind, dir) = Node(TRUE, kind, dir, {"r", "w"}, 0, [n \in {} |-> 0])
    /\ FreeInode = Node(FALSE, "regular", 0, {}, 0, [n \in {} |-> 0])
  BY Zenon DEF NewInode, FreeInode, Node

\* A record with the fields of an inode is one.
LEMMA IsNodeNode ==
    ASSUME NEW a \in BOOLEAN, NEW b, NEW c, NEW d, NEW e, NEW f
    PROVE  IsNode(Node(a, b, c, d, e, f))
  BY Zenon DEF IsNode

\* u is t, but for inode d.
ButFor(u, t, d, r) ==
    /\ u = [i \in Inodes |-> u[i]]
    /\ u[d] = r
    /\ \A i \in Inodes : i # d => u[i] = t[i]

\* Writing one slot of the inode table.
LEMMA ButForExcept ==
    ASSUME NEW t, t = [i \in Inodes |-> t[i]], NEW d \in Inodes, NEW r
    PROVE  ButFor([t EXCEPT ![d] = r], t, d, r)
  <1>1. PICK u : u = [t EXCEPT ![d] = r]
    BY Zenon
  <1>2. u = [i \in Inodes |-> IF i = d THEN r ELSE t[i]]
    BY <1>1
  <1>3. ButFor(u, t, d, r)
    BY Zenon, <1>2 DEF ButFor
  <1> QED
    BY Zenon, <1>1, <1>3

\* The table stays a table of inodes.
LEMMA ButForKeeps ==
    ASSUME NEW t, TreeFun(t), NEW d \in Inodes, NEW r, IsNode(r), NEW u, ButFor(u, t, d, r)
    PROVE  TreeFun(u)
  BY Zenon DEF TreeFun, ButFor

\* add_child
Added(u, t, dir, name, i) ==
    /\ TreeFun(u)
    /\ \A j \in Inodes : /\ u[j].used = t[j].used /\ u[j].kind = t[j].kind
                         /\ u[j].parent = t[j].parent /\ u[j].size = t[j].size
    /\ \A d, n, c : Entry(u, d, n, c) <=> Entry(t, d, n, c) \/ (d = dir /\ n = name /\ c = i)

\* add_child adds one entry, and leaves the others and every other inode alone.
LEMMA AddChildIs ==
    ASSUME NEW t, TreeFun(t), NEW dir \in Inodes, NEW name, name \notin DOMAIN t[dir].children, NEW i
    PROVE  Added(AddChild(t, dir, name, i), t, dir, name, i)
  <1>1. PICK u : u = AddChild(t, dir, name, i)
    BY Zenon
  <1>2. PICK old : old = t[dir].children
    BY Zenon
  <1>3. PICK new : new = [n \in DOMAIN old \cup {name} |-> IF n = name THEN i ELSE old[n]]
    BY Zenon
  <1>4. PICK r : r = Node(t[dir].used, t[dir].kind, t[dir].parent, t[dir].mode, t[dir].size, new)
    BY Zenon
  <1>5. u = [t EXCEPT ![dir] = [t[dir] EXCEPT !.children = new]]
    BY Zenon, <1>1, <1>2, <1>3 DEF AddChild
  <1>6. ButFor(u, t, dir, r) /\ IsNode(r)
    <2>0. t[dir].used \in BOOLEAN
      BY Zenon, NodeExcept DEF TreeFun
    <2>1. [t[dir] EXCEPT !.children = new] = r
      BY Zenon, <1>4, NodeExcept DEF TreeFun
    <2>2. t = [j \in Inodes |-> t[j]]
      BY Zenon DEF TreeFun
    <2>3. u = [t EXCEPT ![dir] = r]
      BY Zenon, <1>5, <2>1
    <2>4. ButFor([t EXCEPT ![dir] = r], t, dir, r)
      BY Zenon, <2>2, ButForExcept
    <2>5. IsNode(r)
      BY Zenon, <1>4, <2>0 DEF IsNode
    <2> QED
      BY Zenon, <2>3, <2>4, <2>5
  <1>7. TreeFun(u)
    BY Zenon, <1>6, ButForKeeps
  <1>8. r.used = t[dir].used /\ r.kind = t[dir].kind /\ r.parent = t[dir].parent /\ r.size = t[dir].size
        /\ r.children = new
    BY <1>4 DEF Node
  <1>9. \A j \in Inodes : /\ u[j].used = t[j].used /\ u[j].kind = t[j].kind
                          /\ u[j].parent = t[j].parent /\ u[j].size = t[j].size
    BY Zenon, <1>6, <1>8 DEF ButFor
  <1>10. ASSUME NEW d, NEW n, NEW c
         PROVE  Entry(u, d, n, c) <=> Entry(t, d, n, c) \/ (d = dir /\ n = name /\ c = i)
    <2>1. CASE d = dir
      <3>1. u[d].children = new
        BY Zenon, <1>6, <1>8, <2>1 DEF ButFor
      <3>2. /\ n \in DOMAIN new <=> n \in DOMAIN old \/ n = name
            /\ n \in DOMAIN old => n # name /\ new[n] = old[n]
            /\ n = name => new[n] = i
        BY Zenon, <1>2, <1>3
      <3> QED
        BY Zenon, <1>2, <2>1, <3>1, <3>2 DEF Entry
    <2>2. CASE d # dir
      BY Zenon, <1>6, <2>2 DEF ButFor, Entry
    <2> QED
      BY Zenon, <2>1, <2>2
  <1> QED
    BY Zenon, <1>1, <1>7, <1>9, <1>10 DEF Added

\* remove_child
Taken(u, t, dir, name) ==
    /\ TreeFun(u)
    /\ \A j \in Inodes : /\ u[j].used = t[j].used /\ u[j].kind = t[j].kind
                         /\ u[j].parent = t[j].parent /\ u[j].size = t[j].size
    /\ \A d, n, c : Entry(u, d, n, c) <=> Entry(t, d, n, c) /\ ~(d = dir /\ n = name)

\* remove_child takes one entry, and leaves the others and every other inode alone.
LEMMA RemoveChildIs ==
    ASSUME NEW t, TreeFun(t), NEW dir \in Inodes, NEW name
    PROVE  Taken(RemoveChild(t, dir, name), t, dir, name)
  <1>1. PICK u : u = RemoveChild(t, dir, name)
    BY Zenon
  <1>2. PICK old : old = t[dir].children
    BY Zenon
  <1>3. PICK new : new = [n \in DOMAIN old \ {name} |-> old[n]]
    BY Zenon
  <1>4. PICK r : r = Node(t[dir].used, t[dir].kind, t[dir].parent, t[dir].mode, t[dir].size, new)
    BY Zenon
  <1>5. u = [t EXCEPT ![dir] = [t[dir] EXCEPT !.children = new]]
    BY Zenon, <1>1, <1>2, <1>3 DEF RemoveChild
  <1>6. ButFor(u, t, dir, r) /\ IsNode(r)
    <2>0. t[dir].used \in BOOLEAN
      BY Zenon, NodeExcept DEF TreeFun
    <2>1. [t[dir] EXCEPT !.children = new] = r
      BY Zenon, <1>4, NodeExcept DEF TreeFun
    <2>2. t = [j \in Inodes |-> t[j]]
      BY Zenon DEF TreeFun
    <2>3. u = [t EXCEPT ![dir] = r]
      BY Zenon, <1>5, <2>1
    <2>4. ButFor([t EXCEPT ![dir] = r], t, dir, r)
      BY Zenon, <2>2, ButForExcept
    <2>5. IsNode(r)
      BY Zenon, <1>4, <2>0 DEF IsNode
    <2> QED
      BY Zenon, <2>3, <2>4, <2>5
  <1>7. TreeFun(u)
    BY Zenon, <1>6, ButForKeeps
  <1>8. r.used = t[dir].used /\ r.kind = t[dir].kind /\ r.parent = t[dir].parent /\ r.size = t[dir].size
        /\ r.children = new
    BY <1>4 DEF Node
  <1>9. \A j \in Inodes : /\ u[j].used = t[j].used /\ u[j].kind = t[j].kind
                          /\ u[j].parent = t[j].parent /\ u[j].size = t[j].size
    BY Zenon, <1>6, <1>8 DEF ButFor
  <1>10. ASSUME NEW d, NEW n, NEW c
         PROVE  Entry(u, d, n, c) <=> Entry(t, d, n, c) /\ ~(d = dir /\ n = name)
    <2>1. CASE d = dir
      <3>1. u[d].children = new
        BY Zenon, <1>6, <1>8, <2>1 DEF ButFor
      <3>2. /\ n \in DOMAIN new <=> n \in DOMAIN old /\ n # name
            /\ n \in DOMAIN new => new[n] = old[n]
        BY Zenon, <1>3
      <3> QED
        BY Zenon, <1>2, <2>1, <3>1, <3>2 DEF Entry
    <2>2. CASE d # dir
      BY Zenon, <1>6, <2>2 DEF ButFor, Entry
    <2> QED
      BY Zenon, <2>1, <2>2
  <1> QED
    BY Zenon, <1>1, <1>7, <1>9, <1>10 DEF Taken

\* u is a tree with what t has, but for i.
TreeTo(u, t, i) ==
    /\ TreeInv(u)
    /\ \A j \in Inodes : j # i => u[j].used = t[j].used /\ u[j].kind = t[j].kind
CreatedOK(u, t, i, kind) ==
    TreeTo(u, t, i) /\ i \in Inodes /\ ~t[i].used /\ u[i].used /\ u[i].kind = kind

\* A change of one inode keeps the kinds.
LEMMA KindsTo ==
    ASSUME NEW u, NEW t, NEW i, TreeTo(u, t, i), KindsOK(t),
           i \in Inodes => u[i].kind = "dir" \/ u[i].kind = "regular"
    PROVE  KindsOK(u)
  BY Zenon DEF TreeTo, KindsOK

\* create_node_at
LEMMA CreateKeeps ==
    ASSUME NEW t, TreeInv(t), NEW dir \in Inodes, t[dir].used, t[dir].kind = "dir",
           NEW name, name \notin DOMAIN t[dir].children, NEW kind,
           NEW i \in Inodes, ~t[i].used,
           NEW v, ButFor(v, t, i, NewInode(kind, dir)), NEW u, Added(u, v, dir, name, i)
    PROVE  CreatedOK(u, t, i, kind)
  <1>1. PICK r : r = NewInode(kind, dir)
    BY Zenon
  <1>3. /\ r.used = TRUE /\ r.kind = kind /\ r.parent = dir /\ r.size = 0 /\ DOMAIN r.children = {}
    BY Zenon, <1>1 DEF NewInode
  <1>4. ButFor(v, t, i, r)
    BY Zenon, <1>1
  <1>7. dir # i /\ i # 0
    BY Zenon DEF TreeInv
  <1>10. /\ TreeFun(u)
         /\ \A j \in Inodes : u[j].used = v[j].used /\ u[j].kind = v[j].kind
                              /\ u[j].parent = v[j].parent /\ u[j].size = v[j].size
         /\ \A d, n, c : Entry(u, d, n, c) <=> Entry(v, d, n, c) \/ (d = dir /\ n = name /\ c = i)
    BY Zenon DEF Added
  <1>11. ASSUME NEW d, NEW n, NEW c PROVE Entry(v, d, n, c) <=> Entry(t, d, n, c)
    <2>1. CASE d = i
      <3>1. ~Entry(t, d, n, c)
        BY Zenon, <2>1 DEF TreeInv
      <3>2. DOMAIN v[d].children = {}
        BY Zenon, <1>3, <1>4, <2>1 DEF ButFor
      <3> QED
        BY Zenon, <3>1, <3>2 DEF Entry
    <2>2. CASE d # i
      BY Zenon, <1>4, <2>2 DEF ButFor, Entry
    <2> QED
      BY Zenon, <2>1, <2>2
  <1>12. \A d, n, c : Entry(u, d, n, c) <=> Entry(t, d, n, c) \/ (d = dir /\ n = name /\ c = i)
    BY Zenon, <1>10, <1>11
  <1>13. u[i].used /\ u[i].kind = kind /\ u[i].parent = dir /\ u[i].size = 0
    BY Zenon, <1>3, <1>4, <1>10 DEF ButFor
  <1>14. \A j \in Inodes : j # i => u[j].used = t[j].used /\ u[j].kind = t[j].kind
                                    /\ u[j].parent = t[j].parent /\ u[j].size = t[j].size
    BY Zenon, <1>4, <1>10 DEF ButFor
  <1>15. TreeInv(u)
    <2>1. u[0].used /\ u[0].kind = "dir"
      BY Zenon, <1>7, <1>14, SizesOK DEF TreeInv
    <2>2. ASSUME NEW j \in Inodes
          PROVE  u[j].size \in 0 .. FileMax /\ u[j].parent \in Inodes /\ (~u[j].used => u[j].parent = 0)
      <3>1. 0 \in 0 .. FileMax
        BY SizesOK
      <3>2. CASE j = i
        BY Zenon, <1>13, <3>1, <3>2
      <3>3. CASE j # i
        <4>1. t[j].size \in 0 .. FileMax /\ t[j].parent \in Inodes /\ (~t[j].used => t[j].parent = 0)
          BY Zenon DEF TreeInv
        <4> QED
          BY Zenon, <1>14, <3>3, <4>1
      <3> QED
        BY Zenon, <3>2, <3>3
    <2>3. ASSUME NEW d, NEW n, NEW c, Entry(u, d, n, c)
          PROVE  c \in Inodes \ {0} /\ u[c].used /\ u[c].parent = d /\ u[d].used /\ u[d].kind = "dir"
      <3>1. CASE Entry(t, d, n, c)
        <4>1. c \in Inodes \ {0} /\ t[c].used /\ t[c].parent = d /\ t[d].used /\ t[d].kind = "dir"
          BY Zenon, <3>1 DEF TreeInv
        <4>2. c # i /\ d # i /\ d \in Inodes
          BY Zenon, <4>1, <3>1 DEF Entry
        <4> QED
          BY Zenon, <1>14, <4>1, <4>2
      <3>2. CASE d = dir /\ n = name /\ c = i
        BY Zenon, <1>7, <1>13, <1>14, <3>2
      <3>3. Entry(t, d, n, c) \/ (d = dir /\ n = name /\ c = i)
        BY Zenon, <1>12, <2>3
      <3> QED
        BY Zenon, <3>1, <3>2, <3>3
    <2>4. ASSUME NEW d, NEW n, NEW m, NEW c, Entry(u, d, n, c), Entry(u, d, m, c) PROVE n = m
      <3>1. \A x, y : ~Entry(t, x, y, i)
        BY Zenon DEF TreeInv
      <3>2. Entry(t, d, n, c) /\ Entry(t, d, m, c) => n = m
        BY Zenon DEF TreeInv
      <3> QED
        <4>1. Entry(t, d, n, c) \/ (d = dir /\ n = name /\ c = i)
          BY Zenon, <1>12, <2>4
        <4>2. Entry(t, d, m, c) \/ (d = dir /\ m = name /\ c = i)
          BY Zenon, <1>12, <2>4
        <4> QED
          BY Zenon, <3>1, <3>2, <4>1, <4>2
    <2>5. ASSUME NEW j \in Inodes \ {0}, u[j].used PROVE \E n : Entry(u, u[j].parent, n, j)
      <3>1. CASE j = i
        BY Zenon, <1>12, <1>13, <3>1
      <3>2. CASE j # i
        BY Zenon, <1>12, <1>14, <2>5, <3>2 DEF TreeInv
      <3> QED
        BY Zenon, <3>1, <3>2
    <2>6. Founded(u)
      <3> SUFFICES ASSUME NEW S \in SUBSET (Inodes \ {0}), S # {}, \A j \in S : u[j].parent \in S
                   PROVE  FALSE
        BY Zenon DEF Founded
      <3>1. PICK R : R = S \ {i}
        BY Zenon
      <3>2. R # {}
        BY Zenon, <1>7, <1>13, <3>1
      <3>3. R \in SUBSET (Inodes \ {0})
        BY Zenon, <3>1
      <3>4. PICK j \in R : t[j].parent \notin R
        BY Zenon, <3>2, <3>3 DEF TreeInv, Founded
      <3>5. j \in Inodes /\ j # i /\ j # 0 /\ j \in S
        BY Zenon, <3>1
      <3>6. t[j].parent \in S
        BY Zenon, <1>14, <3>5
      <3>7. t[j].parent = i
        BY Zenon, <3>1, <3>4, <3>6
      <3>8. t[j].used
        BY Zenon, <1>7, <3>5, <3>7 DEF TreeInv
      <3>9. PICK n : Entry(t, i, n, j)
        BY Zenon, <3>5, <3>7, <3>8 DEF TreeInv
      <3> QED
        BY Zenon, <3>9 DEF TreeInv
    <2> QED
      BY Zenon, <1>10, <2>1, <2>2, <2>3, <2>4, <2>5, <2>6 DEF TreeInv
  <1> QED
    BY Zenon, <1>13, <1>14, <1>15 DEF CreatedOK, TreeTo

\* unlink, remove_dir
LEMMA FreeKeeps ==
    ASSUME NEW t, TreeInv(t), NEW dir, NEW name, NEW c, Entry(t, dir, name, c),
           \A n, x : ~Entry(t, c, n, x),
           NEW v, Taken(v, t, dir, name), NEW u, ButFor(u, v, c, FreeInode)
    PROVE  TreeTo(u, t, c)
  <1>1. /\ c \in Inodes \ {0} /\ t[c].used /\ t[c].parent = dir /\ t[dir].used /\ t[dir].kind = "dir"
        /\ dir \in Inodes /\ dir # c
    <2>1. dir \in Inodes
      BY Zenon DEF Entry
    <2>2. dir # c
      BY Zenon
    <2> QED
      BY Zenon, <2>1, <2>2 DEF TreeInv
  <1>2. PICK r : r = FreeInode
    BY Zenon
  <1>3. ~r.used /\ r.parent = 0 /\ r.size = 0 /\ DOMAIN r.children = {}
    BY Zenon, <1>2 DEF FreeInode
  <1>4. u[c] = r /\ \A j \in Inodes : j # c => u[j] = v[j]
    BY Zenon, <1>2 DEF ButFor
  <1>5. \A j \in Inodes : j # c => u[j].used = t[j].used /\ u[j].kind = t[j].kind
                                    /\ u[j].parent = t[j].parent /\ u[j].size = t[j].size
    BY Zenon, <1>4 DEF Taken
  <1>6. ~u[c].used /\ u[c].parent = 0 /\ u[c].size = 0
    BY Zenon, <1>3, <1>4
  <1>7. ASSUME NEW d, NEW n, NEW x
        PROVE  Entry(u, d, n, x) <=> Entry(t, d, n, x) /\ ~(d = dir /\ n = name)
    <2>1. CASE d = c
      <3>1. DOMAIN u[d].children = {}
        BY Zenon, <1>3, <1>4, <2>1
      <3>2. ~Entry(u, d, n, x)
        BY Zenon, <3>1 DEF Entry
      <3> QED
        BY Zenon, <2>1, <3>2
    <2>2. CASE d # c
      <3>1. Entry(u, d, n, x) <=> Entry(v, d, n, x)
        BY Zenon, <1>4, <2>2 DEF Entry
      <3> QED
        BY Zenon, <3>1 DEF Taken
    <2> QED
      BY Zenon, <2>1, <2>2
  <1>8. TreeFun(u)
    <2>1. TreeFun(v)
      BY Zenon DEF Taken
    <2>2. IsNode(FreeInode)
      <3>1. FALSE \in BOOLEAN
        BY Zenon
      <3> QED
        BY Zenon, <3>1, NewInodeIs DEF IsNode
    <2> QED
      BY Zenon, <1>1, <2>1, <2>2, ButForKeeps
  <1>9. TreeInv(u)
    <2>1. u[0].used /\ u[0].kind = "dir"
      BY Zenon, <1>1, <1>5, SizesOK DEF TreeInv
    <2>2. ASSUME NEW j \in Inodes
          PROVE  u[j].size \in 0 .. FileMax /\ u[j].parent \in Inodes /\ (~u[j].used => u[j].parent = 0)
      <3>1. 0 \in 0 .. FileMax /\ 0 \in Inodes
        BY SizesOK
      <3>2. CASE j = c
        BY Zenon, <1>6, <3>1, <3>2
      <3>3. CASE j # c
        <4>1. t[j].size \in 0 .. FileMax /\ t[j].parent \in Inodes /\ (~t[j].used => t[j].parent = 0)
          BY Zenon DEF TreeInv
        <4> QED
          BY Zenon, <1>5, <3>3, <4>1
      <3> QED
        BY Zenon, <3>2, <3>3
    <2>3. ASSUME NEW d, NEW n, NEW x, Entry(u, d, n, x)
          PROVE  x \in Inodes \ {0} /\ u[x].used /\ u[x].parent = d /\ u[d].used /\ u[d].kind = "dir"
      <3>1. Entry(t, d, n, x) /\ ~(d = dir /\ n = name)
        BY Zenon, <1>7, <2>3
      <3>2. x \in Inodes \ {0} /\ t[x].used /\ t[x].parent = d /\ t[d].used /\ t[d].kind = "dir"
        BY Zenon, <3>1 DEF TreeInv
      <3>3. x # c
        <4>1. x = c => d = dir
          BY Zenon, <1>1, <3>2
        <4>2. Entry(t, d, n, c) /\ Entry(t, d, name, c) => n = name
          BY Zenon DEF TreeInv
        <4> QED
          BY Zenon, <3>1, <4>1, <4>2
      <3>4. d # c /\ d \in Inodes
        BY Zenon, <3>1 DEF Entry
      <3> QED
        BY Zenon, <1>5, <3>2, <3>3, <3>4
    <2>4. ASSUME NEW d, NEW n, NEW m, NEW x, Entry(u, d, n, x), Entry(u, d, m, x) PROVE n = m
      <3>1. Entry(t, d, n, x) /\ Entry(t, d, m, x) => n = m
        BY Zenon DEF TreeInv
      <3>2. Entry(t, d, n, x) /\ ~(d = dir /\ n = name)
        BY Zenon, <1>7, <2>4
      <3>3. Entry(t, d, m, x) /\ ~(d = dir /\ m = name)
        BY Zenon, <1>7, <2>4
      <3> QED
        BY Zenon, <3>1, <3>2, <3>3
    <2>5. ASSUME NEW j \in Inodes \ {0}, u[j].used PROVE \E n : Entry(u, u[j].parent, n, j)
      <3>1. j # c
        BY Zenon, <1>6, <2>5
      <3>2. PICK n : Entry(t, t[j].parent, n, j)
        BY Zenon, <1>5, <2>5, <3>1 DEF TreeInv
      <3>3. ~(t[j].parent = dir /\ n = name)
        BY Zenon, <3>1, <3>2 DEF Entry
      <3>4. Entry(u, t[j].parent, n, j)
        BY Zenon, <1>7, <3>2, <3>3
      <3> QED
        BY Zenon, <1>5, <3>1, <3>4
    <2>6. Founded(u)
      <3> SUFFICES ASSUME NEW S \in SUBSET (Inodes \ {0}), S # {}
                   PROVE  \E j \in S : u[j].parent \notin S
        BY Zenon DEF Founded
      <3>1. PICK j \in S : t[j].parent \notin S
        BY Zenon DEF TreeInv, Founded
      <3>2. 0 \notin S
        BY Zenon
      <3>3. u[j].parent \notin S
        BY Zenon, <1>5, <1>6, <3>1, <3>2
      <3> QED
        BY Zenon, <3>3
    <2> QED
      BY Zenon, <1>8, <2>1, <2>2, <2>3, <2>4, <2>5, <2>6 DEF TreeInv
  <1> QED
    BY Zenon, <1>5, <1>9 DEF TreeTo

\* chmod, write_handle: only the mode or the size of an inode changes.
LEMMA PlainKeeps ==
    ASSUME NEW t, TreeInv(t), NEW i \in Inodes, NEW mode, NEW size \in 0 .. FileMax, NEW u,
           ButFor(u, t, i, Node(t[i].used, t[i].kind, t[i].parent, mode, size, t[i].children))
    PROVE  TreeTo(u, t, MaxInodes)
  <1>1. PICK r : r = Node(t[i].used, t[i].kind, t[i].parent, mode, size, t[i].children)
    BY Zenon
  <1>2. /\ r.used = t[i].used /\ r.kind = t[i].kind /\ r.parent = t[i].parent /\ r.size = size
        /\ r.children = t[i].children
    BY Zenon, <1>1 DEF Node
  <1>3. u[i] = r /\ \A j \in Inodes : j # i => u[j] = t[j]
    BY Zenon, <1>1 DEF ButFor
  <1>4. \A j \in Inodes : /\ u[j].used = t[j].used /\ u[j].kind = t[j].kind /\ u[j].parent = t[j].parent
                          /\ u[j].children = t[j].children
    BY Zenon, <1>2, <1>3
  <1>5. \A j \in Inodes : u[j].size \in 0 .. FileMax
    BY Zenon, <1>2, <1>3 DEF TreeInv
  <1>6. TreeFun(u)
    <2>1. t[i].used \in BOOLEAN
      BY Zenon, NodeExcept DEF TreeInv, TreeFun
    <2>2. IsNode(r)
      BY Zenon, <1>1, <2>1 DEF IsNode
    <2>3. TreeFun(t) /\ ButFor(u, t, i, r)
      BY Zenon, <1>1 DEF TreeInv
    <2> QED
      BY Zenon, <2>2, <2>3, ButForKeeps
  <1>7. \A d, n, c : Entry(u, d, n, c) <=> Entry(t, d, n, c)
    BY Zenon, <1>4 DEF Entry
  <1>8. Founded(u)
    BY Zenon, <1>4 DEF TreeInv, Founded
  <1>9. /\ u[0].used /\ u[0].kind = "dir"
        /\ \A j \in Inodes : u[j].parent \in Inodes /\ (~u[j].used => u[j].parent = 0)
    BY Zenon, <1>4, SizesOK DEF TreeInv
  <1>10. ASSUME NEW d, NEW n, NEW c, Entry(u, d, n, c)
         PROVE  c \in Inodes \ {0} /\ u[c].used /\ u[c].parent = d /\ u[d].used /\ u[d].kind = "dir"
    <2>0. d \in Inodes
      BY Zenon, <1>10 DEF Entry
    <2>1. Entry(t, d, n, c)
      BY Zenon, <1>7, <1>10
    <2>2. c \in Inodes \ {0} /\ t[c].used /\ t[c].parent = d /\ t[d].used /\ t[d].kind = "dir"
      BY Zenon, <2>1 DEF TreeInv
    <2> QED
      BY Zenon, <1>4, <2>0, <2>2
  <1>11. ASSUME NEW d, NEW n, NEW m, NEW c, Entry(u, d, n, c), Entry(u, d, m, c) PROVE n = m
    <2>1. Entry(t, d, n, c)
      BY Zenon, <1>7, <1>11
    <2>2. Entry(t, d, m, c)
      BY Zenon, <1>7, <1>11
    <2> QED
      BY Zenon, <2>1, <2>2 DEF TreeInv
  <1>12. ASSUME NEW j \in Inodes \ {0}, u[j].used PROVE \E n : Entry(u, u[j].parent, n, j)
    BY Zenon, <1>4, <1>7, <1>12 DEF TreeInv
  <1> QED
    BY Zenon, <1>4, <1>5, <1>6, <1>8, <1>9, <1>10, <1>11, <1>12 DEF TreeInv, TreeTo

\* is_descendant: the climb from i, n steps long.
Climbs(w, i, n) ==
    /\ w[0] = i /\ \A k \in 1 .. n : w[k] = Above(w[k - 1])
    /\ \A k \in 0 .. n : w[k] \in Inodes
    /\ Climb(i) = {w[k] : k \in 0 .. n}

\* is_descendant: the climb from an inode goes from parent to parent.
LEMMA ClimbIs ==
    ASSUME TreeInv(inodes), NEW i \in Inodes
    PROVE  \E w : Climbs(w, i, MaxInodes - 1)
  <1>1. PICK n : n = MaxInodes - 1
    BY Zenon
  <1>2. n \in Nat
    BY <1>1, SizesOK
  <1>3. \A j \in Inodes : Above(j) \in Inodes
    BY Zenon, SizesOK DEF Above, TreeInv
  <1>4. PICK g : g = [x \in Inodes \X (1 .. n) |-> Above(x[1])]
    BY Zenon
  <1>5. g \in [Inodes \X (1 .. n) -> Inodes]
    BY Zenon, <1>3, <1>4
  <1>6. \A j \in Inodes : \A k \in 1 .. n : g[<<j, k>>] = Above(j)
    BY Zenon, <1>4
  <1>7. PICK f : IsRun(f, Inodes, i, n, g)
    BY Zenon, <1>2, <1>5, Iterates
  <1>8. \A k \in 0 .. n : k = 0 \/ (k \in 1 .. n /\ k - 1 \in 0 .. n)
    BY <1>2
  <1>9. f = [k \in 0 .. n |-> IF k = 0 THEN i ELSE Above(f[k - 1])]
    <2>1. \A k \in 0 .. n : (IF k = 0 THEN i ELSE g[<<f[k - 1], k>>]) = IF k = 0 THEN i ELSE Above(f[k - 1])
      BY Zenon, <1>6, <1>7, <1>8 DEF IsRun
    <2> QED
      BY Zenon, <1>7, <2>1 DEF IsRun
  <1>10. PICK w : w = CHOOSE up : up = [k \in 0 .. n |-> IF k = 0 THEN i ELSE Above(up[k - 1])]
    BY Zenon
  <1>11. w = [k \in 0 .. n |-> IF k = 0 THEN i ELSE Above(w[k - 1])]
    BY Zenon, <1>9, <1>10
  <1>12. Climb(i) = {w[k] : k \in 0 .. n}
    BY Zenon, <1>1, <1>10 DEF Climb
  <1>13. 0 \in 0 .. n /\ \A k \in 1 .. n : k \in 0 .. n /\ k # 0
    BY <1>2
  <1>14. w[0] = i /\ \A k \in 1 .. n : w[k] = Above(w[k - 1])
    BY Zenon, <1>11, <1>13
  <1>15. \A k \in 0 .. n : w[k] \in Inodes
    <2>1. w[0] \in Inodes /\ \A k \in 1 .. n : w[k - 1] \in Inodes => w[k] \in Inodes
      BY Zenon, <1>3, <1>14
    <2> QED
      BY Zenon, <1>2, <2>1, Stays
  <1> QED
    BY Zenon, <1>1, <1>12, <1>14, <1>15 DEF Climbs

\* Climbing from new leads to the root without passing i.
Escapes(t, i, new) ==
    \A S \in SUBSET (Inodes \ {0}) : new \in S => \E j \in S : j # i /\ t[j].parent \notin S

\* rename asks is_descendant for a directory; below a file there is nothing.
LEMMA MayMoveEscapes ==
    ASSUME TreeInv(inodes), NEW i \in Inodes, NEW new \in Inodes, inodes[new].kind = "dir",
           MayMove(i, new)
    PROVE  Escapes(inodes, i, new)
  <1> SUFFICES ASSUME NEW S \in SUBSET (Inodes \ {0}), new \in S,
                      \A j \in S : j # i => inodes[j].parent \in S
               PROVE  FALSE
    BY Zenon DEF Escapes
  <1>1. CASE inodes[i].kind = "dir"
    <2>1. i \notin Climb(new) /\ 0 \in Climb(new)
      BY Zenon, <1>1 DEF MayMove, IsDescendant
    <2>2. PICK n : n = MaxInodes - 1
      BY Zenon
    <2>3. n \in Nat
      BY <2>2, SizesOK
    <2>4. PICK w : Climbs(w, new, n)
      BY Zenon, <2>2, ClimbIs
    <2>5. ASSUME NEW k \in 1 .. n, w[k - 1] \in S PROVE w[k] \in S
      <3>1. k - 1 \in 0 .. n
        BY <2>3
      <3>2. w[k - 1] # i
        BY Zenon, <2>1, <2>4, <3>1 DEF Climbs
      <3>3. w[k - 1] # 0
        BY Zenon, <2>5
      <3>4. w[k] = inodes[w[k - 1]].parent
        BY Zenon, <2>4, <3>3 DEF Above, Climbs
      <3> QED
        BY Zenon, <2>5, <3>2, <3>4
    <2>6. \A k \in 0 .. n : w[k] \in S
      <3>1. w[0] \in S
        BY Zenon, <2>4 DEF Climbs
      <3> QED
        BY Zenon, <2>3, <2>5, <3>1, Stays
    <2>7. 0 \in S
      BY Zenon, <2>1, <2>4, <2>6 DEF Climbs
    <2> QED
      BY Zenon, <2>7
  <1>2. CASE inodes[i].kind # "dir"
    <2>1. PICK R : R = S \ {i}
      BY Zenon
    <2>2. R \in SUBSET (Inodes \ {0}) /\ R # {}
      BY Zenon, <1>2, <2>1
    <2>3. PICK j \in R : inodes[j].parent \notin R
      BY Zenon, <2>2 DEF TreeInv, Founded
    <2>4. j \in Inodes \ {0} /\ inodes[j].parent \in S /\ inodes[j].parent = i
      BY Zenon, <2>1, <2>3
    <2>5. i # 0
      BY Zenon, <2>4
    <2>6. inodes[j].used
      BY Zenon, <2>4, <2>5 DEF TreeInv
    <2>7. PICK n : Entry(inodes, i, n, j)
      BY Zenon, <2>4, <2>6 DEF TreeInv
    <2> QED
      BY Zenon, <1>2, <2>7 DEF TreeInv
  <1> QED
    BY Zenon, <1>1, <1>2

\* rename
LEMMA MoveKeeps ==
    ASSUME NEW t, TreeInv(t), NEW old, NEW oldName, NEW i, Entry(t, old, oldName, i),
           NEW new \in Inodes, t[new].used, t[new].kind = "dir", NEW newName,
           newName \notin DOMAIN t[new].children, Escapes(t, i, new),
           NEW v, Taken(v, t, old, oldName), NEW w, Added(w, v, new, newName, i),
           NEW u, ButFor(u, w, i, Node(w[i].used, w[i].kind, new, w[i].mode, w[i].size, w[i].children))
    PROVE  TreeTo(u, t, MaxInodes)
  <1>1. i \in Inodes \ {0} /\ t[i].used /\ t[i].parent = old /\ t[old].used /\ t[old].kind = "dir"
    BY Zenon DEF TreeInv
  <1>2. PICK r : r = Node(w[i].used, w[i].kind, new, w[i].mode, w[i].size, w[i].children)
    BY Zenon
  <1>3. /\ r.used = w[i].used /\ r.kind = w[i].kind /\ r.parent = new /\ r.size = w[i].size
        /\ r.children = w[i].children
    BY Zenon, <1>2 DEF Node
  <1>4. u[i] = r /\ \A j \in Inodes : j # i => u[j] = w[j]
    BY Zenon, <1>2 DEF ButFor
  <1>5. /\ \A j \in Inodes : u[j].used = w[j].used /\ u[j].kind = w[j].kind /\ u[j].size = w[j].size
                             /\ u[j].children = w[j].children
        /\ u[i].parent = new
        /\ \A j \in Inodes : j # i => u[j].parent = w[j].parent
    BY Zenon, <1>3, <1>4
  <1>6. \A j \in Inodes : /\ w[j].used = t[j].used /\ w[j].kind = t[j].kind
                          /\ w[j].parent = t[j].parent /\ w[j].size = t[j].size
    BY Zenon DEF Added, Taken
  <1>7. /\ \A j \in Inodes : u[j].used = t[j].used /\ u[j].kind = t[j].kind /\ u[j].size = t[j].size
        /\ \A j \in Inodes : j # i => u[j].parent = t[j].parent
    BY Zenon, <1>5, <1>6
  <1>8. ASSUME NEW d, NEW n, NEW c
        PROVE  Entry(u, d, n, c) <=> \/ Entry(t, d, n, c) /\ ~(d = old /\ n = oldName)
                                     \/ d = new /\ n = newName /\ c = i
    <2>1. Entry(u, d, n, c) <=> Entry(w, d, n, c)
      BY Zenon, <1>5 DEF Entry
    <2>2. Entry(w, d, n, c) <=> Entry(v, d, n, c) \/ (d = new /\ n = newName /\ c = i)
      BY Zenon DEF Added
    <2>3. Entry(v, d, n, c) <=> Entry(t, d, n, c) /\ ~(d = old /\ n = oldName)
      BY Zenon DEF Taken
    <2> QED
      BY Zenon, <2>1, <2>2, <2>3
  <1>9. TreeFun(u)
    <2>1. TreeFun(w)
      BY Zenon DEF Added
    <2>2. w[i].used \in BOOLEAN
      BY Zenon, <1>1, <2>1, NodeExcept DEF TreeFun
    <2>3. IsNode(r)
      BY Zenon, <1>2, <2>2 DEF IsNode
    <2>4. ButFor(u, w, i, r)
      BY Zenon, <1>2
    <2> QED
      BY Zenon, <1>1, <2>1, <2>3, <2>4, ButForKeeps
  <1>10. u[0].used /\ u[0].kind = "dir"
    BY Zenon, <1>7, SizesOK DEF TreeInv
  <1>11. ASSUME NEW j \in Inodes
         PROVE  u[j].size \in 0 .. FileMax /\ u[j].parent \in Inodes /\ (~u[j].used => u[j].parent = 0)
    <2>1. t[j].size \in 0 .. FileMax /\ t[j].parent \in Inodes /\ (~t[j].used => t[j].parent = 0)
      BY Zenon DEF TreeInv
    <2>2. CASE j = i
      BY Zenon, <1>1, <1>5, <1>7, <2>1, <2>2
    <2>3. CASE j # i
      BY Zenon, <1>7, <2>1, <2>3
    <2> QED
      BY Zenon, <2>2, <2>3
  <1>12. ASSUME NEW d, NEW n, NEW c, Entry(t, d, n, c), ~(d = old /\ n = oldName) PROVE c # i
    <2>1. c = i => d = old
      <3>1. t[c].parent = d
        BY Zenon, <1>12 DEF TreeInv
      <3> QED
        BY Zenon, <1>1, <3>1
    <2>2. Entry(t, old, n, i) /\ Entry(t, old, oldName, i) => n = oldName
      BY Zenon DEF TreeInv
    <2> QED
      BY Zenon, <1>12, <2>1, <2>2
  <1>13. ASSUME NEW d, NEW n, NEW c, Entry(u, d, n, c)
         PROVE  c \in Inodes \ {0} /\ u[c].used /\ u[c].parent = d /\ u[d].used /\ u[d].kind = "dir"
    <2>1. CASE Entry(t, d, n, c) /\ ~(d = old /\ n = oldName)
      <3>1. c \in Inodes \ {0} /\ t[c].used /\ t[c].parent = d /\ t[d].used /\ t[d].kind = "dir"
        BY Zenon, <2>1 DEF TreeInv
      <3>2. c # i
        BY Zenon, <1>12, <2>1
      <3>3. d \in Inodes
        BY Zenon, <2>1 DEF Entry
      <3> QED
        BY Zenon, <1>7, <3>1, <3>2, <3>3
    <2>2. CASE d = new /\ n = newName /\ c = i
      BY Zenon, <1>1, <1>5, <1>7, <2>2
    <2>3. \/ Entry(t, d, n, c) /\ ~(d = old /\ n = oldName)
          \/ d = new /\ n = newName /\ c = i
      BY Zenon, <1>8, <1>13
    <2> QED
      BY Zenon, <2>1, <2>2, <2>3
  <1>14. ASSUME NEW d, NEW n, NEW m, NEW c, Entry(u, d, n, c), Entry(u, d, m, c) PROVE n = m
    <2>1. \/ Entry(t, d, n, c) /\ ~(d = old /\ n = oldName)
          \/ d = new /\ n = newName /\ c = i
      BY Zenon, <1>8, <1>14
    <2>2. \/ Entry(t, d, m, c) /\ ~(d = old /\ m = oldName)
          \/ d = new /\ m = newName /\ c = i
      BY Zenon, <1>8, <1>14
    <2>3. Entry(t, d, n, c) /\ Entry(t, d, m, c) => n = m
      BY Zenon DEF TreeInv
    <2> QED
      BY Zenon, <1>12, <2>1, <2>2, <2>3
  <1>15. ASSUME NEW j \in Inodes \ {0}, u[j].used PROVE \E n : Entry(u, u[j].parent, n, j)
    <2>1. CASE j = i
      BY Zenon, <1>5, <1>8, <2>1
    <2>2. CASE j # i
      <3>1. PICK n : Entry(t, t[j].parent, n, j)
        BY Zenon, <1>7, <1>15 DEF TreeInv
      <3>2. ~(t[j].parent = old /\ n = oldName)
        BY Zenon, <2>2, <3>1 DEF Entry
      <3>3. Entry(u, t[j].parent, n, j)
        BY Zenon, <1>8, <3>1, <3>2
      <3> QED
        BY Zenon, <1>7, <2>2, <3>3
    <2> QED
      BY Zenon, <2>1, <2>2
  <1>16. Founded(u)
    <2> SUFFICES ASSUME NEW S \in SUBSET (Inodes \ {0}), S # {}, \A j \in S : u[j].parent \in S
                 PROVE  FALSE
      BY Zenon DEF Founded
    <2>1. CASE i \in S
      <3>1. new \in S
        BY Zenon, <1>5, <2>1
      <3>2. PICK j \in S : j # i /\ t[j].parent \notin S
        BY Zenon, <3>1 DEF Escapes
      <3> QED
        BY Zenon, <1>7, <3>2
    <2>2. CASE i \notin S
      <3>1. PICK j \in S : t[j].parent \notin S
        BY Zenon DEF TreeInv, Founded
      <3> QED
        BY Zenon, <1>7, <2>2, <3>1
    <2> QED
      BY Zenon, <2>1, <2>2
  <1>17. TreeInv(u)
    BY Zenon, <1>9, <1>10, <1>11, <1>13, <1>14, <1>15, <1>16 DEF TreeInv
  <1> QED
    BY Zenon, <1>7, <1>17 DEF TreeTo

\* An endless climb would repeat an inode, and the inodes in between would be a
\* set that nothing leads out of.
LEMMA ReachesRoot ==
    ASSUME TreeInv(inodes), NEW i \in Inodes
    PROVE  0 \in Climb(i)
  <1> SUFFICES ASSUME 0 \notin Climb(i) PROVE FALSE
    BY Zenon
  <1>1. PICK n : n = MaxInodes - 1
    BY Zenon
  <1>2. n \in Nat /\ Inodes \ {0} = 1 .. n
    BY <1>1, SizesOK DEF Inodes
  <1>3. PICK w : Climbs(w, i, n)
    BY Zenon, <1>1, ClimbIs
  <1>4. \A k \in 0 .. n : w[k] \in 1 .. n
    BY Zenon, <1>2, <1>3 DEF Climbs
  <1>5. ASSUME NEW k \in 0 .. n, k + 1 \in 0 .. n PROVE inodes[w[k]].parent = w[k + 1]
    <2>1. k + 1 \in 1 .. n /\ (k + 1) - 1 = k
      BY <1>2, <1>5
    <2>2. w[k + 1] = Above(w[k])
      BY Zenon, <1>3, <2>1 DEF Climbs
    <2>3. w[k] # 0
      BY Zenon, <1>2, <1>4
    <2> QED
      BY Zenon, <2>2, <2>3 DEF Above
  <1>6. PICK a \in 0 .. n, b \in 0 .. n : a < b /\ w[a] = w[b]
    <2>1. PICK f : f = [k \in 0 .. n |-> w[k]]
      BY Zenon
    <2>2. f \in [0 .. n -> 1 .. n]
      BY Zenon, <1>4, <2>1
    <2>3. IsFiniteSet(0 .. n) /\ Cardinality(0 .. n) = n + 1
      <3>1. 0 \in Int /\ n \in Int /\ ~(0 > n) /\ n - 0 + 1 = n + 1
        BY <1>2
      <3> QED
        BY Zenon, <3>1, FS_Interval
    <2>4. IsFiniteSet(1 .. n) /\ Cardinality(1 .. n) = n
      <3>1. 1 \in Int /\ n \in Int /\ (1 > n => n = 0) /\ n - 1 + 1 = n
        BY <1>2
      <3>2. /\ IsFiniteSet(1 .. n)
            /\ Cardinality(1 .. n) = IF 1 > n THEN 0 ELSE n - 1 + 1
        BY Zenon, <3>1, FS_Interval
      <3> QED
        BY Zenon, <3>1, <3>2
    <2>5. n < n + 1
      BY <1>2
    <2>6. PICK S, T : S = 0 .. n /\ T = 1 .. n
      BY Zenon
    <2>7. \E x, y \in S : x # y /\ f[x] = f[y]
      <3>1. IsFiniteSet(S) /\ IsFiniteSet(T) /\ Cardinality(T) < Cardinality(S) /\ f \in [S -> T]
        BY Zenon, <2>2, <2>3, <2>4, <2>5, <2>6
      <3> QED
        BY Zenon, <3>1, FS_PigeonHole
    <2>8. PICK x \in 0 .. n, y \in 0 .. n : x # y /\ w[x] = w[y]
      BY Zenon, <2>1, <2>6, <2>7
    <2>9. x < y \/ y < x
      BY <2>8
    <2> QED
      BY Zenon, <2>8, <2>9
  <1>7. PICK R : R = {w[k] : k \in a .. b - 1}
    BY Zenon
  <1>8. a \in a .. b - 1 /\ \A k \in a .. b - 1 : /\ k \in 0 .. n /\ k + 1 \in 0 .. n
                                                  /\ k + 1 \in a .. b - 1 \/ k + 1 = b
    BY <1>2, <1>6
  <1>9. R \in SUBSET (Inodes \ {0}) /\ R # {}
    BY Zenon, <1>2, <1>4, <1>7, <1>8
  <1>10. PICK j \in R : inodes[j].parent \notin R
    BY Zenon, <1>9 DEF TreeInv, Founded
  <1>11. PICK k \in a .. b - 1 : j = w[k]
    BY Zenon, <1>7
  <1>12. inodes[j].parent = w[k + 1]
    BY Zenon, <1>5, <1>8, <1>11
  <1>13. w[k + 1] \in R
    BY Zenon, <1>6, <1>7, <1>8
  <1> QED
    BY Zenon, <1>10, <1>12, <1>13

\* The inductive invariant implies TreeOK: every inode in use is in the entries of
\* its parent, and the climb from it reaches the root.
LEMMA InvTree == VfsInv => TreeOK
  <1> SUFFICES ASSUME VfsInv PROVE TreeOK
    BY Zenon
  <1>1. TreeInv(inodes) /\ MountInv(mounts, namespaces)
    BY Zenon DEF VfsInv
  <1>2. inodes[0].used /\ inodes[0].kind = "dir"
    BY Zenon, <1>1 DEF TreeInv
  <1>3. ASSUME NEW i \in Inodes, inodes[i].used, i # 0, NEW dir, dir = inodes[i].parent
        PROVE  /\ inodes[dir].used /\ inodes[dir].kind = "dir"
               /\ Cardinality({n \in DOMAIN inodes[dir].children : Child(dir, n) = i}) = 1
               /\ 0 \in Climb(i)
    <2>1. PICK m : Entry(inodes, dir, m, i)
      BY Zenon, <1>1, <1>3 DEF TreeInv
    <2>2. inodes[dir].used /\ inodes[dir].kind = "dir"
      BY Zenon, <1>1, <2>1 DEF TreeInv
    <2>3. dir \in Inodes
      BY Zenon, <2>1 DEF Entry
    <2>4. \A n : n \in DOMAIN inodes[dir].children /\ Child(dir, n) = i <=> n = m
      <3>1. ASSUME NEW n, n \in DOMAIN inodes[dir].children, Child(dir, n) = i PROVE n = m
        <4>1. Entry(inodes, dir, n, i)
          BY Zenon, <2>3, <3>1 DEF Entry, Child
        <4> QED
          BY Zenon, <1>1, <2>1, <4>1 DEF TreeInv
      <3>2. m \in DOMAIN inodes[dir].children /\ Child(dir, m) = i
        BY Zenon, <2>1 DEF Entry, Child
      <3> QED
        BY Zenon, <3>1, <3>2
    <2>5. {n \in DOMAIN inodes[dir].children : Child(dir, n) = i} = {m}
      BY Zenon, <2>4
    <2>6. Cardinality({m}) = 1
      BY Zenon, FS_Singleton
    <2> QED
      BY Zenon, <1>1, <2>2, <2>5, <2>6, ReachesRoot
  <1>4. ASSUME NEW dir \in Inodes, NEW n \in DOMAIN inodes[dir].children
        PROVE  inodes[Child(dir, n)].used /\ inodes[Child(dir, n)].parent = dir
    <2>1. Entry(inodes, dir, n, Child(dir, n))
      BY Zenon DEF Entry, Child
    <2> QED
      BY Zenon, <1>1, <2>1 DEF TreeInv
  <1>5. ASSUME NEW ns \in DOMAIN namespaces, NEW root, root = mounts[namespaces[ns]]
        PROVE  root.used /\ root.ns = ns /\ root.parent = NoParent
    BY Zenon, <1>1, <1>5 DEF MountInv
  <1>6. ASSUME NEW m \in Mounts \ {0}, mounts[m].used, mounts[m].ns = 0
        PROVE  mounts[m].parent # NoParent /\ mounts[mounts[m].parent].used
               /\ mounts[mounts[m].parent].ns = 0
    BY Zenon, <1>1, <1>6, SizesOK DEF MountInv
  <1> QED
    BY Zenon, <1>2, <1>3, <1>4, <1>5, <1>6 DEF TreeOK

\* Reading what a handle or a dentry names.
LEMMA PlaceFields ==
    \A m, i : Place(m, i).mount = m /\ Place(m, i).inode = i
  BY DEF Place

\* The inductive invariant implies HandlesValid, the counts included.
LEMMA InvHandles == VfsInv => HandlesValid
  <1> SUFFICES ASSUME VfsInv PROVE HandlesValid
    BY Zenon
  <1>1. TreeInv(inodes) /\ FilesInv /\ NamesInv /\ mounted \in BOOLEAN
    BY Zenon DEF VfsInv
  <1>2. ASSUME NEW f \in files
        PROVE  /\ Valid(f) /\ inodes[f.inode].kind = "regular"
               /\ f.offset \in 0 .. FileMax /\ inodes[f.inode].size \in 0 .. FileMax
               /\ f.writable => ~mounts[f.mount].ro
    <2>1. FileOK(f, handles, inodes, mounts)
      BY Zenon, <1>1 DEF FilesInv
    <2>2. mounted
      BY Zenon, <1>1 DEF FilesInv
    <2>3. handles[f.slot].mount = f.mount /\ handles[f.slot].inode = f.inode
      <3>1. handles[f.slot] = Place(f.mount, f.inode)
        BY Zenon, <2>1 DEF FileOK
      <3> QED
        BY <3>1 DEF Place
    <2>4. Valid(f)
      BY Zenon, <2>1, <2>2, <2>3 DEF Valid, FileOK
    <2>5. inodes[f.inode].size \in 0 .. FileMax
      BY Zenon, <1>1, <2>1 DEF FileOK, TreeInv
    <2> QED
      BY Zenon, <2>1, <2>4, <2>5 DEF FileOK
  <1>3. openCount = Cardinality(files) /\ openCount = Cardinality(DOMAIN handles)
    BY Zenon, <1>1 DEF FilesInv
  <1>4. ASSUME NEW m \in Mounts
        PROVE  mounts[m].refs = Cardinality({s \in DOMAIN dentries : dentries[s].mount = m})
    BY Zenon, <1>1 DEF NamesInv, At
  <1>5. ASSUME NEW d \in names
        PROVE  /\ d.slot \in DOMAIN dentries
               /\ dentries[d.slot] = [mount |-> d.mount, inode |-> d.inode]
               /\ mounts[d.mount].used
    <2>1. NameOK(d, dentries, mounts)
      BY Zenon, <1>1 DEF NamesInv
    <2> QED
      BY Zenon, <2>1 DEF NameOK, Place
  <1> QED
    BY Zenon, <1>2, <1>3, <1>4, <1>5 DEF HandlesValid
=============================================================================
