--------------------------- MODULE YaffsVfsProofs ---------------------------
(***************************************************************************)
(* That the kernel's caches tell what the core has, whatever the calls of   *)
(* other processes do while the lock is let go (CachesTell), and that a     *)
(* search stands on an entry of its directory (SearchStandsOnEntry), for    *)
(* any number of objects, names, directories and processes.                 *)
(*                                                                         *)
(* The core enters the proof by what it tells of names: Leads(c, n, f), the *)
(* name n leads to the file f.  Each operation on the objects has a lemma   *)
(* that says how it changes this relation, how many links each file has,    *)
(* and which entries leave their directories.                               *)
(***************************************************************************)
EXTENDS YaffsVfs, SequenceTheorems, WellFoundedInduction, TLAPS

-----------------------------------------------------------------------------
(* The inductive invariant.                                                *)

Objects == [kind : {"file", "link"}, equiv : Ids \cup {None}, name : Names \cup {None},
            my_inode : BOOLEAN, defered_free : BOOLEAN]

CoreType(c) ==
    /\ c = [obj |-> c.obj, links |-> c.links, children |-> c.children]
    /\ c.obj \in [DOMAIN c.obj -> Objects] /\ DOMAIN c.obj \in SUBSET Ids
    /\ c.links \in [Ids -> Seq(Ids)]
    /\ c.children \in [Dirs -> Seq(Ids)]

\* The sequence s holds the members of S, each once.
Holds(s, S) == IsInjective(s) /\ Range(s) = S

Entries(c, d) == {o \in DOMAIN c.obj : c.obj[o].name # None /\ DirOf[c.obj[o].name] = d}
LinksTo(c, f) == {o \in DOMAIN c.obj : c.obj[o].kind = "link" /\ c.obj[o].equiv = f}

\* The directories list their entries.
Listed(c) == CoreType(c) /\ \A d \in Dirs : Holds(c.children[d], Entries(c, d))

\* The files list the links to them, and have a name as long as there are some.
Hooked(c) ==
    /\ \A f \in Ids : Holds(c.links[f], LinksTo(c, f))
    /\ \A o \in DOMAIN c.obj :
          /\ c.obj[o].kind = "link" =>
                 /\ c.obj[o].equiv \in DOMAIN c.obj /\ c.obj[c.obj[o].equiv].kind = "file"
                 /\ c.obj[o].name # None /\ ~c.obj[o].my_inode
          /\ c.obj[o].name = None => c.obj[o].my_inode /\ c.links[o] = <<>>
          /\ c.obj[o].defered_free => c.obj[o].name = None

\* The name n leads to the file f.
Leads(c, n, f) ==
    \E o \in DOMAIN c.obj : c.obj[o].name = n /\ get_equivalent_obj(c, o) = f

\* A file has a name once only.
NamedOnce(c) ==
    \A o, p \in DOMAIN c.obj :
        /\ c.obj[o].name = c.obj[p].name /\ c.obj[o].name # None
        /\ get_equivalent_obj(c, o) = get_equivalent_obj(c, p)
        => o = p

CoreSound(c) ==
    /\ Listed(c) /\ Hooked(c) /\ NamedOnce(c)
    /\ \A n \in Names, f, g \in Ids : Leads(c, n, f) /\ Leads(c, n, g) => f = g

Inodes == [state : {"none", "new", "live", "deleting", "unstitching"},
           nlink : Int, obj : BOOLEAN]

Calling ==
    {Idle} \cup [op : {"lookup", "mknod"}, step : {"iget", "fill", "add"},
                 name : Names, id : Ids]
      \cup [op : {"readdir"}, dir : Dirs, given : BOOLEAN, next_return : Ids \cup {None}]

TypeOK ==
    /\ CoreType(core)
    /\ inode \in [Ids -> Inodes]
    /\ dentry \in [Names -> Ids \cup {None, Negative}]
    /\ opens \in [Ids -> Nat]
    /\ call \in [Procs -> Calling]

\* A lookup or a creation has its directory for itself, and the inode it fills.
CallInv ==
    /\ \A p, q \in Procs :
          p # q /\ call[p] # Idle /\ call[q] # Idle => LockedDir(p) # LockedDir(q)
    /\ \A p \in Procs : call[p].op \in {"lookup", "mknod"} =>
          /\ Leads(core, call[p].name, call[p].id)
          /\ call[p].step = "fill" => inode[call[p].id].state = "new"
          /\ call[p].step = "add" => inode[call[p].id].state = "live"
    /\ \A p, q \in Procs :
          /\ call[p].op \in {"lookup", "mknod"} /\ call[p].step = "fill"
          /\ call[q].op \in {"lookup", "mknod"} /\ call[q].step = "fill"
          /\ call[p].id = call[q].id
          => p = q

\* Where an inode is between iget and the end of its eviction.
InodeInv ==
    \A o \in Ids :
        /\ inode[o].obj <=> inode[o].state \in {"live", "deleting", "unstitching"}
        /\ inode[o].obj <=> o \in DOMAIN core.obj /\ core.obj[o].my_inode
        /\ inode[o].state = "live" => inode[o].nlink = get_obj_link_count(core, o)
        /\ inode[o].state \in {"live", "deleting"} => ~core.obj[o].defered_free
        /\ inode[o].state = "deleting" => core.obj[o].name = None
        /\ inode[o].state = "unstitching" /\ core.obj[o].name = None
               => core.obj[o].defered_free
        /\ opens[o] > 0 => inode[o].state = "live"

DentryInv ==
    \A n \in Names :
        /\ dentry[n] \in Ids =>
               inode[dentry[n]].state = "live" /\ Leads(core, n, dentry[n])
        /\ dentry[n] = Negative /\ ~Creating(n) => \A f \in Ids : ~Leads(core, n, f)

\* The searches of k stand on entries of their directories in c.
Stands(k, c) ==
    \A p \in Procs : k[p].op = "readdir" /\ k[p].next_return # None =>
        k[p].next_return \in Entries(c, k[p].dir)

IInv ==
    /\ TypeOK /\ CoreSound(core) /\ CallInv /\ InodeInv /\ DentryInv
    /\ Stands(call, core)

-----------------------------------------------------------------------------
(* Lists without repetition.                                               *)

\* What the list of a set S tells by its positions ...
LEMMA Elements ==
    ASSUME NEW T, NEW s \in Seq(T), NEW S, Holds(s, S)
    PROVE  /\ Len(s) \in Nat /\ DOMAIN s = 1 .. Len(s)
           /\ \A i \in 1 .. Len(s) : s[i] \in T /\ s[i] \in S
           /\ \A x \in S : \E i \in 1 .. Len(s) : s[i] = x
           /\ \A i, j \in 1 .. Len(s) : s[i] = s[j] => i = j
<1>1. Len(s) \in Nat /\ DOMAIN s = 1 .. Len(s) /\ \A i \in 1 .. Len(s) : s[i] \in T
  BY LenProperties, ElementOfSeq
<1>2. \A i \in 1 .. Len(s) : s[i] \in S
  BY <1>1 DEF Holds, Range
<1>3. \A x \in S : \E i \in 1 .. Len(s) : s[i] = x
  BY <1>1 DEF Holds, Range
<1>4. \A i, j \in 1 .. Len(s) : s[i] = s[j] => i = j
  BY <1>1 DEF Holds, IsInjective
<1> QED BY <1>1, <1>2, <1>3, <1>4

\* ... and what makes a sequence one.
LEMMA HoldsIs ==
    ASSUME NEW T, NEW s \in Seq(T), NEW S,
           \A i \in 1 .. Len(s) : s[i] \in S,
           \A x \in S : \E i \in 1 .. Len(s) : s[i] = x,
           \A i, j \in 1 .. Len(s) : s[i] = s[j] => i = j
    PROVE  Holds(s, S)
<1>1. DOMAIN s = 1 .. Len(s)
  BY LenProperties
<1>2. Range(s) = S
  BY <1>1 DEF Range
<1> QED BY <1>1, <1>2 DEF Holds, IsInjective

\* An element leaves ...
LEMMA RemoveIs ==
    ASSUME NEW T, NEW s \in Seq(T), NEW S, Holds(s, S), NEW o
    PROVE  /\ RemoveFirst(s, o) \in Seq(T)
           /\ Holds(RemoveFirst(s, o), S \ {o})
           /\ o \in S => Len(RemoveFirst(s, o)) = Len(s) - 1
<1>1. /\ Len(s) \in Nat /\ \A i \in 1 .. Len(s) : s[i] \in T /\ s[i] \in S
      /\ \A x \in S : \E i \in 1 .. Len(s) : s[i] = x
      /\ \A i, j \in 1 .. Len(s) : s[i] = s[j] => i = j
  BY Elements
<1>2. CASE o \notin S
  <2>1. RemoveFirst(s, o) = s
    BY <1>1, <1>2 DEF RemoveFirst
  <2>2. S \ {o} = S
    BY <1>2
  <2> QED BY <1>2, <2>1, <2>2
<1>3. CASE o \in S
  <2>1. PICK k \in 1 .. Len(s) : s[k] = o
    BY <1>1, <1>3
  <2> DEFINE a == SubSeq(s, 1, k - 1)
             z == SubSeq(s, k + 1, Len(s))
             w == a \o z
  <2>2. RemoveFirst(s, o) = w
    <3>1. {i \in 1 .. Len(s) : s[i] = o} = {k}
      BY <1>1, <2>1
    <3>2. SelectInSeq(s, LAMBDA v : v = o) = k
      <4>1. Min({k}) = k
        BY <2>1 DEF Min
      <4> QED BY <3>1, <4>1 DEF SelectInSeq
    <3> QED BY <2>1, <3>2 DEF RemoveFirst, RemoveAt
  <2>3. /\ a \in Seq(T) /\ Len(a) = k - 1
        /\ \A i \in 1 .. k - 1 : a[i] = s[i]
    <3>1. \A i \in 1 .. k - 1 : s[i] \in T
      BY <1>1, <2>1
    <3>2. /\ a \in Seq(T) /\ Len(a) = IF 1 <= k - 1 THEN (k - 1) - 1 + 1 ELSE 0
          /\ \A i \in 1 .. (k - 1) - 1 + 1 : a[i] = s[1 + i - 1]
      BY <2>1, <3>1, SubSeqProperties, 1 \in Int, k - 1 \in Int
    <3> QED BY <2>1, <3>2
  <2>4. /\ z \in Seq(T) /\ Len(z) = Len(s) - k
        /\ \A i \in 1 .. Len(s) - k : z[i] = s[k + i]
    <3>1. \A i \in k + 1 .. Len(s) : s[i] \in T
      BY <1>1, <2>1
    <3>2. k + 1 \in Int /\ Len(s) \in Int
      BY <1>1, <2>1
    <3>3. /\ z \in Seq(T) /\ Len(z) = IF k + 1 <= Len(s) THEN Len(s) - (k + 1) + 1 ELSE 0
          /\ \A i \in 1 .. Len(s) - (k + 1) + 1 : z[i] = s[(k + 1) + i - 1]
      BY <3>1, <3>2, SubSeqProperties
    <3> QED BY <1>1, <2>1, <3>3
  <2>5. /\ w \in Seq(T) /\ Len(w) = Len(s) - 1
        /\ \A i \in 1 .. Len(s) - 1 : w[i] = IF i < k THEN s[i] ELSE s[i + 1]
    <3> HIDE DEF a, z
    <3>1. /\ w \in Seq(T) /\ Len(w) = Len(a) + Len(z)
          /\ \A i \in 1 .. Len(a) + Len(z) : w[i] = IF i <= Len(a) THEN a[i] ELSE z[i - Len(a)]
      BY <2>3, <2>4, ConcatProperties
    <3> HIDE DEF w
    <3>2. Len(a) + Len(z) = Len(s) - 1
      BY <1>1, <2>1, <2>3, <2>4
    <3>3. ASSUME NEW i \in 1 .. Len(s) - 1 PROVE w[i] = IF i < k THEN s[i] ELSE s[i + 1]
      <4>1. CASE i < k
        <5>1. w[i] = a[i]
          BY <2>1, <2>3, <3>1, <3>2, <4>1
        <5>2. i \in 1 .. k - 1
          BY <2>1, <4>1
        <5>3. a[i] = s[i]
          BY <2>3, <5>2
        <5> QED BY <4>1, <5>1, <5>3
      <4>2. CASE i >= k
        <5>1. w[i] = z[i - (k - 1)]
          <6>1. i \in 1 .. Len(a) + Len(z) /\ ~(i <= Len(a))
            BY <2>1, <2>3, <3>2, <4>2
          <6> QED BY <2>3, <3>1, <6>1
        <5>2. i - (k - 1) \in 1 .. Len(s) - k /\ k + (i - (k - 1)) = i + 1
          BY <1>1, <2>1, <4>2
        <5>3. z[i - (k - 1)] = s[k + (i - (k - 1))]
          BY <2>4, <5>2
        <5>4. ~(i < k)
          BY <2>1, <4>2
        <5>5. s[k + (i - (k - 1))] = s[i + 1]
          BY <5>2, Zenon
        <5>6. w[i] = s[i + 1]
          BY <5>1, <5>3, <5>5, Zenon
        <5> QED BY <5>4, <5>6
      <4> QED BY <1>1, <2>1, <4>1, <4>2
    <3> QED BY <3>1, <3>2, <3>3
  <2> HIDE DEF w
  <2>6. \A i \in 1 .. Len(w) : w[i] \in S \ {o}
    BY <1>1, <2>1, <2>5
  <2>7. ASSUME NEW x \in S \ {o} PROVE \E i \in 1 .. Len(w) : w[i] = x
    <3>1. PICK j \in 1 .. Len(s) : s[j] = x
      BY <1>1
    <3>2. CASE j < k
      BY <2>1, <2>5, <3>1, <3>2
    <3>3. CASE j > k
      <4>1. j - 1 \in 1 .. Len(s) - 1 /\ ~(j - 1 < k) /\ (j - 1) + 1 = j
        BY <1>1, <2>1, <3>1, <3>3
      <4> QED BY <2>5, <3>1, <4>1
    <3> QED BY <2>1, <3>1, <3>2, <3>3
  <2>8. ASSUME NEW i \in 1 .. Len(w), NEW j \in 1 .. Len(w), w[i] = w[j] PROVE i = j
    <3> DEFINE Was(h) == IF h < k THEN h ELSE h + 1
    <3>1. \A h \in 1 .. Len(w) : w[h] = s[Was(h)] /\ Was(h) \in 1 .. Len(s)
      BY <1>1, <2>1, <2>5
    <3>2. Was(i) = Was(j)
      BY <1>1, <2>8, <3>1
    <3> QED BY <2>1, <2>5, <3>2
  <2> QED BY <1>3, <2>2, <2>5, <2>6, <2>7, <2>8, HoldsIs
<1> QED BY <1>2, <1>3

\* ... or joins.
LEMMA ConsIs ==
    ASSUME NEW T, NEW s \in Seq(T), NEW S, Holds(s, S), NEW o \in T, o \notin S
    PROVE  /\ <<o>> \o s \in Seq(T)
           /\ Holds(<<o>> \o s, S \cup {o})
           /\ Len(<<o>> \o s) = Len(s) + 1
<1>1. /\ Len(s) \in Nat /\ \A i \in 1 .. Len(s) : s[i] \in T /\ s[i] \in S
      /\ \A x \in S : \E i \in 1 .. Len(s) : s[i] = x
      /\ \A i, j \in 1 .. Len(s) : s[i] = s[j] => i = j
  BY Elements
<1> DEFINE w == <<o>> \o s
<1>2. /\ w \in Seq(T) /\ Len(w) = Len(s) + 1
      /\ \A i \in 1 .. Len(s) + 1 : w[i] = IF i = 1 THEN o ELSE s[i - 1]
  <2>1. <<o>> \in Seq(T) /\ Len(<<o>>) = 1 /\ <<o>>[1] = o
    OBVIOUS
  <2>2. /\ w \in Seq(T) /\ Len(w) = Len(<<o>>) + Len(s)
        /\ \A i \in 1 .. Len(<<o>>) + Len(s) :
              w[i] = IF i <= Len(<<o>>) THEN <<o>>[i] ELSE s[i - Len(<<o>>)]
    BY <2>1, ConcatProperties
  <2> QED BY <1>1, <2>1, <2>2
<1> HIDE DEF w
<1>3. \A i \in 1 .. Len(w) : w[i] \in S \cup {o}
  BY <1>1, <1>2
<1>4. ASSUME NEW x \in S \cup {o} PROVE \E i \in 1 .. Len(w) : w[i] = x
  <2>1. CASE x = o
    BY <1>1, <1>2, <2>1
  <2>2. CASE x \in S
    <3>1. PICK j \in 1 .. Len(s) : s[j] = x
      BY <1>1, <2>2
    <3>2. j + 1 \in 1 .. Len(s) + 1 /\ j + 1 # 1 /\ (j + 1) - 1 = j
      BY <1>1, <3>1
    <3> QED BY <1>2, <3>1, <3>2
  <2> QED BY <2>1, <2>2
<1>5. ASSUME NEW i \in 1 .. Len(w), NEW j \in 1 .. Len(w), w[i] = w[j] PROVE i = j
  <2>1. CASE i = 1
    BY <1>1, <1>2, <1>5, <2>1
  <2>2. CASE j = 1
    BY <1>1, <1>2, <1>5, <2>2
  <2>3. CASE i # 1 /\ j # 1
    <3>1. i - 1 \in 1 .. Len(s) /\ j - 1 \in 1 .. Len(s) /\ s[i - 1] = s[j - 1]
      BY <1>1, <1>2, <1>5, <2>3
    <3>2. i - 1 = j - 1
      BY <1>1, <3>1
    <3> QED BY <1>1, <1>2, <3>2
  <2> QED BY <2>1, <2>2, <2>3
<1> QED BY <1>2, <1>3, <1>4, <1>5, HoldsIs DEF w

\* The first element leaves: the rest lists the others.
LEMMA BehindIs ==
    ASSUME NEW T, NEW s \in Seq(T), NEW S, Holds(s, S), s # <<>>
    PROVE  /\ Head(s) \in S /\ Head(s) \in T
           /\ Tail(s) \in Seq(T) /\ Holds(Tail(s), S \ {Head(s)})
           /\ Len(Tail(s)) = Len(s) - 1
<1>1. /\ Len(s) \in Nat /\ \A i \in 1 .. Len(s) : s[i] \in T /\ s[i] \in S
      /\ \A x \in S : \E i \in 1 .. Len(s) : s[i] = x
      /\ \A i, j \in 1 .. Len(s) : s[i] = s[j] => i = j
  BY Elements
<1> DEFINE w == Tail(s)
<1>2. /\ w \in Seq(T) /\ Len(w) = Len(s) - 1 /\ Head(s) \in T
      /\ \A i \in 1 .. Len(w) : w[i] = s[i + 1]
  BY HeadTailProperties
<1>3. Len(s) >= 1 /\ Head(s) = s[1]
  BY EmptySeq, <1>1
<1> HIDE DEF w
<1>4. \A i \in 1 .. Len(w) : w[i] \in S \ {Head(s)}
  BY <1>1, <1>2, <1>3
<1>5. ASSUME NEW x \in S \ {Head(s)} PROVE \E i \in 1 .. Len(w) : w[i] = x
  <2>1. PICK j \in 1 .. Len(s) : s[j] = x
    BY <1>1
  <2>2. j - 1 \in 1 .. Len(w) /\ (j - 1) + 1 = j
    BY <1>1, <1>2, <1>3, <2>1
  <2> QED BY <1>2, <2>1, <2>2
<1>6. ASSUME NEW i \in 1 .. Len(w), NEW j \in 1 .. Len(w), w[i] = w[j] PROVE i = j
  <2>1. i + 1 \in 1 .. Len(s) /\ j + 1 \in 1 .. Len(s) /\ s[i + 1] = s[j + 1]
    BY <1>1, <1>2, <1>6
  <2>2. i + 1 = j + 1
    BY <1>1, <2>1
  <2> QED BY <2>2
<1>7. Holds(w, S \ {Head(s)})
  BY <1>2, <1>4, <1>5, <1>6, HoldsIs
<1>8. Head(s) \in S
  BY <1>1, <1>3
<1> QED BY <1>2, <1>7, <1>8 DEF w

\* The list is empty when there is nothing to list.
LEMMA EmptyIs ==
    ASSUME NEW T, NEW s \in Seq(T), NEW S, Holds(s, S)
    PROVE  s = <<>> <=> S = {}
<1>1. /\ Len(s) \in Nat /\ \A i \in 1 .. Len(s) : s[i] \in S
      /\ \A x \in S : \E i \in 1 .. Len(s) : s[i] = x
  BY Elements
<1>2. CASE s = <<>>
  BY <1>1, <1>2, EmptySeq
<1>3. CASE s # <<>>
  BY <1>3, BehindIs
<1> QED BY <1>2, <1>3

-----------------------------------------------------------------------------
(* What the operations do to the lists of the directories.                 *)

\* The object o takes the name n.
Renamed(c, e, o, n) ==
    /\ e.links = c.links /\ DOMAIN e.obj = DOMAIN c.obj
    /\ \A x \in DOMAIN c.obj :
          e.obj[x] = IF x = o THEN [c.obj[o] EXCEPT !.name = n] ELSE c.obj[x]

\* The object o is freed.
Gone(c, e, o) ==
    /\ e.links = c.links /\ DOMAIN e.obj = DOMAIN c.obj \ {o}
    /\ \A x \in DOMAIN c.obj \ {o} : e.obj[x] = c.obj[x]

\* The fields of an object.
LEMMA ObjectIs ==
    ASSUME NEW c, CoreType(c), NEW o \in DOMAIN c.obj
    PROVE  /\ o \in Ids /\ o # None
           /\ c.obj[o] = [kind |-> c.obj[o].kind, equiv |-> c.obj[o].equiv,
                          name |-> c.obj[o].name, my_inode |-> c.obj[o].my_inode,
                          defered_free |-> c.obj[o].defered_free]
           /\ c.obj[o].kind \in {"file", "link"} /\ c.obj[o].equiv \in Ids \cup {None}
           /\ c.obj[o].name \in Names \cup {None}
           /\ c.obj[o].my_inode \in BOOLEAN /\ c.obj[o].defered_free \in BOOLEAN
           /\ c.obj[o].name # None => DirOf[c.obj[o].name] \in Dirs
<1>1. o \in Ids /\ c.obj[o] \in Objects
  BY DEF CoreType
<1>2. o # None
  BY <1>1, VfsAssumption
<1>3. c.obj[o].name \in Names \cup {None}
  BY <1>1 DEF Objects
<1>4. c.obj[o].name # None => DirOf[c.obj[o].name] \in Dirs
  BY <1>3, VfsAssumption
<1> QED BY <1>1, <1>2, <1>3, <1>4 DEF Objects

\* A new name leaves the other fields alone.
LEMMA RenamedObject ==
    ASSUME NEW c, CoreType(c), NEW o \in DOMAIN c.obj, NEW n \in Names \cup {None}
    PROVE  LET r == [c.obj[o] EXCEPT !.name = n]
           IN  /\ r \in Objects /\ r.name = n
               /\ r.kind = c.obj[o].kind /\ r.equiv = c.obj[o].equiv
               /\ r.my_inode = c.obj[o].my_inode /\ r.defered_free = c.obj[o].defered_free
<1>1. c.obj[o] \in Objects
  BY DEF CoreType
<1> QED BY <1>1 DEF Objects

\* remove_obj_from_dir(): the object has no name, and its directory lists the
\* others.
LEMMA RemoveDirIs ==
    ASSUME NEW c, Listed(c), NEW o \in DOMAIN c.obj
    PROVE  LET e == remove_obj_from_dir(c, o) IN Listed(e) /\ Renamed(c, e, o, None)
<1> DEFINE e == remove_obj_from_dir(c, o)
           r == [c.obj[o] EXCEPT !.name = None]
           d == DirOf[c.obj[o].name]
<1>1. CoreType(c) /\ \A x \in Dirs : Holds(c.children[x], Entries(c, x))
  BY DEF Listed
<1>2. /\ r \in Objects /\ r.name = None
  <2>1. c.obj[o] \in Objects
    BY <1>1 DEF CoreType
  <2> QED BY <2>1 DEF Objects
<1>3. CASE c.obj[o].name = None
  <2>1. r = c.obj[o]
    <3>1. c.obj[o] \in Objects
      BY <1>1 DEF CoreType
    <3> QED BY <1>3, <3>1 DEF Objects
  <2>2. e = c
    BY <1>3 DEF remove_obj_from_dir
  <2> QED BY <2>1, <2>2 DEF Renamed
<1>4. CASE c.obj[o].name # None
  <2>1. d \in Dirs
    BY <1>1, <1>4, ObjectIs
  <2>2. e = [c EXCEPT !.children[d] = RemoveFirst(@, o), !.obj[o].name = None]
    BY <1>4 DEF remove_obj_from_dir
  <2>3. /\ e = [obj |-> e.obj, links |-> e.links, children |-> e.children]
        /\ e.obj = [c.obj EXCEPT ![o] = r] /\ e.links = c.links
        /\ e.children = [c.children EXCEPT ![d] = RemoveFirst(c.children[d], o)]
    <3> DEFINE kids == [c.children EXCEPT ![d] = RemoveFirst(c.children[d], o)]
               objs == [c.obj EXCEPT ![o] = r]
    <3>1. c = [obj |-> c.obj, links |-> c.links, children |-> c.children]
      BY <1>1 DEF CoreType
    <3>2. e = [obj |-> objs, links |-> c.links, children |-> kids]
      BY <2>2, <3>1
    <3> QED BY <3>2
  <2> HIDE DEF e, r
  <2>4. DOMAIN e.obj = DOMAIN c.obj
        /\ \A x \in DOMAIN c.obj : e.obj[x] = IF x = o THEN r ELSE c.obj[x]
    BY <2>3, <1>1 DEF CoreType
  <2>5. Renamed(c, e, o, None)
    BY <2>3, <2>4 DEF Renamed, r
  <2>6. /\ RemoveFirst(c.children[d], o) \in Seq(Ids)
        /\ Holds(RemoveFirst(c.children[d], o), Entries(c, d) \ {o})
    <3>1. c.children[d] \in Seq(Ids)
      BY <1>1, <2>1 DEF CoreType
    <3> QED BY <1>1, <2>1, <3>1, RemoveIs
  <2>7. CoreType(e)
    <3>1. e.obj \in [DOMAIN e.obj -> Objects] /\ DOMAIN e.obj \in SUBSET Ids
      BY <1>1, <1>2, <2>3, <2>4 DEF CoreType
    <3>2. e.children \in [Dirs -> Seq(Ids)]
      BY <1>1, <2>1, <2>3, <2>6 DEF CoreType
    <3>3. e.links \in [Ids -> Seq(Ids)]
      BY <1>1, <2>3 DEF CoreType
    <3> QED BY <2>3, <3>1, <3>2, <3>3 DEF CoreType
  <2>8. ASSUME NEW x \in Dirs PROVE Holds(e.children[x], Entries(e, x))
    <3>1. CASE x = d
      <4>1. e.children[x] = RemoveFirst(c.children[d], o)
        BY <1>1, <2>1, <2>3, <3>1 DEF CoreType
      <4>2. Entries(e, x) = Entries(c, d) \ {o}
        BY <1>2, <2>4, <3>1 DEF Entries
      <4> QED BY <2>6, <4>1, <4>2
    <3>2. CASE x # d
      <4>1. e.children[x] = c.children[x]
        BY <1>1, <2>1, <2>3, <3>2 DEF CoreType
      <4>2. Entries(e, x) = Entries(c, x)
        BY <1>2, <2>4, <3>2 DEF Entries
      <4> QED BY <1>1, <4>1, <4>2
    <3> QED BY <3>1, <3>2
  <2> QED BY <2>5, <2>7, <2>8 DEF Listed, e
<1> QED BY <1>3, <1>4

\* change_obj_name(): the object has the new name, at the head of its directory.
LEMMA ChangeNameIs ==
    ASSUME NEW c, Listed(c), NEW o \in DOMAIN c.obj, NEW n \in Names \cup {None}
    PROVE  LET e == change_obj_name(c, o, n) IN Listed(e) /\ Renamed(c, e, o, n)
<1> DEFINE out == remove_obj_from_dir(c, o)
           e == change_obj_name(c, o, n)
           r == [out.obj[o] EXCEPT !.name = n]
           d == DirOf[n]
<1>1. Listed(out) /\ Renamed(c, out, o, None)
  BY RemoveDirIs
<1>2. CoreType(out) /\ \A x \in Dirs : Holds(out.children[x], Entries(out, x))
  BY <1>1 DEF Listed
<1>3. CoreType(c) /\ None \in Names \cup {None}
  BY DEF Listed
<1>4. o \in DOMAIN out.obj /\ out.obj[o] = [c.obj[o] EXCEPT !.name = None]
  BY <1>1 DEF Renamed
<1>5. out.obj[o].name = None
  BY <1>3, <1>4, RenamedObject
<1>6. r = [c.obj[o] EXCEPT !.name = n]
  BY <1>3, <1>4, ObjectIs
<1>7. CASE n = None
  BY <1>1, <1>7 DEF change_obj_name
<1>8. CASE n # None
  <2>1. d \in Dirs /\ n \in Names
    BY <1>8, VfsAssumption
  <2>2. e = [out EXCEPT !.children[d] = <<o>> \o @, !.obj[o].name = n]
    BY <1>8 DEF change_obj_name
  <2>3. /\ e = [obj |-> e.obj, links |-> e.links, children |-> e.children]
        /\ e.obj = [out.obj EXCEPT ![o] = r] /\ e.links = out.links
        /\ e.children = [out.children EXCEPT ![d] = <<o>> \o out.children[d]]
    <3> DEFINE kids == [out.children EXCEPT ![d] = <<o>> \o out.children[d]]
               objs == [out.obj EXCEPT ![o] = r]
    <3>1. out = [obj |-> out.obj, links |-> out.links, children |-> out.children]
      BY <1>2 DEF CoreType
    <3> HIDE DEF out
    <3>2. e = [obj |-> objs, links |-> out.links, children |-> kids]
      BY <2>2, <3>1
    <3> QED BY <3>2
  <2>4. r \in Objects /\ r.name = n
    BY <1>3, <1>6, RenamedObject
  <2> HIDE DEF e, r, out
  <2>5. DOMAIN e.obj = DOMAIN out.obj
        /\ \A x \in DOMAIN out.obj : e.obj[x] = IF x = o THEN r ELSE out.obj[x]
    BY <2>3, <1>2 DEF CoreType
  <2>6. Renamed(c, e, o, n)
    BY <1>1, <1>6, <2>3, <2>5 DEF Renamed
  <2>7. o \in Ids /\ o \notin Entries(out, d)
    BY <1>2, <1>4, <1>5, ObjectIs DEF Entries
  <2>8. /\ <<o>> \o out.children[d] \in Seq(Ids)
        /\ Holds(<<o>> \o out.children[d], Entries(out, d) \cup {o})
    <3>1. out.children[d] \in Seq(Ids)
      BY <1>2, <2>1 DEF CoreType
    <3> QED BY <1>2, <2>1, <2>7, <3>1, ConsIs
  <2>9. CoreType(e)
    <3>1. e.obj \in [DOMAIN e.obj -> Objects] /\ DOMAIN e.obj \in SUBSET Ids
      BY <1>2, <2>3, <2>4, <2>5 DEF CoreType
    <3>2. e.children \in [Dirs -> Seq(Ids)]
      BY <1>2, <2>1, <2>3, <2>8 DEF CoreType
    <3>3. e.links \in [Ids -> Seq(Ids)]
      BY <1>2, <2>3 DEF CoreType
    <3> QED BY <2>3, <3>1, <3>2, <3>3 DEF CoreType
  <2>10. ASSUME NEW x \in Dirs PROVE Holds(e.children[x], Entries(e, x))
    <3>1. CASE x = d
      <4>1. e.children[x] = <<o>> \o out.children[d]
        BY <1>2, <2>1, <2>3, <3>1 DEF CoreType
      <4>2. Entries(e, x) = Entries(out, d) \cup {o}
        BY <1>4, <1>8, <2>4, <2>5, <3>1 DEF Entries
      <4> QED BY <2>8, <4>1, <4>2
    <3>2. CASE x # d
      <4>1. e.children[x] = out.children[x]
        BY <1>2, <2>1, <2>3, <3>2 DEF CoreType
      <4>2. Entries(e, x) = Entries(out, x)
        <5>1. ASSUME NEW p \in DOMAIN out.obj
              PROVE  p \in Entries(e, x) <=> p \in Entries(out, x)
          <6>1. CASE p = o
            BY <1>4, <1>5, <2>4, <2>5, <3>2, <6>1 DEF Entries
          <6>2. CASE p # o
            BY <2>5, <6>2 DEF Entries
          <6> QED BY <6>1, <6>2
        <5> QED BY <2>5, <5>1 DEF Entries
      <4> QED BY <1>2, <4>1, <4>2
    <3> QED BY <3>1, <3>2
  <2> QED BY <2>6, <2>9, <2>10 DEF Listed, e
<1> QED BY <1>7, <1>8

\* free_obj() of an object without a name: it goes, or is marked while it has an
\* inode.
LEMMA FreeIs ==
    ASSUME NEW c, Listed(c), NEW o \in DOMAIN c.obj, c.obj[o].name = None
    PROVE  LET e == free_obj(c, o)
           IN  /\ Listed(e) /\ e.links = c.links
               /\ ~c.obj[o].my_inode => Gone(c, e, o)
               /\ c.obj[o].my_inode =>
                     /\ DOMAIN e.obj = DOMAIN c.obj
                     /\ \A x \in DOMAIN c.obj \ {o} : e.obj[x] = c.obj[x]
                     /\ e.obj[o] = [c.obj[o] EXCEPT !.defered_free = TRUE]
<1> DEFINE e == free_obj(c, o)
           r == [c.obj[o] EXCEPT !.defered_free = TRUE]
<1>1. CoreType(c) /\ \A x \in Dirs : Holds(c.children[x], Entries(c, x))
  BY DEF Listed
<1>2. c = [obj |-> c.obj, links |-> c.links, children |-> c.children]
  BY <1>1 DEF CoreType
<1>3. r \in Objects /\ r.name = None
  <2>1. c.obj[o] \in Objects
    BY <1>1 DEF CoreType
  <2> QED BY <2>1 DEF Objects
<1>4. /\ e = [obj |-> e.obj, links |-> c.links, children |-> c.children]
      /\ e.links = c.links /\ e.children = c.children
      /\ e.obj = IF c.obj[o].my_inode THEN [c.obj EXCEPT ![o] = r]
                 ELSE [p \in DOMAIN c.obj \ {o} |-> c.obj[p]]
  <2>1. CASE c.obj[o].my_inode
    <3> DEFINE objs == [c.obj EXCEPT ![o] = r]
    <3>1. e = [c EXCEPT !.obj[o].defered_free = TRUE]
      BY <2>1 DEF free_obj
    <3>2. e = [obj |-> objs, links |-> c.links, children |-> c.children]
      BY <1>2, <3>1
    <3> QED BY <2>1, <3>2
  <2>2. CASE ~c.obj[o].my_inode
    <3> DEFINE objs == [p \in DOMAIN c.obj \ {o} |-> c.obj[p]]
    <3>1. e = [c EXCEPT !.obj = objs]
      BY <2>2 DEF free_obj
    <3> HIDE DEF objs
    <3>2. e = [obj |-> objs, links |-> c.links, children |-> c.children]
      BY <1>2, <3>1
    <3> QED BY <2>2, <3>2 DEF objs
  <2> QED BY <2>1, <2>2
<1> HIDE DEF e, r
<1>5. ~c.obj[o].my_inode => Gone(c, e, o)
  BY <1>4 DEF Gone
<1>6. c.obj[o].my_inode =>
        /\ DOMAIN e.obj = DOMAIN c.obj
        /\ \A x \in DOMAIN c.obj \ {o} : e.obj[x] = c.obj[x]
        /\ e.obj[o] = r
  BY <1>1, <1>4 DEF CoreType
<1>7. CoreType(e)
  <2>1. e.obj \in [DOMAIN e.obj -> Objects] /\ DOMAIN e.obj \in SUBSET Ids
    BY <1>1, <1>3, <1>4 DEF CoreType
  <2>2. e = [obj |-> e.obj, links |-> e.links, children |-> e.children]
    BY <1>4
  <2> QED BY <1>1, <1>4, <2>1, <2>2 DEF CoreType
<1>8. ASSUME NEW x \in Dirs PROVE Entries(e, x) = Entries(c, x)
  <2>1. CASE c.obj[o].my_inode
    BY <1>3, <1>6, <2>1 DEF Entries
  <2>2. CASE ~c.obj[o].my_inode
    BY <1>5, <2>2 DEF Entries, Gone
  <2> QED BY <2>1, <2>2
<1>9. Listed(e)
  BY <1>1, <1>4, <1>7, <1>8 DEF Listed
<1> QED BY <1>4, <1>5, <1>6, <1>9 DEF e, r

\* generic_obj_del(): the same, after the object has left its directory.
LEMMA DelIs ==
    ASSUME NEW c, Listed(c), NEW o \in DOMAIN c.obj
    PROVE  LET e == generic_obj_del(c, o)
           IN  /\ Listed(e) /\ e.links = c.links
               /\ ~c.obj[o].my_inode => Gone(c, e, o)
               /\ c.obj[o].my_inode =>
                     /\ DOMAIN e.obj = DOMAIN c.obj
                     /\ \A x \in DOMAIN c.obj \ {o} : e.obj[x] = c.obj[x]
                     /\ e.obj[o].kind = c.obj[o].kind /\ e.obj[o].name = None
                     /\ e.obj[o].equiv = c.obj[o].equiv
                     /\ e.obj[o].my_inode /\ e.obj[o].defered_free
<1> DEFINE out == remove_obj_from_dir(c, o)
           e == generic_obj_del(c, o)
<1>1. Listed(out) /\ Renamed(c, out, o, None)
  BY RemoveDirIs
<1>2. CoreType(c) /\ CoreType(out) /\ None \in Names \cup {None}
  BY <1>1 DEF Listed
<1>3. e = free_obj(out, o)
  BY DEF generic_obj_del
<1> HIDE DEF e, out
<1>4. /\ o \in DOMAIN out.obj /\ out.links = c.links /\ DOMAIN out.obj = DOMAIN c.obj
      /\ out.obj[o] = [c.obj[o] EXCEPT !.name = None]
      /\ \A x \in DOMAIN c.obj \ {o} : out.obj[x] = c.obj[x]
  BY <1>1 DEF Renamed
<1>5. /\ out.obj[o].name = None /\ out.obj[o].kind = c.obj[o].kind
      /\ out.obj[o].my_inode = c.obj[o].my_inode /\ out.obj[o].equiv = c.obj[o].equiv
      /\ out.obj[o] \in Objects
  BY <1>2, <1>4, RenamedObject
<1>6. /\ Listed(e) /\ e.links = out.links
      /\ ~out.obj[o].my_inode => Gone(out, e, o)
      /\ out.obj[o].my_inode =>
            /\ DOMAIN e.obj = DOMAIN out.obj
            /\ \A x \in DOMAIN out.obj \ {o} : e.obj[x] = out.obj[x]
            /\ e.obj[o] = [out.obj[o] EXCEPT !.defered_free = TRUE]
  <2>1. Listed(out) /\ o \in DOMAIN out.obj /\ out.obj[o].name = None
    BY <1>1, <1>4, <1>5
  <2> QED BY <1>3, <2>1, FreeIs
<1>7. ~c.obj[o].my_inode => Gone(c, e, o)
  BY <1>4, <1>5, <1>6 DEF Gone
<1>8. ASSUME c.obj[o].my_inode
      PROVE  /\ e.obj[o].kind = c.obj[o].kind /\ e.obj[o].name = None
             /\ e.obj[o].equiv = c.obj[o].equiv
             /\ e.obj[o].my_inode /\ e.obj[o].defered_free
  BY <1>5, <1>6, <1>8 DEF Objects
<1> QED BY <1>4, <1>5, <1>6, <1>7, <1>8 DEF e

\* The list of the links to f becomes z.
LEMMA LinksOnly ==
    ASSUME NEW c, Listed(c), NEW f \in Ids, NEW z \in Seq(Ids)
    PROVE  LET e == [c EXCEPT !.links[f] = z]
           IN  /\ Listed(e) /\ e.obj = c.obj /\ e.children = c.children
               /\ e.links = [c.links EXCEPT ![f] = z]
<1> DEFINE e == [c EXCEPT !.links[f] = z]
           l == [c.links EXCEPT ![f] = z]
<1>1. CoreType(c) /\ \A x \in Dirs : Holds(c.children[x], Entries(c, x))
  BY DEF Listed
<1>2. c = [obj |-> c.obj, links |-> c.links, children |-> c.children]
  BY <1>1 DEF CoreType
<1>3. e = [obj |-> c.obj, links |-> l, children |-> c.children]
  BY <1>2
<1>4. l \in [Ids -> Seq(Ids)]
  BY <1>1 DEF CoreType
<1> HIDE DEF e, l
<1>5. e.obj = c.obj /\ e.links = l /\ e.children = c.children
  BY <1>3
<1>6. CoreType(e)
  BY <1>1, <1>3, <1>4, <1>5 DEF CoreType
<1>7. \A x \in Dirs : Entries(e, x) = Entries(c, x)
  BY <1>5 DEF Entries
<1> QED BY <1>1, <1>5, <1>6, <1>7 DEF Listed, e, l

-----------------------------------------------------------------------------
(* What an unlinking does.                                                 *)

\* A link x goes, for the unlinking of the object o: o itself, or one whose name
\* the file o takes.
Dropped(c, e, o, x) ==
    LET g == get_equivalent_obj(c, o)
    IN  /\ x \in LinksTo(c, g) /\ o \in {x, g} /\ g \in Ids
        /\ DOMAIN e.obj = DOMAIN c.obj \ {x}
        /\ \A y \in DOMAIN c.obj \ {x} :
              e.obj[y] = IF y = o THEN [c.obj[o] EXCEPT !.name = c.obj[x].name] ELSE c.obj[y]
        /\ e.links = [c.links EXCEPT ![g] = e.links[g]]
        /\ Holds(e.links[g], LinksTo(c, g) \ {x})
        /\ Len(e.links[g]) = Len(c.links[g]) - 1

\* unlink_obj() of a link drops the link itself.
LEMMA UnlinkLink ==
    ASSUME NEW c, Listed(c), Hooked(c), NEW o \in DOMAIN c.obj, c.obj[o].kind = "link"
    PROVE  LET e == unlink_obj(c, o) IN Listed(e) /\ Dropped(c, e, o, o)
<1> DEFINE eq == c.obj[o].equiv
           z == RemoveFirst(c.links[eq], o)
           u == [c EXCEPT !.links[eq] = z]
           e == unlink_obj(c, o)
<1>1. CoreType(c)
  BY DEF Listed
<1>2. o \in Ids /\ o # None /\ eq \in DOMAIN c.obj /\ eq \in Ids /\ ~c.obj[o].my_inode
  BY <1>1, ObjectIs DEF Hooked
<1>3. get_equivalent_obj(c, o) = eq
  BY <1>2 DEF get_equivalent_obj
<1>4. c.links[eq] \in Seq(Ids) /\ Holds(c.links[eq], LinksTo(c, eq)) /\ o \in LinksTo(c, eq)
  BY <1>1, <1>2 DEF CoreType, Hooked, LinksTo
<1>5. /\ z \in Seq(Ids) /\ Holds(z, LinksTo(c, eq) \ {o}) /\ Len(z) = Len(c.links[eq]) - 1
  BY <1>4, RemoveIs
<1>6. e = generic_obj_del(u, o)
  BY DEF unlink_obj
<1>7. /\ Listed(u) /\ u.obj = c.obj /\ u.links = [c.links EXCEPT ![eq] = z]
  BY <1>2, <1>5, LinksOnly
<1> HIDE DEF e, u, z
<1>8. Listed(e) /\ e.links = u.links /\ Gone(u, e, o)
  BY <1>2, <1>6, <1>7, DelIs
<1>9. e.links[eq] = z
  BY <1>1, <1>2, <1>7, <1>8 DEF CoreType
<1>10. Dropped(c, e, o, o)
  BY <1>2, <1>3, <1>4, <1>5, <1>7, <1>8, <1>9 DEF Dropped, Gone
<1> QED BY <1>8, <1>10 DEF e

\* unlink_obj() of a file with links drops the newest link, whose name it takes.
LEMMA UnlinkLinked ==
    ASSUME NEW c, Listed(c), Hooked(c), NEW o \in DOMAIN c.obj, c.obj[o].kind = "file",
           c.links[o] # <<>>
    PROVE  LET e == unlink_obj(c, o)
           IN  Listed(e) /\ Dropped(c, e, o, Head(c.links[o]))
<1> DEFINE hl == Head(c.links[o])
           z == Tail(c.links[o])
           n == c.obj[hl].name
           u == [c EXCEPT !.links[o] = z]
           v == remove_obj_from_dir(u, hl)
           w == change_obj_name(v, o, n)
           e == unlink_obj(c, o)
<1>1. CoreType(c)
  BY DEF Listed
<1>2. o \in Ids /\ o # None /\ get_equivalent_obj(c, o) = o
  BY <1>1, ObjectIs DEF get_equivalent_obj
<1>3. c.links[o] \in Seq(Ids) /\ Holds(c.links[o], LinksTo(c, o))
  BY <1>1, <1>2 DEF CoreType, Hooked
<1>4. /\ hl \in LinksTo(c, o) /\ z \in Seq(Ids) /\ Holds(z, LinksTo(c, o) \ {hl})
      /\ Len(z) = Len(c.links[o]) - 1
  BY <1>3, BehindIs
<1>5. hl \in DOMAIN c.obj /\ c.obj[hl].kind = "link" /\ hl # o /\ ~c.obj[hl].my_inode
  BY <1>4 DEF LinksTo, Hooked
<1>6. n \in Names
  BY <1>1, <1>5, ObjectIs DEF Hooked
<1>7. e = generic_obj_del(w, hl)
  <2>1. c.obj[o].kind # "link"
    OBVIOUS
  <2>2. e = generic_obj_del(change_obj_name(remove_obj_from_dir(
                [c EXCEPT !.links[o] = Tail(@)], hl), o, n), hl)
    BY <2>1 DEF unlink_obj
  <2>3. [c EXCEPT !.links[o] = Tail(@)] = u
    OBVIOUS
  <2>4. v = remove_obj_from_dir([c EXCEPT !.links[o] = Tail(@)], hl)
    BY <2>3, Zenon
  <2> HIDE DEF u, v, e, n, hl
  <2> QED BY <2>2, <2>4 DEF w
<1>8. /\ Listed(u) /\ u.obj = c.obj /\ u.links = [c.links EXCEPT ![o] = z]
  <2>1. z \in Seq(Ids) /\ o \in Ids
    BY <1>2, <1>4
  <2> HIDE DEF z
  <2> QED BY <2>1, LinksOnly
<1> HIDE DEF e, u, z, n
<1>9. Listed(v) /\ Renamed(u, v, hl, None)
  BY <1>5, <1>8, RemoveDirIs
<1> HIDE DEF v
<1>10. o \in DOMAIN v.obj /\ n \in Names \cup {None}
  BY <1>6, <1>8, <1>9 DEF Renamed
<1>11. Listed(w) /\ Renamed(v, w, o, n)
  BY <1>9, <1>10, ChangeNameIs
<1> HIDE DEF w
<1>12. /\ hl \in DOMAIN w.obj /\ w.links = u.links /\ DOMAIN w.obj = DOMAIN c.obj
       /\ w.obj[hl] = [c.obj[hl] EXCEPT !.name = None]
       /\ w.obj[o] = [c.obj[o] EXCEPT !.name = n]
       /\ \A y \in DOMAIN c.obj \ {o, hl} : w.obj[y] = c.obj[y]
  BY <1>5, <1>8, <1>9, <1>11 DEF Renamed
<1>13. ~w.obj[hl].my_inode
  <2>1. c.obj[hl] \in Objects
    BY <1>1, <1>5 DEF CoreType
  <2> QED BY <1>5, <1>12, <2>1 DEF Objects
<1>14. Listed(e) /\ e.links = w.links /\ Gone(w, e, hl)
  BY <1>7, <1>11, <1>12, <1>13, DelIs
<1>15. e.links = [c.links EXCEPT ![o] = z]
  BY <1>8, <1>12, <1>14
<1>16. e.links[o] = z
  BY <1>1, <1>2, <1>15 DEF CoreType
<1>17. DOMAIN e.obj = DOMAIN c.obj \ {hl}
       /\ \A y \in DOMAIN c.obj \ {hl} :
             e.obj[y] = IF y = o THEN [c.obj[o] EXCEPT !.name = n] ELSE c.obj[y]
  BY <1>12, <1>14 DEF Gone
<1>18. Dropped(c, e, o, hl)
  BY <1>2, <1>4, <1>15, <1>16, <1>17 DEF Dropped, n
<1> QED BY <1>14, <1>18 DEF e

\* unlink_obj() of a file without links but with an inode takes the name away.
LEMMA UnlinkLast ==
    ASSUME NEW c, Listed(c), NEW o \in DOMAIN c.obj, c.obj[o].kind = "file",
           c.links[o] = <<>>, c.obj[o].my_inode
    PROVE  LET e == unlink_obj(c, o) IN Listed(e) /\ Renamed(c, e, o, None)
<1>1. unlink_obj(c, o) = change_obj_name(c, o, None)
  BY DEF unlink_obj
<1> QED BY <1>1, None \in Names \cup {None}, ChangeNameIs

\* A file other than g, and what leads to it, stay.
Others(c, e, g) ==
    /\ \A f \in DOMAIN e.obj \ {g} :
          f \in DOMAIN c.obj /\ e.obj[f] = c.obj[f] /\ e.links[f] = c.links[f]
    /\ \A f \in DOMAIN c.obj : c.obj[f].my_inode => f \in DOMAIN e.obj

\* The name m does not lead to the file g any more.
Unlinked(c, e, m, g) ==
    /\ Listed(e) /\ Hooked(e) /\ NamedOnce(e)
    /\ \A n \in Names, f \in Ids : Leads(e, n, f) <=> Leads(c, n, f) /\ ~(n = m /\ f = g)
    /\ Others(c, e, g)
    /\ g \in DOMAIN e.obj /\ g \in DOMAIN c.obj /\ e.obj[g].kind = "file"
    /\ e.obj[g].my_inode = c.obj[g].my_inode
    /\ e.obj[g].defered_free = c.obj[g].defered_free
    /\ get_obj_link_count(e, g) = get_obj_link_count(c, g) - 1

\* A dropped link takes one name from its file and changes nothing else.
LEMMA DroppedSound ==
    ASSUME NEW c, Listed(c), Hooked(c), NamedOnce(c), NEW o \in DOMAIN c.obj,
           c.obj[o].name # None, NEW x, NEW e, Listed(e), Dropped(c, e, o, x)
    PROVE  Unlinked(c, e, c.obj[o].name, get_equivalent_obj(c, o))
<1> DEFINE g == get_equivalent_obj(c, o)
<1>1. CoreType(c) /\ CoreType(e)
  BY DEF Listed
<1>2. /\ x \in DOMAIN c.obj /\ c.obj[x].kind = "link" /\ c.obj[x].equiv = g
      /\ g \in Ids /\ o \in {x, g}
      /\ DOMAIN e.obj = DOMAIN c.obj \ {x}
      /\ \A y \in DOMAIN c.obj \ {x} :
            e.obj[y] = IF y = o THEN [c.obj[o] EXCEPT !.name = c.obj[x].name] ELSE c.obj[y]
      /\ e.links = [c.links EXCEPT ![g] = e.links[g]]
      /\ Holds(e.links[g], LinksTo(c, g) \ {x})
      /\ Len(e.links[g]) = Len(c.links[g]) - 1
  BY DEF Dropped, LinksTo
<1> HIDE DEF g
<1>3. /\ g \in DOMAIN c.obj /\ c.obj[g].kind = "file" /\ g # x
      /\ c.obj[x].name # None /\ ~c.obj[x].my_inode /\ x # None /\ g # None
  BY <1>1, <1>2, ObjectIs DEF Hooked
<1>4. c.links[g] # <<>> /\ c.obj[g].name # None /\ ~c.obj[g].defered_free
  <2>1. c.links[g] \in Seq(Ids) /\ Holds(c.links[g], LinksTo(c, g)) /\ x \in LinksTo(c, g)
    BY <1>1, <1>2 DEF CoreType, Hooked, LinksTo
  <2>2. c.links[g] # <<>>
    BY <2>1, EmptyIs
  <2> QED BY <1>3, <2>2 DEF Hooked
\* The objects that are left.
<1>5. ASSUME NEW y \in DOMAIN e.obj
      PROVE  /\ y \in DOMAIN c.obj /\ y # x /\ y # None /\ y \in Ids
             /\ e.obj[y].kind = c.obj[y].kind /\ e.obj[y].equiv = c.obj[y].equiv
             /\ e.obj[y].my_inode = c.obj[y].my_inode
             /\ e.obj[y].defered_free = c.obj[y].defered_free
             /\ e.obj[y].name = IF y = o THEN c.obj[x].name ELSE c.obj[y].name
             /\ y # g => e.obj[y] = c.obj[y] /\ y # o /\ e.links[y] = c.links[y]
  <2>1. y \in DOMAIN c.obj \ {x} /\ y # None /\ y \in Ids
    BY <1>1, <1>2, ObjectIs
  <2>2. CASE y = o
    <3>1. e.obj[y] = [c.obj[o] EXCEPT !.name = c.obj[x].name] /\ c.obj[o] \in Objects
      BY <1>1, <1>2, <2>1, <2>2 DEF CoreType
    <3>2. y = g
      BY <1>2, <2>1, <2>2
    <3> QED BY <2>1, <2>2, <3>1, <3>2 DEF Objects
  <2>3. CASE y # o
    <3>1. e.obj[y] = c.obj[y]
      BY <1>2, <2>1, <2>3
    <3>2. y # g => e.links[y] = c.links[y]
      BY <1>1, <1>2, <2>1 DEF CoreType
    <3> QED BY <2>1, <2>3, <3>1, <3>2
  <2> QED BY <2>2, <2>3
<1>6. ASSUME NEW y \in DOMAIN e.obj
      PROVE  get_equivalent_obj(e, y) = get_equivalent_obj(c, y)
  BY <1>5 DEF get_equivalent_obj
<1>7. get_equivalent_obj(c, x) = g /\ get_equivalent_obj(c, g) = g
  BY <1>2, <1>3 DEF get_equivalent_obj
<1>8. g \in DOMAIN e.obj
  BY <1>2, <1>3
<1>9. e.obj[g].name # None
  BY <1>3, <1>4, <1>5, <1>8
<1>10. Hooked(e)
  <2>1. ASSUME NEW f \in Ids PROVE Holds(e.links[f], LinksTo(e, f))
    <3>1. LinksTo(e, f) = LinksTo(c, f) \ {x}
      BY <1>2, <1>5 DEF LinksTo
    <3>2. CASE f = g
      BY <1>2, <3>1, <3>2
    <3>3. CASE f # g
      <4>1. x \notin LinksTo(c, f)
        BY <1>2, <3>3 DEF LinksTo
      <4>2. e.links[f] = c.links[f]
        BY <1>1, <1>2, <3>3 DEF CoreType
      <4>3. LinksTo(e, f) = LinksTo(c, f)
        BY <3>1, <4>1
      <4> QED BY <4>2, <4>3 DEF Hooked
    <3> QED BY <3>2, <3>3
  <2>2. ASSUME NEW y \in DOMAIN e.obj
        PROVE  /\ e.obj[y].kind = "link" =>
                     /\ e.obj[y].equiv \in DOMAIN e.obj /\ e.obj[e.obj[y].equiv].kind = "file"
                     /\ e.obj[y].name # None /\ ~e.obj[y].my_inode
               /\ e.obj[y].name = None => e.obj[y].my_inode /\ e.links[y] = <<>>
               /\ e.obj[y].defered_free => e.obj[y].name = None
    <3>1. CASE y = g
      BY <1>3, <1>4, <1>5, <1>9, <3>1
    <3>2. CASE y # g
      <4>1. e.obj[y] = c.obj[y] /\ e.links[y] = c.links[y] /\ y \in DOMAIN c.obj
        BY <1>5, <3>2
      <4>2. ASSUME c.obj[y].kind = "link"
            PROVE  /\ c.obj[y].equiv \in DOMAIN e.obj /\ e.obj[c.obj[y].equiv].kind = "file"
        <5>1. c.obj[y].equiv \in DOMAIN c.obj /\ c.obj[c.obj[y].equiv].kind = "file"
          BY <4>1, <4>2 DEF Hooked
        <5>2. c.obj[y].equiv \in DOMAIN e.obj
          BY <1>2, <5>1
        <5> QED BY <1>5, <5>1, <5>2
      <4> QED BY <4>1, <4>2 DEF Hooked
    <3> QED BY <3>1, <3>2
  <2> QED BY <2>1, <2>2 DEF Hooked
\* The object that had the name of y.
<1> DEFINE Was(y) == IF y = o THEN x ELSE y
<1>11. \A y \in DOMAIN e.obj :
          /\ Was(y) \in DOMAIN c.obj /\ c.obj[Was(y)].name = e.obj[y].name
          /\ get_equivalent_obj(c, Was(y)) = get_equivalent_obj(e, y)
          /\ Was(y) # o \/ o = x
  <2> SUFFICES ASSUME NEW y \in DOMAIN e.obj
               PROVE  /\ Was(y) \in DOMAIN c.obj /\ c.obj[Was(y)].name = e.obj[y].name
                      /\ get_equivalent_obj(c, Was(y)) = get_equivalent_obj(e, y)
                      /\ Was(y) # o \/ o = x
    OBVIOUS
  <2>1. CASE y = o
    <3>1. y = g
      BY <1>2, <1>5, <2>1
    <3> QED BY <1>2, <1>5, <1>6, <1>7, <2>1, <3>1
  <2>2. CASE y # o
    BY <1>5, <1>6, <2>2
  <2> QED BY <2>1, <2>2
<1>12. NamedOnce(e)
  <2> SUFFICES ASSUME NEW y \in DOMAIN e.obj, NEW z \in DOMAIN e.obj,
                      e.obj[y].name = e.obj[z].name, e.obj[y].name # None,
                      get_equivalent_obj(e, y) = get_equivalent_obj(e, z)
               PROVE  y = z
    BY DEF NamedOnce
  <2>1. Was(y) = Was(z)
    BY <1>11 DEF NamedOnce
  <2>2. y # x /\ z # x
    BY <1>5
  <2> QED BY <2>1, <2>2
<1>13. ASSUME NEW n \in Names, NEW f \in Ids
       PROVE  Leads(e, n, f) <=> Leads(c, n, f) /\ ~(n = c.obj[o].name /\ f = g)
  <2>1. n # None
    BY VfsAssumption
  <2>2. ASSUME NEW y \in DOMAIN e.obj, e.obj[y].name = n, get_equivalent_obj(e, y) = f
        PROVE  Leads(c, n, f) /\ ~(n = c.obj[o].name /\ f = g)
    <3>1. Leads(c, n, f)
      BY <1>11, <2>2 DEF Leads
    <3>2. ASSUME n = c.obj[o].name, f = g PROVE FALSE
      <4>1. Was(y) = o
        BY <1>11, <2>1, <2>2, <3>2 DEF NamedOnce, g
      <4> QED BY <1>5, <1>11, <4>1
    <3> QED BY <3>1, <3>2
  <2>3. ASSUME NEW y \in DOMAIN c.obj, c.obj[y].name = n, get_equivalent_obj(c, y) = f,
               ~(n = c.obj[o].name /\ f = g)
        PROVE  Leads(e, n, f)
    <3>1. y # o
      BY <2>3 DEF g
    <3>2. CASE y = x
      <4>1. o = g /\ o \in DOMAIN e.obj
        BY <1>2, <1>8, <3>1, <3>2
      <4>2. e.obj[o].name = n /\ get_equivalent_obj(e, o) = f
        BY <1>5, <1>6, <1>7, <2>3, <3>2, <4>1
      <4> QED BY <4>1, <4>2 DEF Leads
    <3>3. CASE y # x
      <4>1. y \in DOMAIN e.obj
        BY <1>2, <3>3
      <4> QED BY <1>5, <1>6, <2>3, <3>1, <4>1 DEF Leads
    <3> QED BY <3>2, <3>3
  <2> QED BY <2>2, <2>3 DEF Leads
<1>14. Others(c, e, g)
  BY <1>2, <1>3, <1>5 DEF Others
<1>15. get_obj_link_count(e, g) = get_obj_link_count(c, g) - 1
  <2>1. c.links[g] \in Seq(Ids)
    BY <1>1, <1>2 DEF CoreType
  <2>2. Len(c.links[g]) \in Nat
    BY <2>1, LenProperties
  <2> QED BY <1>2, <1>4, <1>9, <2>2 DEF get_obj_link_count
<1>16. Unlinked(c, e, c.obj[o].name, g)
  BY <1>3, <1>5, <1>8, <1>10, <1>12, <1>13, <1>14, <1>15 DEF Unlinked
<1> QED BY <1>16 DEF g

\* So does the end of the only name of a file that has an inode.
LEMMA LastSound ==
    ASSUME NEW c, Listed(c), Hooked(c), NamedOnce(c), NEW o \in DOMAIN c.obj,
           c.obj[o].name # None, c.obj[o].kind = "file", c.obj[o].my_inode,
           c.links[o] = <<>>, NEW e, Listed(e), Renamed(c, e, o, None)
    PROVE  Unlinked(c, e, c.obj[o].name, o)
<1>1. CoreType(c) /\ CoreType(e)
  BY DEF Listed
<1>2. /\ e.links = c.links /\ DOMAIN e.obj = DOMAIN c.obj
      /\ \A y \in DOMAIN c.obj :
            e.obj[y] = IF y = o THEN [c.obj[o] EXCEPT !.name = None] ELSE c.obj[y]
  BY DEF Renamed
<1>3. ASSUME NEW y \in DOMAIN c.obj
      PROVE  /\ y # None /\ y \in Ids
             /\ e.obj[y].kind = c.obj[y].kind /\ e.obj[y].equiv = c.obj[y].equiv
             /\ e.obj[y].my_inode = c.obj[y].my_inode
             /\ e.obj[y].defered_free = c.obj[y].defered_free
             /\ e.obj[y].name = IF y = o THEN None ELSE c.obj[y].name
             /\ y # o => e.obj[y] = c.obj[y]
  <2>1. y # None /\ y \in Ids /\ c.obj[y] \in Objects
    BY <1>1, ObjectIs DEF CoreType
  <2>2. CASE y = o
    BY <1>2, <2>1, <2>2 DEF Objects
  <2>3. CASE y # o
    BY <1>2, <2>1, <2>3
  <2> QED BY <2>2, <2>3
<1>4. \A y \in DOMAIN c.obj : get_equivalent_obj(e, y) = get_equivalent_obj(c, y)
  BY <1>3 DEF get_equivalent_obj
<1>5. get_equivalent_obj(c, o) = o
  BY DEF get_equivalent_obj
<1>6. Hooked(e)
  <2>1. ASSUME NEW f \in Ids PROVE Holds(e.links[f], LinksTo(e, f))
    <3>1. LinksTo(e, f) = LinksTo(c, f)
      BY <1>2, <1>3 DEF LinksTo
    <3> QED BY <1>2, <3>1 DEF Hooked
  <2>2. ASSUME NEW y \in DOMAIN e.obj
        PROVE  /\ e.obj[y].kind = "link" =>
                     /\ e.obj[y].equiv \in DOMAIN e.obj /\ e.obj[e.obj[y].equiv].kind = "file"
                     /\ e.obj[y].name # None /\ ~e.obj[y].my_inode
               /\ e.obj[y].name = None => e.obj[y].my_inode /\ e.links[y] = <<>>
               /\ e.obj[y].defered_free => e.obj[y].name = None
    <3>1. CASE y = o
      BY <1>2, <1>3, <3>1
    <3>2. CASE y # o
      BY <1>2, <1>3, <3>2 DEF Hooked
    <3> QED BY <3>1, <3>2
  <2> QED BY <2>1, <2>2 DEF Hooked
<1>7. NamedOnce(e)
  BY <1>2, <1>3, <1>4 DEF NamedOnce
<1>8. ASSUME NEW n \in Names, NEW f \in Ids
      PROVE  Leads(e, n, f) <=> Leads(c, n, f) /\ ~(n = c.obj[o].name /\ f = o)
  <2>1. n # None
    BY VfsAssumption
  <2>2. ASSUME NEW y \in DOMAIN c.obj, e.obj[y].name = n, get_equivalent_obj(e, y) = f
        PROVE  Leads(c, n, f) /\ ~(n = c.obj[o].name /\ f = o)
    <3>1. y # o /\ c.obj[y].name = n /\ get_equivalent_obj(c, y) = f
      BY <1>3, <1>4, <2>1, <2>2
    <3>2. ~(n = c.obj[o].name /\ f = o)
      BY <1>5, <2>1, <3>1 DEF NamedOnce
    <3> QED BY <3>1, <3>2 DEF Leads
  <2>3. ASSUME NEW y \in DOMAIN c.obj, c.obj[y].name = n, get_equivalent_obj(c, y) = f,
               ~(n = c.obj[o].name /\ f = o)
        PROVE  Leads(e, n, f)
    BY <1>2, <1>3, <1>4, <1>5, <2>3 DEF Leads
  <2> QED BY <1>2, <2>2, <2>3 DEF Leads
<1>9. Others(c, e, o)
  BY <1>2, <1>3 DEF Others
<1>10. get_obj_link_count(e, o) = get_obj_link_count(c, o) - 1
  <2>1. e.obj[o].name = None /\ e.links[o] = <<>> /\ Len(<<>>) = 0
    BY <1>2, <1>3
  <2> QED BY <2>1 DEF get_obj_link_count
<1> QED BY <1>2, <1>3, <1>6, <1>7, <1>8, <1>9, <1>10 DEF Unlinked

\* What goes when o is unlinked: with a file that has links, the newest of them.
Movers(c, o) ==
    {o} \cup (IF c.obj[o].kind = "file" /\ c.links[o] # <<>> THEN {Head(c.links[o])} ELSE {})

\* unlink_obj() takes one name from the file, and only Movers leave or get
\* another.
LEMMA UnlinkSound ==
    ASSUME NEW c, Listed(c), Hooked(c), NamedOnce(c), NEW o \in DOMAIN c.obj,
           c.obj[o].name # None, c.obj[get_equivalent_obj(c, o)].my_inode
    PROVE  LET e == unlink_obj(c, o)
           IN  /\ Unlinked(c, e, c.obj[o].name, get_equivalent_obj(c, o))
               /\ \A y \in DOMAIN c.obj \ Movers(c, o) : y \in DOMAIN e.obj
                                                        /\ e.obj[y] = c.obj[y]
<1> DEFINE e == unlink_obj(c, o)
<1>1. CoreType(c)
  BY DEF Listed
<1>2. c.obj[o].kind \in {"file", "link"} /\ o # None
  BY <1>1, ObjectIs
<1>3. CASE c.obj[o].kind = "link"
  <2>1. Listed(e) /\ Dropped(c, e, o, o)
    BY <1>3, UnlinkLink
  <2> HIDE DEF e
  <2>2. Unlinked(c, e, c.obj[o].name, get_equivalent_obj(c, o))
    BY <2>1, DroppedSound
  <2>3. \A y \in DOMAIN c.obj \ {o} : y \in DOMAIN e.obj /\ e.obj[y] = c.obj[y]
    BY <2>1 DEF Dropped
  <2> QED BY <2>2, <2>3 DEF e, Movers
<1>4. CASE c.obj[o].kind = "file" /\ c.links[o] # <<>>
  <2> DEFINE x == Head(c.links[o])
  <2>1. Listed(e) /\ Dropped(c, e, o, x)
    BY <1>4, UnlinkLinked
  <2> HIDE DEF e, x
  <2>2. Unlinked(c, e, c.obj[o].name, get_equivalent_obj(c, o))
    BY <2>1, DroppedSound
  <2>3. \A y \in DOMAIN c.obj \ {x, o} : y \in DOMAIN e.obj /\ e.obj[y] = c.obj[y]
    BY <2>1 DEF Dropped
  <2>4. Movers(c, o) = {x, o}
    BY <1>4 DEF Movers, x
  <2> QED BY <2>2, <2>3, <2>4 DEF e
<1>5. CASE c.obj[o].kind = "file" /\ c.links[o] = <<>>
  <2>1. get_equivalent_obj(c, o) = o
    BY <1>5 DEF get_equivalent_obj
  <2>2. Listed(e) /\ Renamed(c, e, o, None)
    BY <1>5, <2>1, UnlinkLast
  <2> HIDE DEF e
  <2>3. Unlinked(c, e, c.obj[o].name, o)
    BY <1>5, <2>1, <2>2, LastSound
  <2>4. \A y \in DOMAIN c.obj \ {o} : y \in DOMAIN e.obj /\ e.obj[y] = c.obj[y]
    BY <2>2 DEF Renamed
  <2> QED BY <2>1, <2>3, <2>4 DEF e, Movers
<1> QED BY <1>2, <1>3, <1>4, <1>5

-----------------------------------------------------------------------------
(* What the other operations do.                                           *)

\* The files with an inode stay what they are; those in T lose a link.
Kept(c, e, T) ==
    \A f \in Ids :
        /\ f \in DOMAIN e.obj /\ e.obj[f].my_inode <=> f \in DOMAIN c.obj /\ c.obj[f].my_inode
        /\ f \in DOMAIN c.obj /\ c.obj[f].my_inode =>
              /\ e.obj[f].defered_free = c.obj[f].defered_free
              /\ f \notin T =>
                    /\ e.obj[f].name = None <=> c.obj[f].name = None
                    /\ get_obj_link_count(e, f) = get_obj_link_count(c, f)
              /\ f \in T => get_obj_link_count(e, f) = get_obj_link_count(c, f) - 1

\* An unlinking keeps the files with an inode; the one concerned has a link less.
LEMMA UnlinkedKeeps ==
    ASSUME NEW c, NEW e, NEW m, NEW g, Unlinked(c, e, m, g)
    PROVE  Kept(c, e, {g})
BY DEF Unlinked, Others, Kept, get_obj_link_count

\* Two steps that keep the files with an inode make one.
LEMMA KeptOn ==
    ASSUME NEW c, NEW d, NEW e, NEW S, NEW T, S \cap T = {}, Kept(c, d, S), Kept(d, e, T)
    PROVE  Kept(c, e, S \cup T)
<1> SUFFICES ASSUME NEW f \in Ids
             PROVE  /\ f \in DOMAIN e.obj /\ e.obj[f].my_inode
                         <=> f \in DOMAIN c.obj /\ c.obj[f].my_inode
                    /\ f \in DOMAIN c.obj /\ c.obj[f].my_inode =>
                         /\ e.obj[f].defered_free = c.obj[f].defered_free
                         /\ f \notin S \cup T =>
                               /\ e.obj[f].name = None <=> c.obj[f].name = None
                               /\ get_obj_link_count(e, f) = get_obj_link_count(c, f)
                         /\ f \in S \cup T =>
                               get_obj_link_count(e, f) = get_obj_link_count(c, f) - 1
  BY DEF Kept
<1>1. CASE f \in S
  <2>1. f \notin T
    BY <1>1
  <2> QED BY <1>1, <2>1 DEF Kept
<1>2. CASE f \notin S
  BY <1>2 DEF Kept
<1> QED BY <1>1, <1>2

\* The object with a name, if there is one.
LEMMA FindIs ==
    ASSUME NEW c, CoreType(c), Hooked(c), NEW n \in Names
    PROVE  LET o == find_by_name(c, n)
               g == get_equivalent_obj(c, o)
           IN  /\ o = None => g = None /\ \A f \in Ids : ~Leads(c, n, f)
               /\ o # None =>
                     /\ o \in DOMAIN c.obj /\ c.obj[o].name = n
                     /\ g \in Ids /\ g \in DOMAIN c.obj /\ c.obj[g].kind = "file"
                     /\ Leads(c, n, g)
<1> DEFINE found == {o \in DOMAIN c.obj : c.obj[o].name = n}
<1>1. CASE found = {}
  <2>1. find_by_name(c, n) = None
    BY <1>1 DEF find_by_name
  <2>2. \A f \in Ids : ~Leads(c, n, f)
    BY <1>1 DEF Leads
  <2> QED BY <2>1, <2>2 DEF get_equivalent_obj
<1>2. CASE found # {}
  <2>1. PICK o \in found : o = find_by_name(c, n)
    BY <1>2 DEF find_by_name
  <2>2. o \in DOMAIN c.obj /\ c.obj[o].name = n /\ o \in Ids /\ o # None
        /\ c.obj[o].kind \in {"file", "link"}
    BY <2>1, ObjectIs
  <2> DEFINE g == get_equivalent_obj(c, o)
  <2>3. g \in DOMAIN c.obj /\ c.obj[g].kind = "file"
    BY <2>2 DEF get_equivalent_obj, Hooked
  <2>4. g \in Ids
    BY <2>3, ObjectIs
  <2>5. Leads(c, n, g)
    BY <2>2 DEF Leads
  <2> QED BY <2>1, <2>2, <2>3, <2>4, <2>5
<1> QED BY <1>1, <1>2

\* What a name leads to is a file.
LEMMA LedTo ==
    ASSUME NEW c, CoreType(c), Hooked(c), NEW n \in Names, NEW f, Leads(c, n, f)
    PROVE  /\ f \in Ids /\ f \in DOMAIN c.obj /\ c.obj[f].kind = "file"
           /\ c.obj[f].name # None /\ ~c.obj[f].defered_free
<1>1. PICK o \in DOMAIN c.obj : c.obj[o].name = n /\ get_equivalent_obj(c, o) = f
  BY DEF Leads
<1>2. o \in Ids /\ o # None /\ n # None /\ c.obj[o].kind \in {"file", "link"}
  BY ObjectIs, VfsAssumption
<1>3. CASE c.obj[o].kind = "file"
  <2>1. o = f
    BY <1>1, <1>3 DEF get_equivalent_obj
  <2> QED BY <1>1, <1>2, <1>3, <2>1 DEF Hooked
<1>4. CASE c.obj[o].kind = "link"
  <2>1. c.obj[o].equiv = f
    BY <1>1, <1>2, <1>4 DEF get_equivalent_obj
  <2>2. f \in DOMAIN c.obj /\ c.obj[f].kind = "file"
    BY <1>4, <2>1 DEF Hooked
  <2>3. f \in Ids /\ c.links[f] \in Seq(Ids) /\ Holds(c.links[f], LinksTo(c, f))
        /\ o \in LinksTo(c, f)
    BY <1>4, <2>1, <2>2, ObjectIs DEF CoreType, Hooked, LinksTo
  <2>4. c.links[f] # <<>>
    BY <2>3, EmptyIs
  <2> QED BY <2>2, <2>3, <2>4 DEF Hooked
<1> QED BY <1>2, <1>3, <1>4

\* An object takes the name m, which does not lead to its file already, but by
\* the object itself.
LEMMA RenamedSound ==
    ASSUME NEW c, Listed(c), Hooked(c), NamedOnce(c), NEW o \in DOMAIN c.obj,
           c.obj[o].name # None, NEW m \in Names, NEW g, g = get_equivalent_obj(c, o),
           Leads(c, m, g) => c.obj[o].name = m
    PROVE  LET e == change_obj_name(c, o, m)
           IN  /\ Listed(e) /\ Hooked(e) /\ NamedOnce(e) /\ Kept(c, e, {})
               /\ Renamed(c, e, o, m)
               /\ \A y \in DOMAIN c.obj : get_equivalent_obj(e, y) = get_equivalent_obj(c, y)
               /\ \A n \in Names, f \in Ids :
                     Leads(e, n, f) <=> \/ Leads(c, n, f) /\ ~(n = c.obj[o].name /\ f = g)
                                        \/ n = m /\ f = g
<1> DEFINE e == change_obj_name(c, o, m)
<1>1. Listed(e) /\ Renamed(c, e, o, m)
  BY m \in Names \cup {None}, ChangeNameIs
<1> HIDE DEF e
<1>2. CoreType(c) /\ CoreType(e) /\ m # None
  BY <1>1, VfsAssumption DEF Listed
<1>3. /\ e.links = c.links /\ DOMAIN e.obj = DOMAIN c.obj
      /\ \A y \in DOMAIN c.obj :
            e.obj[y] = IF y = o THEN [c.obj[o] EXCEPT !.name = m] ELSE c.obj[y]
  BY <1>1 DEF Renamed
<1>4. ASSUME NEW y \in DOMAIN c.obj
      PROVE  /\ y # None /\ y \in Ids
             /\ e.obj[y].kind = c.obj[y].kind /\ e.obj[y].equiv = c.obj[y].equiv
             /\ e.obj[y].my_inode = c.obj[y].my_inode
             /\ e.obj[y].defered_free = c.obj[y].defered_free
             /\ e.obj[y].name = IF y = o THEN m ELSE c.obj[y].name
  <2>1. y # None /\ y \in Ids /\ c.obj[y] \in Objects
    BY <1>2, ObjectIs DEF CoreType
  <2>2. CASE y = o
    BY <1>3, <2>1, <2>2 DEF Objects
  <2>3. CASE y # o
    BY <1>3, <2>1, <2>3
  <2> QED BY <2>2, <2>3
<1>5. \A y \in DOMAIN c.obj : get_equivalent_obj(e, y) = get_equivalent_obj(c, y)
  BY <1>4 DEF get_equivalent_obj
<1>6. Hooked(e)
  <2>1. ASSUME NEW f \in Ids PROVE Holds(e.links[f], LinksTo(e, f))
    <3>1. LinksTo(e, f) = LinksTo(c, f)
      BY <1>3, <1>4 DEF LinksTo
    <3> QED BY <1>3, <3>1 DEF Hooked
  <2>2. ASSUME NEW y \in DOMAIN e.obj
        PROVE  /\ e.obj[y].kind = "link" =>
                     /\ e.obj[y].equiv \in DOMAIN e.obj /\ e.obj[e.obj[y].equiv].kind = "file"
                     /\ e.obj[y].name # None /\ ~e.obj[y].my_inode
               /\ e.obj[y].name = None => e.obj[y].my_inode /\ e.links[y] = <<>>
               /\ e.obj[y].defered_free => e.obj[y].name = None
    BY <1>2, <1>3, <1>4 DEF Hooked
  <2> QED BY <2>1, <2>2 DEF Hooked
<1>7. \A y \in DOMAIN c.obj \ {o} : ~(c.obj[y].name = m /\ get_equivalent_obj(c, y) = g)
  BY <1>2 DEF Leads, NamedOnce
<1>8. NamedOnce(e)
  BY <1>3, <1>4, <1>5, <1>7 DEF NamedOnce
<1>9. ASSUME NEW n \in Names, NEW f \in Ids
      PROVE  Leads(e, n, f) <=> \/ Leads(c, n, f) /\ ~(n = c.obj[o].name /\ f = g)
                                \/ n = m /\ f = g
  <2>1. n # None
    BY VfsAssumption
  <2>2. ASSUME NEW y \in DOMAIN c.obj, e.obj[y].name = n, get_equivalent_obj(e, y) = f,
               ~(n = m /\ f = g)
        PROVE  Leads(c, n, f) /\ ~(n = c.obj[o].name /\ f = g)
    <3>1. y # o /\ c.obj[y].name = n /\ get_equivalent_obj(c, y) = f
      BY <1>4, <1>5, <2>2
    <3>2. ~(n = c.obj[o].name /\ f = g)
      BY <2>1, <3>1 DEF NamedOnce
    <3> QED BY <3>1, <3>2 DEF Leads
  <2>3. ASSUME NEW y \in DOMAIN c.obj, c.obj[y].name = n, get_equivalent_obj(c, y) = f,
               ~(n = c.obj[o].name /\ f = g)
        PROVE  Leads(e, n, f)
    BY <1>3, <1>4, <1>5, <2>3 DEF Leads
  <2>4. Leads(e, m, g)
    BY <1>3, <1>4, <1>5 DEF Leads
  <2> QED BY <1>3, <2>2, <2>3, <2>4 DEF Leads
<1>10. Kept(c, e, {})
  <2>1. \A f \in DOMAIN c.obj : e.obj[f].name = None <=> c.obj[f].name = None
    BY <1>2, <1>4
  <2>2. \A f \in DOMAIN c.obj : get_obj_link_count(e, f) = get_obj_link_count(c, f)
    BY <1>3, <2>1 DEF get_obj_link_count
  <2> QED BY <1>3, <1>4, <2>1, <2>2 DEF Kept
<1> QED BY <1>1, <1>5, <1>6, <1>8, <1>9, <1>10 DEF e

\* What CoreSound says of the names.
LEMMA NamesOf ==
    ASSUME NEW c, CoreSound(c), NEW n \in Names
    PROVE  LET o == find_by_name(c, n)
               g == get_equivalent_obj(c, o)
           IN  \A f \in Ids : Leads(c, n, f) <=> o # None /\ f = g
BY FindIs DEF CoreSound, Listed

\* The file g has the name m for n.
Moved(c, e, n, m, o, g) ==
    /\ CoreSound(e)
    /\ \A x \in Names, f \in Ids :
          Leads(e, x, f) <=> \/ x = m /\ f = g
                             \/ x \notin {n, m} /\ Leads(c, x, f)
    /\ o \in DOMAIN e.obj /\ e.obj[o].name = m

KeptNames(c, e, S) ==
    \A y \in DOMAIN c.obj \ S : y \in DOMAIN e.obj /\ e.obj[y].name = c.obj[y].name

\* rename_obj(): the file has the new name instead of the old one, and a file
\* that had it loses a link.
LEMMA RenameSound ==
    ASSUME NEW c, CoreSound(c), NEW n \in Names, NEW m \in Names, n # m,
           NEW o, o = find_by_name(c, n), o # None,
           NEW g, g = get_equivalent_obj(c, o),
           NEW target, target = find_by_name(c, m),
           NEW t, t = get_equivalent_obj(c, target),
           target # None => t # g /\ c.obj[t].my_inode
    PROVE  LET e == rename_obj(c, o, m)
           IN  /\ Moved(c, e, n, m, o, g)
               /\ Kept(c, e, IF target = None THEN {} ELSE {t})
               /\ KeptNames(c, e, {o} \cup IF target = None THEN {}
                                          ELSE Movers(change_obj_name(c, o, m), target))
<1> DEFINE moved == change_obj_name(c, o, m)
           e == rename_obj(c, o, m)
<1>1. /\ Listed(c) /\ CoreType(c) /\ Hooked(c) /\ NamedOnce(c)
      /\ \A x \in Names, f \in Ids, h \in Ids : Leads(c, x, f) /\ Leads(c, x, h) => f = h
  BY DEF CoreSound, Listed
<1>2. /\ o \in DOMAIN c.obj /\ c.obj[o].name = n /\ n # None
      /\ g \in Ids /\ g \in DOMAIN c.obj /\ Leads(c, n, g)
  BY <1>1, FindIs, VfsAssumption
<1>3. target # None =>
        /\ target \in DOMAIN c.obj /\ c.obj[target].name = m
        /\ t \in Ids /\ t \in DOMAIN c.obj /\ c.obj[t].kind = "file" /\ Leads(c, m, t)
  BY <1>1, FindIs
<1>4. target = None => \A f \in Ids : ~Leads(c, m, f)
  BY <1>1, FindIs
<1>5. ~Leads(c, m, g)
  BY <1>1, <1>2, <1>3, <1>4
<1>6. /\ Listed(moved) /\ Hooked(moved) /\ NamedOnce(moved) /\ Kept(c, moved, {})
      /\ Renamed(c, moved, o, m)
      /\ \A y \in DOMAIN c.obj : get_equivalent_obj(moved, y) = get_equivalent_obj(c, y)
      /\ \A x \in Names, f \in Ids :
            Leads(moved, x, f) <=> \/ Leads(c, x, f) /\ ~(x = n /\ f = g)
                                   \/ x = m /\ f = g
  BY <1>1, <1>2, <1>5, RenamedSound
<1> HIDE DEF moved
<1>7. DOMAIN moved.obj = DOMAIN c.obj /\ \A y \in DOMAIN c.obj \ {o} : moved.obj[y] = c.obj[y]
  BY <1>6 DEF Renamed
<1>8. moved.obj[o].name = m
  <2>1. c.obj[o] \in Objects /\ moved.obj[o] = [c.obj[o] EXCEPT !.name = m]
    BY <1>1, <1>2, <1>6 DEF CoreType, Renamed
  <2> QED BY <2>1 DEF Objects
<1>9. CASE target = None
  <2>1. e = moved
    BY <1>9 DEF rename_obj, moved
  <2> HIDE DEF e
  <2>2. ASSUME NEW x \in Names, NEW f \in Ids
        PROVE  Leads(e, x, f) <=> \/ x = m /\ f = g
                                  \/ x \notin {n, m} /\ Leads(c, x, f)
    BY <1>1, <1>2, <1>4, <1>6, <1>9, <2>1
  <2>3. CoreSound(e)
    BY <1>1, <1>6, <2>1, <2>2 DEF CoreSound
  <2>4. Moved(c, e, n, m, o, g)
    BY <1>2, <1>7, <1>8, <2>1, <2>2, <2>3 DEF Moved
  <2>5. Kept(c, e, IF target = None THEN {} ELSE {t})
    BY <1>6, <1>9, <2>1
  <2>6. KeptNames(c, e, {o} \cup IF target = None THEN {} ELSE Movers(moved, target))
    BY <1>7, <1>9, <2>1 DEF KeptNames
  <2> QED BY <2>4, <2>5, <2>6 DEF e, moved
<1>10. CASE target # None
  <2> DEFINE U == unlink_obj(moved, target)
  <2>1. /\ target \in DOMAIN c.obj /\ c.obj[target].name = m
        /\ t \in Ids /\ t \in DOMAIN c.obj /\ c.obj[t].kind = "file" /\ Leads(c, m, t)
        /\ t # g /\ c.obj[t].my_inode
    BY <1>3, <1>10
  <2>2. target # o
    BY <2>1
  <2>3. /\ target \in DOMAIN moved.obj /\ moved.obj[target].name = m /\ m # None
        /\ get_equivalent_obj(moved, target) = t
    BY <1>6, <1>7, <2>1, <2>2, VfsAssumption
  <2>4. moved.obj[t].my_inode
    BY <1>6, <2>1 DEF Kept
  <2>5. /\ Unlinked(moved, U, m, t)
        /\ \A y \in DOMAIN moved.obj \ Movers(moved, target) : y \in DOMAIN U.obj
                                                  /\ U.obj[y] = moved.obj[y]
    BY <1>6, <2>3, <2>4, UnlinkSound
  <2> HIDE DEF U
  <2>6. /\ Listed(U) /\ Hooked(U) /\ NamedOnce(U)
        /\ \A x \in Names, f \in Ids : Leads(U, x, f) <=> Leads(moved, x, f) /\ ~(x = m /\ f = t)
    BY <2>5 DEF Unlinked
  <2>7. o \notin Movers(moved, target)
    <3>1. ASSUME moved.obj[target].kind = "file", moved.links[target] # <<>>,
                 o = Head(moved.links[target])
          PROVE  FALSE
      <4>1. target \in Ids /\ moved.links[target] \in Seq(Ids)
            /\ Holds(moved.links[target], LinksTo(moved, target))
        BY <1>6, <2>3, ObjectIs DEF Listed, CoreType, Hooked
      <4>2. o \in LinksTo(moved, target)
        BY <3>1, <4>1, BehindIs
      <4>3. target = t
        BY <2>3, <3>1 DEF get_equivalent_obj
      <4>4. o # None
        OBVIOUS
      <4>5. get_equivalent_obj(moved, o) = target
        BY <4>2, <4>4 DEF LinksTo, get_equivalent_obj
      <4> QED BY <1>2, <1>6, <2>1, <4>3, <4>5
    <3> QED BY <2>2, <3>1 DEF Movers
  <2>8. /\ o \in DOMAIN U.obj /\ U.obj[o] = moved.obj[o] /\ U.obj[o].name = m
        /\ get_equivalent_obj(U, o) = g
    <3>1. o \in DOMAIN U.obj /\ U.obj[o] = moved.obj[o]
      BY <1>2, <1>7, <2>5, <2>7
    <3>2. get_equivalent_obj(U, o) = get_equivalent_obj(moved, o)
      BY <3>1 DEF get_equivalent_obj
    <3> QED BY <1>2, <1>6, <1>8, <3>1, <3>2
  <2>9. e = change_obj_name(U, o, m)
    BY <1>10 DEF rename_obj, moved, U
  <2> HIDE DEF e
  <2>10. /\ Listed(e) /\ Hooked(e) /\ NamedOnce(e) /\ Kept(U, e, {})
         /\ Renamed(U, e, o, m)
         /\ \A x \in Names, f \in Ids :
               Leads(e, x, f) <=> \/ Leads(U, x, f) /\ ~(x = m /\ f = g)
                                  \/ x = m /\ f = g
    BY <2>3, <2>6, <2>8, <2>9, RenamedSound
  <2>11. Kept(c, e, {t})
    <3>1. Kept(moved, U, {t})
      BY <2>5, UnlinkedKeeps
    <3>2. Kept(c, U, {t})
      BY <1>6, <3>1, KeptOn, {} \cup {t} = {t}
    <3> QED BY <2>10, <3>2, KeptOn, {t} \cup {} = {t}
  <2>12. ASSUME NEW x \in Names, NEW f \in Ids
         PROVE  Leads(e, x, f) <=> \/ x = m /\ f = g
                                   \/ x \notin {n, m} /\ Leads(c, x, f)
    <3>1. x = m => (Leads(c, x, f) <=> f = t)
      BY <1>1, <2>1
    <3>2. x = n => (Leads(c, x, f) <=> f = g)
      BY <1>1, <1>2
    <3> QED BY <1>6, <2>6, <2>10, <3>1, <3>2
  <2>13. CoreSound(e)
    BY <1>1, <2>10, <2>12 DEF CoreSound
  <2>14. e.obj[o].name = m /\ o \in DOMAIN e.obj
    <3>1. U.obj[o] \in Objects /\ e.obj[o] = [U.obj[o] EXCEPT !.name = m]
      BY <2>6, <2>8, <2>10 DEF Listed, CoreType, Renamed
    <3> QED BY <2>8, <2>10, <3>1 DEF Objects, Renamed
  <2>15. ASSUME NEW y \in DOMAIN c.obj \ {o}, y \notin Movers(moved, target)
         PROVE  y \in DOMAIN e.obj /\ e.obj[y].name = c.obj[y].name
    <3>1. y \in DOMAIN U.obj /\ U.obj[y] = c.obj[y]
      BY <1>7, <2>5, <2>15
    <3>2. e.obj[y] = U.obj[y] /\ y \in DOMAIN e.obj
      BY <2>10, <3>1 DEF Renamed
    <3> QED BY <3>1, <3>2
  <2>16. Moved(c, e, n, m, o, g)
    BY <2>12, <2>13, <2>14 DEF Moved
  <2>17. Kept(c, e, IF target = None THEN {} ELSE {t})
    BY <1>10, <2>11
  <2>18. KeptNames(c, e, {o} \cup IF target = None THEN {} ELSE Movers(moved, target))
    BY <1>10, <2>15 DEF KeptNames
  <2> QED BY <2>16, <2>17, <2>18 DEF e, moved
<1> QED BY <1>9, <1>10

\* The link count is a number.
LEMMA CountIs ==
    ASSUME NEW c, CoreType(c), NEW f \in Ids
    PROVE  get_obj_link_count(c, f) \in Nat
<1>1. c.links[f] \in Seq(Ids)
  BY DEF CoreType
<1>2. Len(c.links[f]) \in Nat
  BY <1>1, LenProperties
<1>3. CASE c.obj[f].name = None
  BY <1>2, <1>3 DEF get_obj_link_count
<1>4. CASE c.obj[f].name # None
  BY <1>2, <1>4 DEF get_obj_link_count
<1> QED BY <1>3, <1>4

\* In e, the name n leads to the file h, too.
Created(c, e, n, h) ==
    /\ CoreSound(e)
    /\ \A x \in Names, f \in Ids : Leads(e, x, f) <=> Leads(c, x, f) \/ (x = n /\ f = h)
    /\ \A y \in DOMAIN c.obj : y \in DOMAIN e.obj /\ e.obj[y] = c.obj[y]

\* A new object is named n: a file, or a link to the file h.
LEMMA CreateSound ==
    ASSUME NEW c, CoreSound(c), NEW o \in Ids, o \notin DOMAIN c.obj, NEW n \in Names,
           \A f \in Ids : ~Leads(c, n, f), NEW kind, NEW equiv, NEW h,
           \/ kind = "file" /\ equiv = None /\ h = o
           \/ /\ kind = "link" /\ equiv = h /\ h \in DOMAIN c.obj
              /\ c.obj[h].kind = "file" /\ c.obj[h].name # None
    PROVE  LET e == create_obj(c, o, n, kind, equiv)
           IN  /\ Created(c, e, n, h)
               /\ kind = "file" => Kept(c, e, {})
               /\ kind = "link" => Kept(e, c, {h})
<1> DEFINE e == create_obj(c, o, n, kind, equiv)
           r == [File EXCEPT !.kind = kind, !.equiv = equiv, !.name = n]
           d == DirOf[n]
           l == IF kind = "link" THEN [c.links EXCEPT ![h] = <<o>> \o c.links[h]] ELSE c.links
<1>1. /\ Listed(c) /\ CoreType(c) /\ Hooked(c) /\ NamedOnce(c)
      /\ \A x \in Names, f \in Ids, g \in Ids : Leads(c, x, f) /\ Leads(c, x, g) => f = g
  BY DEF CoreSound, Listed
<1>2. d \in Dirs /\ n # None /\ o # None
  BY VfsAssumption
<1>3. h \in Ids /\ equiv \in Ids \cup {None} /\ kind \in {"file", "link"}
  BY <1>1, ObjectIs
<1>4. /\ r \in Objects /\ r.kind = kind /\ r.equiv = equiv /\ r.name = n
      /\ ~r.my_inode /\ ~r.defered_free
  BY <1>3 DEF Objects, File
<1>5. /\ e = [obj |-> e.obj, links |-> e.links, children |-> e.children]
      /\ e.obj = [p \in DOMAIN c.obj \cup {o} |-> IF p = o THEN r ELSE c.obj[p]] /\ e.links = l
      /\ e.children = [c.children EXCEPT ![d] = <<o>> \o c.children[d]]
  <2> DEFINE kids == [c.children EXCEPT ![d] = <<o>> \o c.children[d]]
             objs == [p \in DOMAIN c.obj \cup {o} |-> IF p = o THEN r ELSE c.obj[p]]
             made == [c EXCEPT !.obj = objs, !.children[d] = <<o>> \o @]
  <2>1. c = [obj |-> c.obj, links |-> c.links, children |-> c.children]
    BY <1>1 DEF CoreType
  <2> HIDE DEF objs
  <2>2. made = [obj |-> objs, links |-> c.links, children |-> kids]
    <3> DEFINE first == <<o>> \o c.children[d]
    <3>1. made = [c EXCEPT !.obj = objs, !.children[d] = first]
      OBVIOUS
    <3> HIDE DEF first, made
    <3>2. made = [obj |-> objs, links |-> c.links, children |-> [c.children EXCEPT ![d] = first]]
      BY <2>1, <3>1
    <3> QED BY <3>2 DEF first
  <2>3. e = IF kind = "link" THEN [made EXCEPT !.links[equiv] = <<o>> \o @] ELSE made
    BY DEF create_obj, objs
  <2> HIDE DEF made, kids, e
  <2>4. CASE kind = "link"
    <3>1. e = [obj |-> objs, links |-> [c.links EXCEPT ![h] = <<o>> \o c.links[h]],
               children |-> kids]
      BY <2>2, <2>3, <2>4
    <3> QED BY <2>4, <3>1 DEF objs, kids
  <2>5. CASE kind # "link"
    <3>1. e = [obj |-> objs, links |-> c.links, children |-> kids]
      BY <2>2, <2>3, <2>5
    <3> QED BY <2>5, <3>1 DEF objs, kids
  <2> QED BY <2>4, <2>5
<1> HIDE DEF e, r
<1>6. /\ DOMAIN e.obj = DOMAIN c.obj \cup {o} /\ e.obj[o] = r
      /\ \A y \in DOMAIN c.obj : e.obj[y] = c.obj[y] /\ y # o
  BY <1>5
<1>7. o \notin LinksTo(c, h) /\ o \notin Entries(c, d)
  BY DEF LinksTo, Entries
<1>8. LinksTo(c, o) = {} /\ c.links[o] = <<>>
  <2>1. LinksTo(c, o) = {}
    BY <1>1 DEF LinksTo, Hooked
  <2>2. c.links[o] \in Seq(Ids) /\ Holds(c.links[o], LinksTo(c, o))
    BY <1>1 DEF CoreType, Hooked
  <2> QED BY <2>1, <2>2, EmptyIs
<1>9. /\ c.links[h] \in Seq(Ids) /\ Holds(c.links[h], LinksTo(c, h))
      /\ <<o>> \o c.links[h] \in Seq(Ids)
      /\ Holds(<<o>> \o c.links[h], LinksTo(c, h) \cup {o})
      /\ Len(<<o>> \o c.links[h]) = Len(c.links[h]) + 1
  <2>1. c.links[h] \in Seq(Ids) /\ Holds(c.links[h], LinksTo(c, h))
    BY <1>1, <1>3 DEF CoreType, Hooked
  <2> QED BY <1>7, <2>1, ConsIs
<1>10. /\ <<o>> \o c.children[d] \in Seq(Ids)
       /\ Holds(<<o>> \o c.children[d], Entries(c, d) \cup {o})
  <2>1. c.children[d] \in Seq(Ids) /\ Holds(c.children[d], Entries(c, d))
    BY <1>1, <1>2 DEF Listed, CoreType
  <2> QED BY <1>7, <2>1, ConsIs
<1>11. CoreType(e)
  <2>1. e.obj \in [DOMAIN e.obj -> Objects] /\ DOMAIN e.obj \in SUBSET Ids
    <3>1. \A y \in DOMAIN e.obj : e.obj[y] \in Objects
      BY <1>1, <1>4, <1>6 DEF CoreType
    <3>2. e.obj = [y \in DOMAIN e.obj |-> e.obj[y]]
      BY <1>5
    <3> QED BY <1>1, <1>6, <3>1, <3>2 DEF CoreType
  <2>2. e.children \in [Dirs -> Seq(Ids)]
    BY <1>1, <1>2, <1>5, <1>10 DEF CoreType
  <2>3. e.links \in [Ids -> Seq(Ids)]
    BY <1>1, <1>3, <1>5, <1>9 DEF CoreType
  <2> QED BY <1>5, <2>1, <2>2, <2>3 DEF CoreType
<1>12. Listed(e)
  <2>1. ASSUME NEW x \in Dirs PROVE Holds(e.children[x], Entries(e, x))
    <3>1. CASE x = d
      <4>1. e.children[x] = <<o>> \o c.children[d]
        BY <1>1, <1>2, <1>5, <3>1 DEF CoreType
      <4>2. Entries(e, x) = Entries(c, d) \cup {o}
        BY <1>2, <1>4, <1>6, <3>1 DEF Entries
      <4> QED BY <1>10, <4>1, <4>2
    <3>2. CASE x # d
      <4>1. e.children[x] = c.children[x]
        BY <1>1, <1>2, <1>5, <3>2 DEF CoreType
      <4>2. Entries(e, x) = Entries(c, x)
        BY <1>4, <1>6, <3>2 DEF Entries
      <4> QED BY <1>1, <4>1, <4>2 DEF Listed
    <3> QED BY <3>1, <3>2
  <2> QED BY <1>11, <2>1 DEF Listed
<1>13. ASSUME NEW f \in Ids
       PROVE  e.links[f] = IF kind = "link" /\ f = h THEN <<o>> \o c.links[h] ELSE c.links[f]
  BY <1>1, <1>3, <1>5 DEF CoreType
<1>14. Hooked(e)
  <2>1. ASSUME NEW f \in Ids PROVE Holds(e.links[f], LinksTo(e, f))
    <3>1. CASE kind = "link" /\ f = h
      <4>1. LinksTo(e, f) = LinksTo(c, h) \cup {o}
        BY <1>4, <1>6, <3>1 DEF LinksTo
      <4> QED BY <1>9, <1>13, <3>1, <4>1
    <3>2. CASE ~(kind = "link" /\ f = h)
      <4>1. LinksTo(e, f) = LinksTo(c, f)
        BY <1>4, <1>6, <3>2 DEF LinksTo
      <4> QED BY <1>1, <1>13, <3>2, <4>1 DEF Hooked
    <3> QED BY <3>1, <3>2
  <2>2. ASSUME NEW y \in DOMAIN e.obj
        PROVE  /\ e.obj[y].kind = "link" =>
                     /\ e.obj[y].equiv \in DOMAIN e.obj /\ e.obj[e.obj[y].equiv].kind = "file"
                     /\ e.obj[y].name # None /\ ~e.obj[y].my_inode
               /\ e.obj[y].name = None => e.obj[y].my_inode /\ e.links[y] = <<>>
               /\ e.obj[y].defered_free => e.obj[y].name = None
    <3>1. CASE y = o
      BY <1>2, <1>3, <1>4, <1>6, <3>1
    <3>2. CASE y # o
      <4>1. y \in DOMAIN c.obj /\ e.obj[y] = c.obj[y] /\ y \in Ids
        BY <1>1, <1>6, <3>2, ObjectIs
      <4>2. ASSUME c.obj[y].name = None PROVE c.links[y] = <<>> /\ e.links[y] = <<>>
        BY <1>1, <1>13, <4>1, <4>2 DEF Hooked
      <4>3. c.obj[y].kind = "link" =>
              c.obj[y].equiv \in DOMAIN c.obj /\ c.obj[c.obj[y].equiv].kind = "file"
        BY <1>1, <4>1 DEF Hooked
      <4> QED BY <1>1, <1>6, <4>1, <4>2, <4>3 DEF Hooked
    <3> QED BY <3>1, <3>2
  <2> QED BY <2>1, <2>2 DEF Hooked
<1>15. \A y \in DOMAIN c.obj : get_equivalent_obj(e, y) = get_equivalent_obj(c, y)
  BY <1>6 DEF get_equivalent_obj
<1>16. get_equivalent_obj(e, o) = h
  BY <1>2, <1>4, <1>6 DEF get_equivalent_obj
<1>17. ASSUME NEW x \in Names, NEW f \in Ids
       PROVE  Leads(e, x, f) <=> Leads(c, x, f) \/ (x = n /\ f = h)
  <2>1. ASSUME Leads(e, x, f) PROVE Leads(c, x, f) \/ (x = n /\ f = h)
    <3>1. PICK y \in DOMAIN e.obj : e.obj[y].name = x /\ get_equivalent_obj(e, y) = f
      BY <2>1 DEF Leads
    <3>2. CASE y = o
      BY <1>4, <1>6, <1>16, <3>1, <3>2
    <3>3. CASE y # o
      <4>1. y \in DOMAIN c.obj /\ c.obj[y].name = x /\ get_equivalent_obj(c, y) = f
        BY <1>6, <1>15, <3>1, <3>3
      <4>2. Leads(c, x, f)
        BY <4>1, Zenon DEF Leads
      <4> QED BY <4>2
    <3> QED BY <3>2, <3>3
  <2>2. Leads(c, x, f) => Leads(e, x, f)
    BY <1>6, <1>15 DEF Leads
  <2>3. Leads(e, n, h)
    BY <1>4, <1>6, <1>16 DEF Leads
  <2> QED BY <2>1, <2>2, <2>3
<1>18. \A y \in DOMAIN c.obj : c.obj[y].name # n
  <2> SUFFICES ASSUME NEW y \in DOMAIN c.obj, c.obj[y].name = n PROVE FALSE
    OBVIOUS
  <2>1. y \in Ids /\ y # None /\ c.obj[y].kind \in {"file", "link"}
    BY <1>1, ObjectIs
  <2>2. get_equivalent_obj(c, y) \in DOMAIN c.obj
    BY <1>1, <2>1 DEF get_equivalent_obj, Hooked
  <2>3. get_equivalent_obj(c, y) \in Ids
    BY <1>1, <2>2, ObjectIs
  <2> QED BY <2>3 DEF Leads
<1>19. NamedOnce(e)
  BY <1>1, <1>4, <1>6, <1>15, <1>18 DEF NamedOnce
<1>20. CoreSound(e)
  BY <1>1, <1>12, <1>14, <1>17, <1>19 DEF CoreSound
<1>21. \A f \in DOMAIN c.obj : f \in Ids /\
          get_obj_link_count(e, f) =
              IF kind = "link" /\ f = h THEN get_obj_link_count(c, f) + 1
              ELSE get_obj_link_count(c, f)
  <2> SUFFICES ASSUME NEW f \in DOMAIN c.obj
               PROVE  f \in Ids /\ get_obj_link_count(e, f) =
                         IF kind = "link" /\ f = h THEN get_obj_link_count(c, f) + 1
                         ELSE get_obj_link_count(c, f)
    OBVIOUS
  <2>1. f \in Ids /\ e.obj[f] = c.obj[f]
    BY <1>1, <1>6, ObjectIs
  <2>2. c.links[h] \in Seq(Ids) /\ Len(c.links[h]) \in Nat
    BY <1>9, LenProperties
  <2> QED BY <1>9, <1>13, <2>1, <2>2 DEF get_obj_link_count
<1>22. kind = "file" => Kept(c, e, {})
  BY <1>4, <1>6, <1>21 DEF Kept
<1>23. ASSUME kind = "link" PROVE Kept(e, c, {h})
  <2>1. \A f \in DOMAIN c.obj : get_obj_link_count(c, f) \in Nat
    BY <1>1, <1>21, CountIs
  <2> QED BY <1>4, <1>6, <1>21, <1>23, <2>1 DEF Kept
<1>24. Created(c, e, n, h)
  BY <1>6, <1>17, <1>20 DEF Created
<1> QED BY <1>22, <1>23, <1>24 DEF e


-----------------------------------------------------------------------------
(* Searches.                                                               *)

\* The searches of k go on in q.
Driven(k, q) ==
    /\ q \in [Procs -> Calling]
    /\ \A p \in Procs :
          /\ q[p].op = k[p].op
          /\ k[p].op # "readdir" => q[p] = k[p]
          /\ k[p].op = "readdir" => q[p].dir = k[p].dir

\* No search stands on a member of S.
Off(k, S) == \A p \in Procs : k[p].op = "readdir" => k[p].next_return \notin S

\* A non-empty set of natural numbers has a least element.
LEMMA LeastNat ==
    ASSUME NEW S \in SUBSET Nat, S # {}
    PROVE  \E x \in S : \A y \in S : x <= y
<1> DEFINE R == OpToRel(<, Nat)
<1>1. \E x \in S : \A y \in S : ~(<<y, x>> \in R)
  BY WFMin, NatLessThanWellFounded
<1>2. \A x, y \in S : <<y, x>> \in R <=> y < x
  BY DEF OpToRel
<1> HIDE DEF R
<1>3. \E x \in S : \A y \in S : ~(y < x)
  BY <1>1, <1>2, Zenon
<1> QED BY <1>3

\* search_advance() finds another entry of the directory, or none.
LEMMA AdvanceIs ==
    ASSUME NEW c, Listed(c), NEW d \in Dirs, NEW l
    PROVE  LET r == search_advance(c, d, l) IN r # None => r \in Entries(c, d) /\ r # l
<1> DEFINE list == c.children[d]
           later == {i \in DOMAIN list : \E j \in 1 .. i - 1 : list[j] = l}
           i0 == CHOOSE i \in later : \A k \in later : i <= k
           r == search_advance(c, d, l)
<1>1. list \in Seq(Ids) /\ Holds(list, Entries(c, d))
  BY DEF Listed, CoreType
<1>2. /\ Len(list) \in Nat /\ DOMAIN list = 1 .. Len(list)
      /\ \A i \in 1 .. Len(list) : list[i] \in Entries(c, d)
      /\ \A i, j \in 1 .. Len(list) : list[i] = list[j] => i = j
  <2> HIDE DEF list
  <2> QED BY <1>1, Elements
<1>3. CASE l = None \/ later = {}
  BY <1>3 DEF search_advance
<1>4. CASE ~(l = None \/ later = {})
  <2>1. r = list[i0]
    BY <1>4 DEF search_advance
  <2>2. i0 \in later
    <3>1. later \in SUBSET Nat /\ later # {}
      BY <1>2, <1>4
    <3>2. \E i \in later : \A k \in later : i <= k
      <4> HIDE DEF later
      <4> QED BY <3>1, LeastNat
    <3> QED BY <3>2
  <2>3. PICK j \in 1 .. i0 - 1 : list[j] = l
    BY <2>2
  <2> HIDE DEF r, i0
  <2>4. i0 \in 1 .. Len(list) /\ j \in 1 .. Len(list) /\ j # i0
    BY <1>2, <2>2, <2>3
  <2> QED BY <1>2, <2>1, <2>3, <2>4 DEF r
<1> QED BY <1>3, <1>4

\* A readdir with another entry to return is a readdir.
LEMMA SearchIs ==
    ASSUME NEW x \in Calling, x.op = "readdir", NEW v \in Ids \cup {None}
    PROVE  LET y == [x EXCEPT !.next_return = v]
           IN  y \in Calling /\ y.op = "readdir" /\ y.dir = x.dir /\ y.next_return = v
               /\ x.dir \in Dirs /\ x.next_return \in Ids \cup {None}
<1>1. x \in [op : {"readdir"}, dir : Dirs, given : BOOLEAN, next_return : Ids \cup {None}]
  BY DEF Calling, Idle
<1> QED BY <1>1 DEF Calling

\* The searches that stand on an entry are on another one before it leaves.
LEMMA MovedSearches ==
    ASSUME NEW c, Listed(c), NEW o \in DOMAIN c.obj, NEW k \in [Procs -> Calling], Stands(k, c)
    PROVE  LET q == search_moved(k, c, o) IN Driven(k, q) /\ Stands(q, c) /\ Off(q, {o})
<1> DEFINE q == search_moved(k, c, o)
           v(p) == IF k[p].next_return = o /\ c.obj[o].name # None
                   THEN search_advance(c, k[p].dir, o) ELSE k[p].next_return
<1>1. CoreType(c) /\ o # None /\ DOMAIN c.obj \in SUBSET Ids
  BY ObjectIs DEF Listed, CoreType
<1>2. ASSUME NEW p \in Procs, k[p].op # "readdir"
      PROVE  q[p] = k[p] /\ q[p] \in Calling
  BY <1>2 DEF search_moved
<1>3. ASSUME NEW p \in Procs, k[p].op = "readdir"
      PROVE  /\ q[p] \in Calling /\ q[p].op = "readdir" /\ q[p].dir = k[p].dir
             /\ q[p].next_return # None => q[p].next_return \in Entries(c, q[p].dir)
             /\ q[p].next_return # o
  <2>1. q[p] = [k[p] EXCEPT !.next_return = v(p)]
    BY <1>3 DEF search_moved
  <2>2. k[p] \in Calling /\ k[p].dir \in Dirs /\ k[p].next_return \in Ids \cup {None}
    BY <1>3, SearchIs
  <2> DEFINE a == search_advance(c, k[p].dir, o)
  <2>3. a # None => a \in Entries(c, k[p].dir) /\ a # o
    BY <2>2, AdvanceIs
  <2> HIDE DEF a
  <2>4. k[p].next_return # None => k[p].next_return \in Entries(c, k[p].dir)
    BY <1>3 DEF Stands
  <2>5. c.obj[o].name = None => o \notin Entries(c, k[p].dir)
    BY DEF Entries
  <2>6. /\ v(p) # None => v(p) \in Entries(c, k[p].dir)
        /\ v(p) # o
    <3>1. CASE k[p].next_return = o /\ c.obj[o].name # None
      <4>1. v(p) = a
        BY <3>1 DEF a
      <4> QED BY <1>1, <2>3, <4>1
    <3>2. CASE ~(k[p].next_return = o /\ c.obj[o].name # None)
      <4>1. v(p) = k[p].next_return
        BY <3>2
      <4> QED BY <1>1, <2>4, <2>5, <3>2, <4>1
    <3> QED BY <3>1, <3>2
  <2> HIDE DEF v, q
  <2>7. v(p) \in Ids \cup {None}
    BY <1>1, <2>6 DEF Entries
  <2> QED BY <1>3, <2>1, <2>2, <2>6, <2>7, SearchIs
<1>4. q = [p \in Procs |-> q[p]]
  BY DEF search_moved
<1> HIDE DEF q
<1>5. q \in [Procs -> Calling]
  BY <1>2, <1>3, <1>4
<1>6. Driven(k, q)
  BY <1>2, <1>3, <1>5 DEF Driven
<1>7. Stands(q, c) /\ Off(q, {o})
  BY <1>2, <1>3 DEF Stands, Off
<1> QED BY <1>6, <1>7 DEF q

\* Entries that keep their names keep their searches.
LEMMA StandsOn ==
    ASSUME NEW c, NEW e, NEW k, NEW S, Stands(k, c), Off(k, S),
           \A y \in DOMAIN c.obj \ S : y \in DOMAIN e.obj /\ e.obj[y].name = c.obj[y].name
    PROVE  Stands(k, e)
BY DEF Stands, Off, Entries

\* Searches that go on twice go on.
LEMMA DrivenOn ==
    ASSUME NEW k, NEW q, NEW r, Driven(k, q), Driven(q, r)
    PROVE  Driven(k, r)
BY DEF Driven

\* No search stands on an object that an unlinking moves.
LEMMA UnlinkedSearches ==
    ASSUME NEW c, Listed(c), Hooked(c), NEW o \in DOMAIN c.obj,
           NEW k \in [Procs -> Calling], Stands(k, c)
    PROVE  LET q == search_unlinked(k, c, o)
           IN  Driven(k, q) /\ Stands(q, c) /\ Off(q, Movers(c, o))
<1> DEFINE q == search_unlinked(k, c, o)
           hl == Head(c.links[o])
           r == search_moved(k, c, hl)
           out == remove_obj_from_dir(c, hl)
<1>1. CASE ~(c.obj[o].kind = "file" /\ c.links[o] # <<>>)
  <2>1. q = search_moved(k, c, o) /\ Movers(c, o) = {o}
    BY <1>1 DEF search_unlinked, Movers
  <2> QED BY <2>1, MovedSearches
<1>2. CASE c.obj[o].kind = "file" /\ c.links[o] # <<>>
  <2>1. q = search_moved(r, out, o) /\ Movers(c, o) = {o, hl}
    BY <1>2 DEF search_unlinked, Movers
  <2>2. hl \in DOMAIN c.obj /\ hl # o
    <3>1. o \in Ids /\ c.links[o] \in Seq(Ids) /\ Holds(c.links[o], LinksTo(c, o))
      BY ObjectIs DEF Listed, CoreType, Hooked
    <3>2. hl \in LinksTo(c, o)
      BY <1>2, <3>1, BehindIs
    <3> QED BY <1>2, <3>2 DEF LinksTo
  <2>3. Driven(k, r) /\ Stands(r, c) /\ Off(r, {hl})
    BY <2>2, MovedSearches
  <2>4. Listed(out) /\ Renamed(c, out, hl, None)
    BY <2>2, RemoveDirIs
  <2> HIDE DEF r, out
  <2>5. /\ DOMAIN out.obj = DOMAIN c.obj
        /\ \A y \in DOMAIN c.obj \ {hl} : out.obj[y] = c.obj[y]
    BY <2>4 DEF Renamed
  <2>6. Stands(r, out)
    BY <2>3, <2>5, StandsOn
  <2>7. r \in [Procs -> Calling]
    BY <2>3 DEF Driven
  <2>8. Driven(r, q) /\ Stands(q, out) /\ Off(q, {o})
    BY <2>1, <2>2, <2>4, <2>5, <2>6, <2>7, MovedSearches
  <2> HIDE DEF q
  <2>9. out.obj[hl].name = None
    <3>1. CoreType(c) /\ None \in Names \cup {None} /\ out.obj[hl] = [c.obj[hl] EXCEPT !.name = None]
      BY <2>2, <2>4 DEF Listed, Renamed
    <3> QED BY <2>2, <3>1, RenamedObject
  <2>10. Off(q, {hl})
    <3> SUFFICES ASSUME NEW p \in Procs, q[p].op = "readdir", q[p].next_return = hl
                 PROVE  FALSE
      BY DEF Off
    <3>1. hl # None
      BY <2>2, ObjectIs DEF Listed
    <3>2. hl \in Entries(out, q[p].dir)
      BY <2>8, <3>1 DEF Stands
    <3> QED BY <2>9, <3>2 DEF Entries
  <2>11. Stands(q, c)
    <3>1. \A d \in Dirs : Entries(out, d) \subseteq Entries(c, d)
      BY <2>2, <2>5, <2>9 DEF Entries
    <3>2. q \in [Procs -> Calling]
      BY <2>8 DEF Driven
    <3>3. ASSUME NEW p \in Procs, q[p].op = "readdir", q[p].next_return # None
          PROVE  q[p].next_return \in Entries(c, q[p].dir)
      <4>1. q[p].dir \in Dirs
        BY <3>2, <3>3 DEF Calling, Idle
      <4>2. q[p].next_return \in Entries(out, q[p].dir)
        BY <2>8, <3>3 DEF Stands
      <4> QED BY <3>1, <4>1, <4>2
    <3> QED BY <3>3 DEF Stands
  <2>12. Driven(k, q)
    BY <2>3, <2>8, DrivenOn
  <2>13. Off(q, Movers(c, o))
    BY <2>1, <2>8, <2>10 DEF Off
  <2> QED BY <2>11, <2>12, <2>13 DEF q
<1> QED BY <1>1, <1>2

-----------------------------------------------------------------------------
(* Marks on an object, and its end.                                        *)

\* The object o is the same but for its marks i and d.
Marked(c, e, o, i, d) ==
    /\ Listed(e) /\ e.links = c.links /\ DOMAIN e.obj = DOMAIN c.obj
    /\ \A x \in DOMAIN c.obj \ {o} : e.obj[x] = c.obj[x]
    /\ e.obj[o].kind = c.obj[o].kind /\ e.obj[o].equiv = c.obj[o].equiv
    /\ e.obj[o].name = c.obj[o].name
    /\ e.obj[o].my_inode = i /\ e.obj[o].defered_free = d

\* my_inode is a mark.
LEMMA MarkIs ==
    ASSUME NEW c, Listed(c), NEW o \in DOMAIN c.obj, NEW b \in BOOLEAN
    PROVE  Marked(c, [c EXCEPT !.obj[o].my_inode = b], o, b, c.obj[o].defered_free)
<1> DEFINE e == [c EXCEPT !.obj[o].my_inode = b]
           r == [c.obj[o] EXCEPT !.my_inode = b]
<1>1. CoreType(c) /\ \A x \in Dirs : Holds(c.children[x], Entries(c, x))
  BY DEF Listed
<1>2. /\ r \in Objects /\ r.kind = c.obj[o].kind /\ r.equiv = c.obj[o].equiv
      /\ r.name = c.obj[o].name /\ r.my_inode = b /\ r.defered_free = c.obj[o].defered_free
  <2>1. c.obj[o] \in Objects
    BY <1>1 DEF CoreType
  <2> QED BY <2>1 DEF Objects
<1>3. /\ e = [obj |-> e.obj, links |-> e.links, children |-> e.children]
      /\ e.obj = [c.obj EXCEPT ![o] = r] /\ e.links = c.links /\ e.children = c.children
  <2> DEFINE objs == [c.obj EXCEPT ![o] = r]
  <2>1. c = [obj |-> c.obj, links |-> c.links, children |-> c.children]
    BY <1>1 DEF CoreType
  <2>2. e = [obj |-> objs, links |-> c.links, children |-> c.children]
    BY <2>1
  <2> QED BY <2>2
<1> HIDE DEF e, r
<1>4. DOMAIN e.obj = DOMAIN c.obj
      /\ \A x \in DOMAIN c.obj : e.obj[x] = IF x = o THEN r ELSE c.obj[x]
  BY <1>3, <1>1 DEF CoreType
<1>5. CoreType(e)
  BY <1>1, <1>2, <1>3, <1>4 DEF CoreType
<1>6. \A x \in Dirs : Entries(e, x) = Entries(c, x)
  BY <1>2, <1>4 DEF Entries
<1>7. Listed(e)
  BY <1>1, <1>3, <1>5, <1>6 DEF Listed
<1> QED BY <1>2, <1>3, <1>4, <1>7 DEF e, Marked

\* The names say the same of an object with another mark.
LEMMA MarkedSound ==
    ASSUME NEW c, CoreSound(c), NEW o \in DOMAIN c.obj, NEW e, NEW i, NEW d,
           Marked(c, e, o, i, d), c.obj[o].kind = "link" => ~i,
           c.obj[o].name = None => i, d => c.obj[o].name = None
    PROVE  /\ CoreSound(e)
           /\ \A n \in Names, f \in Ids : Leads(e, n, f) <=> Leads(c, n, f)
           /\ \A f \in DOMAIN c.obj : get_obj_link_count(e, f) = get_obj_link_count(c, f)
           /\ \A y \in DOMAIN c.obj : y \in DOMAIN e.obj /\ e.obj[y].name = c.obj[y].name
<1>1. /\ Listed(c) /\ CoreType(c) /\ Hooked(c) /\ NamedOnce(c)
      /\ \A x \in Names, f \in Ids, g \in Ids : Leads(c, x, f) /\ Leads(c, x, g) => f = g
  BY DEF CoreSound, Listed
<1>2. /\ Listed(e) /\ e.links = c.links /\ DOMAIN e.obj = DOMAIN c.obj
      /\ \A x \in DOMAIN c.obj \ {o} : e.obj[x] = c.obj[x]
      /\ e.obj[o].kind = c.obj[o].kind /\ e.obj[o].equiv = c.obj[o].equiv
      /\ e.obj[o].name = c.obj[o].name
      /\ e.obj[o].my_inode = i /\ e.obj[o].defered_free = d
  BY DEF Marked
<1>3. \A y \in DOMAIN c.obj : /\ e.obj[y].name = c.obj[y].name
                              /\ e.obj[y].kind = c.obj[y].kind
                              /\ e.obj[y].equiv = c.obj[y].equiv
  BY <1>2
<1>4. \A y \in DOMAIN c.obj : get_equivalent_obj(e, y) = get_equivalent_obj(c, y)
  BY <1>2, <1>3 DEF get_equivalent_obj
<1>5. \A n \in Names, f \in Ids : Leads(e, n, f) <=> Leads(c, n, f)
  BY <1>2, <1>3, <1>4 DEF Leads
<1>6. \A f \in Ids : LinksTo(e, f) = LinksTo(c, f)
  BY <1>2, <1>3 DEF LinksTo
<1>7. Hooked(e)
  <2>1. \A f \in Ids : Holds(e.links[f], LinksTo(e, f))
    BY <1>1, <1>2, <1>6 DEF Hooked
  <2>2. ASSUME NEW y \in DOMAIN e.obj
        PROVE  /\ e.obj[y].kind = "link" =>
                     /\ e.obj[y].equiv \in DOMAIN e.obj /\ e.obj[e.obj[y].equiv].kind = "file"
                     /\ e.obj[y].name # None /\ ~e.obj[y].my_inode
               /\ e.obj[y].name = None => e.obj[y].my_inode /\ e.links[y] = <<>>
               /\ e.obj[y].defered_free => e.obj[y].name = None
    <3>1. /\ c.obj[y].kind = "link" =>
                  /\ c.obj[y].equiv \in DOMAIN c.obj /\ c.obj[c.obj[y].equiv].kind = "file"
                  /\ c.obj[y].name # None
          /\ c.obj[y].name = None => c.links[y] = <<>>
      BY <1>2, <1>1 DEF Hooked
    <3>2. CASE y = o
      BY <1>2, <1>3, <3>1, <3>2
    <3>3. CASE y # o
      BY <1>1, <1>2, <1>3, <3>1, <3>3 DEF Hooked
    <3> QED BY <3>2, <3>3
  <2> QED BY <2>1, <2>2 DEF Hooked
<1>8. NamedOnce(e)
  BY <1>1, <1>2, <1>3, <1>4 DEF NamedOnce
<1>9. CoreSound(e)
  BY <1>1, <1>2, <1>5, <1>7, <1>8 DEF CoreSound
<1>10. \A f \in DOMAIN c.obj : get_obj_link_count(e, f) = get_obj_link_count(c, f)
  BY <1>2, <1>3 DEF get_obj_link_count
<1> QED BY <1>2, <1>3, <1>5, <1>9, <1>10

\* They say the same when an object without a name and links is freed.
LEMMA GoneSound ==
    ASSUME NEW c, CoreSound(c), NEW o \in DOMAIN c.obj, c.obj[o].name = None,
           NEW e, Listed(e), Gone(c, e, o)
    PROVE  /\ CoreSound(e)
           /\ \A n \in Names, f \in Ids : Leads(e, n, f) <=> Leads(c, n, f)
           /\ \A f \in DOMAIN e.obj : /\ f \in DOMAIN c.obj /\ e.obj[f] = c.obj[f]
                                      /\ get_obj_link_count(e, f) = get_obj_link_count(c, f)
<1>1. /\ Listed(c) /\ CoreType(c) /\ Hooked(c) /\ NamedOnce(c)
      /\ \A x \in Names, f \in Ids, g \in Ids : Leads(c, x, f) /\ Leads(c, x, g) => f = g
  BY DEF CoreSound, Listed
<1>2. /\ e.links = c.links /\ DOMAIN e.obj = DOMAIN c.obj \ {o}
      /\ \A x \in DOMAIN e.obj : e.obj[x] = c.obj[x]
  BY DEF Gone
<1>3. \A y \in DOMAIN e.obj : get_equivalent_obj(e, y) = get_equivalent_obj(c, y)
  BY <1>2 DEF get_equivalent_obj
<1>4. \A n \in Names, f \in Ids : Leads(e, n, f) <=> Leads(c, n, f)
  BY <1>2, <1>3, VfsAssumption DEF Leads
<1>5. c.obj[o].kind # "link" /\ o \in Ids
  BY <1>1, ObjectIs DEF Hooked
<1>6. \A f \in Ids : LinksTo(e, f) = LinksTo(c, f)
  BY <1>2, <1>5 DEF LinksTo
<1>7. LinksTo(c, o) = {}
  <2>1. c.links[o] = <<>> /\ c.links[o] \in Seq(Ids) /\ Holds(c.links[o], LinksTo(c, o))
    BY <1>1, <1>5 DEF Hooked, CoreType
  <2> QED BY <2>1, EmptyIs
<1>8. Hooked(e)
  <2>1. \A f \in Ids : Holds(e.links[f], LinksTo(e, f))
    BY <1>1, <1>2, <1>6 DEF Hooked
  <2>2. ASSUME NEW y \in DOMAIN e.obj
        PROVE  /\ e.obj[y].kind = "link" =>
                     /\ e.obj[y].equiv \in DOMAIN e.obj /\ e.obj[e.obj[y].equiv].kind = "file"
                     /\ e.obj[y].name # None /\ ~e.obj[y].my_inode
               /\ e.obj[y].name = None => e.obj[y].my_inode /\ e.links[y] = <<>>
               /\ e.obj[y].defered_free => e.obj[y].name = None
    <3>1. y \in DOMAIN c.obj /\ e.obj[y] = c.obj[y]
      BY <1>2
    <3>2. c.obj[y].kind = "link" => c.obj[y].equiv # o
      BY <1>7, <3>1 DEF LinksTo
    <3> QED BY <1>1, <1>2, <3>1, <3>2 DEF Hooked
  <2> QED BY <2>1, <2>2 DEF Hooked
<1>9. NamedOnce(e)
  BY <1>1, <1>2, <1>3 DEF NamedOnce
<1>10. CoreSound(e)
  BY <1>1, <1>4, <1>8, <1>9 DEF CoreSound
<1>11. \A f \in DOMAIN e.obj : get_obj_link_count(e, f) = get_obj_link_count(c, f)
  BY <1>2 DEF get_obj_link_count
<1> QED BY <1>2, <1>4, <1>10, <1>11

-----------------------------------------------------------------------------
(* What the parts of the invariant need of a step.                         *)

\* Calls that are no readdir are not touched when the searches go on.
LEMMA DrivenNames ==
    ASSUME NEW k, NEW q, Driven(k, q)
    PROVE  \A p \in Procs :
              /\ q[p] = Idle <=> k[p] = Idle
              /\ q[p].op \in {"lookup", "mknod"} <=> k[p].op \in {"lookup", "mknod"}
              /\ k[p].op \in {"lookup", "mknod"} => q[p] = k[p]
BY DEF Driven, Idle

\* The calls that hold a directory go on.
LEMMA CallsKept ==
    ASSUME CallInv, Driven(call, call'),
           \A p \in Procs : call[p].op \in {"lookup", "mknod"} =>
               /\ Leads(core', call[p].name, call[p].id)
               /\ inode[call[p].id].state \in {"new", "live"} =>
                      inode'[call[p].id].state = inode[call[p].id].state
    PROVE  CallInv'
<1>1. \A p \in Procs :
         /\ call'[p] = Idle <=> call[p] = Idle
         /\ call'[p].op \in {"lookup", "mknod"} <=> call[p].op \in {"lookup", "mknod"}
         /\ call[p].op \in {"lookup", "mknod"} => call'[p] = call[p]
  BY DrivenNames
<1>2. \A p \in Procs : LockedDir(p)' = LockedDir(p)
  BY DEF LockedDir, Reading, Driven
<1>3. (\A p, q \in Procs :
          p # q /\ call[p] # Idle /\ call[q] # Idle => LockedDir(p) # LockedDir(q))'
  BY <1>1, <1>2 DEF CallInv
<1>4. (\A p \in Procs : call[p].op \in {"lookup", "mknod"} =>
          /\ Leads(core, call[p].name, call[p].id)
          /\ call[p].step = "fill" => inode[call[p].id].state = "new"
          /\ call[p].step = "add" => inode[call[p].id].state = "live")'
  BY <1>1 DEF CallInv
<1>5. (\A p, q \in Procs :
          /\ call[p].op \in {"lookup", "mknod"} /\ call[p].step = "fill"
          /\ call[q].op \in {"lookup", "mknod"} /\ call[q].step = "fill"
          /\ call[p].id = call[q].id
          => p = q)'
  BY <1>1 DEF CallInv
<1> QED BY <1>3, <1>4, <1>5 DEF CallInv

\* A name is being made before exactly if it is after.
LEMMA CreatingKept ==
    ASSUME Driven(call, call'), NEW n \in Names
    PROVE  Creating(n)' <=> Creating(n)
BY DEF Driven, Creating

\* A directory that is free for a name has no call that looks it up or makes it.
LEMMA FreeIsFree ==
    ASSUME NEW n \in Names, FreeDir(n), TypeOK
    PROVE  /\ ~Creating(n)
           /\ \A p \in Procs : call[p].op \in {"lookup", "mknod"} => call[p].name # n
<1>1. \A p \in Procs : call[p].op \in {"lookup", "mknod"} => LockedDir(p) = DirOf[call[p].name]
  BY DEF LockedDir, Reading
<1> QED BY <1>1 DEF FreeDir, Creating

\* What a positive dentry says.
LEMMA PositiveIs ==
    ASSUME IInv, NEW n \in Names, Positive(n)
    PROVE  LET f == dentry[n]
           IN  /\ f \in Ids /\ Leads(core, n, f) /\ f \in DOMAIN core.obj
               /\ inode[f].state = "live" /\ inode[f].obj
               /\ core.obj[f].my_inode /\ core.obj[f].kind = "file"
               /\ core.obj[f].name # None /\ ~core.obj[f].defered_free
               /\ f = get_equivalent_obj(core, find_by_name(core, n))
<1> DEFINE f == dentry[n]
<1>1. f \in Ids
  BY DEF Positive
<1>2. inode[f].state = "live" /\ Leads(core, n, f)
  BY <1>1 DEF IInv, DentryInv
<1>3. f \in DOMAIN core.obj /\ core.obj[f].kind = "file"
      /\ core.obj[f].name # None /\ ~core.obj[f].defered_free
  BY <1>2, LedTo DEF IInv, CoreSound, Listed
<1>4. inode[f].obj /\ core.obj[f].my_inode
  BY <1>1, <1>2 DEF IInv, InodeInv
<1>5. f = get_equivalent_obj(core, find_by_name(core, n))
  BY <1>1, <1>2, NamesOf DEF IInv
<1> QED BY <1>1, <1>2, <1>3, <1>4, <1>5

\* The inodes go on as the objects do, but those of T, which lose a link.
LEMMA InodesKept ==
    ASSUME TypeOK, InodeInv, NEW T, Kept(core, core', T), opens' = opens,
           \A o \in T : o \in Ids => inode[o].state = "live",
           \A o \in Ids : /\ inode'[o].state = inode[o].state /\ inode'[o].obj = inode[o].obj
                          /\ inode'[o].nlink = IF o \in T THEN inode[o].nlink - 1
                                               ELSE inode[o].nlink
    PROVE  InodeInv'
<1> SUFFICES ASSUME NEW o \in Ids
             PROVE  /\ inode'[o].obj <=> inode'[o].state \in {"live", "deleting", "unstitching"}
                    /\ inode'[o].obj <=> o \in DOMAIN core'.obj /\ core'.obj[o].my_inode
                    /\ inode'[o].state = "live" => inode'[o].nlink = get_obj_link_count(core', o)
                    /\ inode'[o].state \in {"live", "deleting"} => ~core'.obj[o].defered_free
                    /\ inode'[o].state = "deleting" => core'.obj[o].name = None
                    /\ inode'[o].state = "unstitching" /\ core'.obj[o].name = None
                           => core'.obj[o].defered_free
                    /\ opens'[o] > 0 => inode'[o].state = "live"
  BY DEF InodeInv
<1>1. /\ inode[o].obj <=> inode[o].state \in {"live", "deleting", "unstitching"}
      /\ inode[o].obj <=> o \in DOMAIN core.obj /\ core.obj[o].my_inode
      /\ inode[o].state = "live" => inode[o].nlink = get_obj_link_count(core, o)
      /\ inode[o].state \in {"live", "deleting"} => ~core.obj[o].defered_free
      /\ inode[o].state = "deleting" => core.obj[o].name = None
      /\ inode[o].state = "unstitching" /\ core.obj[o].name = None
             => core.obj[o].defered_free
      /\ opens[o] > 0 => inode[o].state = "live"
  BY DEF InodeInv
<1>2. /\ o \in DOMAIN core'.obj /\ core'.obj[o].my_inode
           <=> o \in DOMAIN core.obj /\ core.obj[o].my_inode
      /\ o \in DOMAIN core.obj /\ core.obj[o].my_inode =>
            /\ core'.obj[o].defered_free = core.obj[o].defered_free
            /\ o \notin T => /\ core'.obj[o].name = None <=> core.obj[o].name = None
                             /\ get_obj_link_count(core', o) = get_obj_link_count(core, o)
            /\ o \in T => get_obj_link_count(core', o) = get_obj_link_count(core, o) - 1
  BY DEF Kept
<1>3. o \in T => inode[o].state = "live"
  OBVIOUS
<1>4. /\ inode'[o].state = inode[o].state /\ inode'[o].obj = inode[o].obj
      /\ inode'[o].nlink = IF o \in T THEN inode[o].nlink - 1 ELSE inode[o].nlink
  OBVIOUS
<1>5. inode'[o].state = "live" => inode'[o].nlink = get_obj_link_count(core', o)
  BY <1>1, <1>2, <1>4
<1> QED BY <1>1, <1>2, <1>3, <1>4, <1>5

-----------------------------------------------------------------------------
(* Lookups and creations.                                                  *)

\* A call that has no lock yet takes one.
LEMMA CallsJoined ==
    ASSUME CallInv, NEW p \in Procs, call[p] = Idle, NEW k, NEW n \in Names,
           \A q \in Procs : LockedDir(q) # DirOf[n], k.op # "idle",
           call \in [Procs -> Calling], call' = [call EXCEPT ![p] = k],
           \/ k.op = "readdir" /\ k.dir = DirOf[n]
           \/ k.op \in {"lookup", "mknod"} /\ k.name = n /\ k.step = "iget"
              /\ Leads(core', n, k.id),
           \A q \in Procs : call[q].op \in {"lookup", "mknod"} =>
               Leads(core', call[q].name, call[q].id),
           inode' = inode
    PROVE  CallInv'
<1>1. call'[p] = k /\ \A q \in Procs \ {p} : call'[q] = call[q]
  OBVIOUS
<1>2. LockedDir(p)' = DirOf[n] /\ \A q \in Procs \ {p} : LockedDir(q)' = LockedDir(q)
  BY <1>1 DEF LockedDir, Reading
<1>3. (\A q, r \in Procs :
          q # r /\ call[q] # Idle /\ call[r] # Idle => LockedDir(q) # LockedDir(r))'
  <2>1. ASSUME NEW q \in Procs, NEW r \in Procs, q # r, call'[q] # Idle, call'[r] # Idle
        PROVE  LockedDir(q)' # LockedDir(r)'
    <3>1. CASE q = p
      BY <1>2, <2>1, <3>1
    <3>2. CASE r = p
      BY <1>2, <2>1, <3>2
    <3>3. CASE q # p /\ r # p
      BY <1>1, <1>2, <2>1, <3>3 DEF CallInv
    <3> QED BY <3>1, <3>2, <3>3
  <2> QED BY <2>1
<1>4. (\A q \in Procs : call[q].op \in {"lookup", "mknod"} =>
          /\ Leads(core, call[q].name, call[q].id)
          /\ call[q].step = "fill" => inode[call[q].id].state = "new"
          /\ call[q].step = "add" => inode[call[q].id].state = "live")'
  <2>1. ASSUME NEW q \in Procs, call'[q].op \in {"lookup", "mknod"}
        PROVE  /\ Leads(core', call'[q].name, call'[q].id)
               /\ call'[q].step = "fill" => inode'[call'[q].id].state = "new"
               /\ call'[q].step = "add" => inode'[call'[q].id].state = "live"
    <3>1. CASE q = p
      BY <1>1, <2>1, <3>1
    <3>2. CASE q # p
      BY <1>1, <2>1, <3>2 DEF CallInv
    <3> QED BY <3>1, <3>2
  <2> QED BY <2>1
<1>5. (\A q, r \in Procs :
          /\ call[q].op \in {"lookup", "mknod"} /\ call[q].step = "fill"
          /\ call[r].op \in {"lookup", "mknod"} /\ call[r].step = "fill"
          /\ call[q].id = call[r].id
          => q = r)'
  <2>1. \A q \in Procs : call'[q].op \in {"lookup", "mknod"} /\ call'[q].step = "fill"
            => call'[q] = call[q]
    BY <1>1
  <2> QED BY <2>1 DEF CallInv
<1> QED BY <1>3, <1>4, <1>5 DEF CallInv

\* yaffs_lookup() up to the release of the lock keeps the invariant.
LEMMA LookupKeeps ==
    ASSUME IInv, NEW p \in Procs, NEW n \in Names, Lookup(p, n)
    PROVE  IInv'
<1> DEFINE o == get_equivalent_obj(core, find_by_name(core, n))
<1>1. /\ TypeOK /\ CoreSound(core) /\ CallInv /\ InodeInv /\ DentryInv /\ Stands(call, core)
      /\ CoreType(core) /\ Hooked(core)
  BY DEF IInv, TypeOK, CoreSound
<1>2. core' = core /\ inode' = inode /\ opens' = opens /\ call[p] = Idle /\ FreeDir(n)
  BY DEF Lookup
<1>3. /\ o = None => \A f \in Ids : ~Leads(core, n, f)
      /\ o # None => o \in Ids /\ Leads(core, n, o)
  BY <1>1, FindIs, VfsAssumption
<1>4. InodeInv'
  BY <1>1, <1>2 DEF InodeInv
<1>5. CASE o = None
  <2>1. dentry' = [dentry EXCEPT ![n] = Negative] /\ call' = call
    BY <1>5 DEF Lookup
  <2> HIDE DEF o
  <2>2. TypeOK'
    BY <1>1, <1>2, <2>1 DEF TypeOK
  <2>3. CallInv'
    BY <1>1, <1>2, <2>1 DEF CallInv, LockedDir, Reading
  <2>4. DentryInv'
    <3> SUFFICES ASSUME NEW x \in Names
                 PROVE  /\ dentry'[x] \in Ids =>
                               inode'[dentry'[x]].state = "live" /\ Leads(core', x, dentry'[x])
                        /\ dentry'[x] = Negative /\ ~Creating(x)' =>
                               \A f \in Ids : ~Leads(core', x, f)
      BY DEF DentryInv
    <3>1. Creating(x)' <=> Creating(x)
      BY <2>1 DEF Creating
    <3>2. CASE x = n
      BY <1>1, <1>2, <1>3, <1>5, <2>1, <3>2, VfsAssumption DEF TypeOK
    <3>3. CASE x # n
      BY <1>1, <1>2, <2>1, <3>1, <3>3 DEF DentryInv
    <3> QED BY <3>2, <3>3
  <2> QED BY <1>1, <1>2, <1>4, <2>1, <2>2, <2>3, <2>4 DEF IInv
<1>6. CASE o # None
  <2> DEFINE k == [op |-> "lookup", step |-> "iget", name |-> n, id |-> o]
  <2>1. dentry' = dentry /\ call' = [call EXCEPT ![p] = k]
    BY <1>6 DEF Lookup
  <2>2. k \in Calling /\ k.op = "lookup" /\ k.step = "iget" /\ k.name = n /\ k.id = o
    BY <1>3, <1>6 DEF Calling
  <2> HIDE DEF o, k
  <2>3. TypeOK'
    BY <1>1, <1>2, <2>1, <2>2 DEF TypeOK
  <2>4. CallInv'
    <3>1. \A q \in Procs : LockedDir(q) # DirOf[n]
      BY <1>2 DEF FreeDir
    <3>2. \A q \in Procs : call[q].op \in {"lookup", "mknod"} =>
               Leads(core', call[q].name, call[q].id)
      BY <1>1, <1>2 DEF CallInv
    <3>3. call \in [Procs -> Calling]
      BY <1>1 DEF TypeOK
    <3>4. Leads(core', n, k.id)
      BY <1>2, <1>3, <1>6, <2>2
    <3> QED BY <1>1, <1>2, <2>1, <2>2, <3>1, <3>2, <3>3, <3>4, CallsJoined
  <2>5. DentryInv'
    <3>1. \A x \in Names : Creating(x)' <=> Creating(x)
      BY <1>1, <1>2, <2>1, <2>2 DEF Creating, Idle, TypeOK
    <3> QED BY <1>1, <1>2, <2>1, <3>1 DEF DentryInv
  <2>6. Stands(call', core')
    BY <1>1, <1>2, <2>1, <2>2 DEF Stands, TypeOK
  <2> QED BY <1>1, <1>2, <1>4, <2>3, <2>4, <2>5, <2>6 DEF IInv
<1> QED BY <1>5, <1>6

\* yaffs_mknod() up to the release of the lock keeps the invariant: the number of
\* the new object is not one an inode has.
LEMMA MknodKeeps ==
    ASSUME IInv, NEW p \in Procs, NEW n \in Names, NEW o \in Ids, Mknod(p, n, o)
    PROVE  IInv'
<1> DEFINE k == [op |-> "mknod", step |-> "iget", name |-> n, id |-> o]
<1>1. /\ TypeOK /\ CoreSound(core) /\ CallInv /\ InodeInv /\ DentryInv /\ Stands(call, core)
  BY DEF IInv
<1>2. /\ call[p] = Idle /\ FreeDir(n) /\ dentry[n] = Negative /\ o \notin DOMAIN core.obj
      /\ core' = create_obj(core, o, n, "file", None) /\ call' = [call EXCEPT ![p] = k]
      /\ inode' = inode /\ dentry' = dentry /\ opens' = opens
  BY DEF Mknod, Live
<1>3. k \in Calling /\ k.op = "mknod" /\ k.step = "iget" /\ k.name = n /\ k.id = o
  BY DEF Calling
<1> HIDE DEF k
<1>4. \A f \in Ids : ~Leads(core, n, f)
  BY <1>1, <1>2, FreeIsFree DEF DentryInv
<1>5. /\ CoreSound(core')
      /\ \A x \in Names, f \in Ids : Leads(core', x, f) <=> Leads(core, x, f) \/ (x = n /\ f = o)
      /\ Kept(core, core', {})
      /\ \A y \in DOMAIN core.obj : y \in DOMAIN core'.obj /\ core'.obj[y] = core.obj[y]
  <2> DEFINE kind == "file"
             equiv == None
             h == o
             e == create_obj(core, o, n, kind, equiv)
  <2>1. core' = e /\ kind = "file" /\ equiv = None /\ h = o
    BY <1>2
  <2> HIDE DEF kind, equiv, h
  <2>2. Created(core, e, n, h) /\ (kind = "file" => Kept(core, e, {}))
    BY <1>1, <1>2, <1>4, <2>1, CreateSound
  <2> HIDE DEF e
  <2> QED BY <2>1, <2>2 DEF Created
<1>6. TypeOK'
  BY <1>1, <1>2, <1>3, <1>5 DEF TypeOK, CoreSound, Listed
<1>7. CallInv'
  <2>1. \A q \in Procs : LockedDir(q) # DirOf[n]
    BY <1>2 DEF FreeDir
  <2>2. ASSUME NEW q \in Procs, call[q].op \in {"lookup", "mknod"}
        PROVE  Leads(core', call[q].name, call[q].id)
    <3>1. call[q].name \in Names /\ call[q].id \in Ids
      BY <1>1, <2>2 DEF TypeOK, Calling, Idle
    <3> QED BY <1>1, <1>5, <2>2, <3>1 DEF CallInv
  <2>3. call \in [Procs -> Calling]
    BY <1>1 DEF TypeOK
  <2>4. Leads(core', n, k.id)
    BY <1>3, <1>5
  <2> QED BY <1>1, <1>2, <1>3, <2>1, <2>2, <2>3, <2>4, CallsJoined
<1>8. InodeInv'
  BY <1>1, <1>2, <1>5, InodesKept
<1>9. DentryInv'
  <2> SUFFICES ASSUME NEW x \in Names
               PROVE  /\ dentry'[x] \in Ids =>
                             inode'[dentry'[x]].state = "live" /\ Leads(core', x, dentry'[x])
                      /\ dentry'[x] = Negative /\ ~Creating(x)' =>
                             \A f \in Ids : ~Leads(core', x, f)
    BY DEF DentryInv
  <2>1. Creating(x)' <=> Creating(x) \/ x = n
    BY <1>1, <1>2, <1>3 DEF Creating, Idle, TypeOK
  <2> QED BY <1>1, <1>2, <1>5, <2>1 DEF DentryInv
<1>10. Stands(call', core')
  <2>1. Stands(call, core')
    BY <1>1, <1>5, StandsOn DEF Off
  <2> QED BY <1>1, <1>2, <1>3, <2>1 DEF Stands, TypeOK
<1> QED BY <1>5, <1>6, <1>7, <1>8, <1>9, <1>10 DEF IInv

\* A call in the middle of a lookup or a creation.
LEMMA CallIs ==
    ASSUME IInv, NEW p \in Procs, call[p].op \in {"lookup", "mknod"}
    PROVE  /\ call[p].name \in Names /\ call[p].id \in Ids
           /\ call[p].step \in {"iget", "fill", "add"} /\ call[p] # Idle
           /\ Leads(core, call[p].name, call[p].id)
           /\ call[p].step = "fill" => inode[call[p].id].state = "new"
           /\ call[p].step = "add" => inode[call[p].id].state = "live"
<1>1. call[p] \in [op : {"lookup", "mknod"}, step : {"iget", "fill", "add"},
                   name : Names, id : Ids]
  BY DEF IInv, TypeOK, Calling, Idle
<1>2. call[p] # Idle
  BY DEF Idle
<1> QED BY <1>1, <1>2 DEF IInv, CallInv

\* Its next step leaves the name and the number alone.
LEMMA StepIs ==
    ASSUME IInv, NEW p \in Procs, call[p].op \in {"lookup", "mknod"},
           NEW s \in {"iget", "fill", "add"}
    PROVE  LET k == [call[p] EXCEPT !.step = s]
           IN  /\ k \in Calling /\ k.op = call[p].op /\ k.name = call[p].name
               /\ k.id = call[p].id /\ k.step = s
<1>1. call[p] \in [op : {"lookup", "mknod"}, step : {"iget", "fill", "add"},
                   name : Names, id : Ids]
  BY DEF IInv, TypeOK, Calling, Idle
<1> QED BY <1>1 DEF Calling

\* It takes its next step.
LEMMA CallsStepped ==
    ASSUME IInv, NEW p \in Procs, call[p].op \in {"lookup", "mknod"},
           NEW s \in {"fill", "add"}, call' = [call EXCEPT ![p].step = s],
           \A n \in Names, f \in Ids : Leads(core', n, f) <=> Leads(core, n, f),
           s = "fill" => inode[call[p].id].state = "none" /\ inode'[call[p].id].state = "new",
           s = "add" => inode'[call[p].id].state = "live",
           \A o \in Ids \ {call[p].id} : inode'[o].state = inode[o].state,
           \A q \in Procs \ {p} : call[q].op \in {"lookup", "mknod"} /\ call[q].id = call[p].id =>
               /\ call[q].step = "fill" => inode'[call[q].id].state = "new"
               /\ call[q].step = "add" => inode'[call[q].id].state = "live"
    PROVE  /\ CallInv' /\ call' \in [Procs -> Calling]
           /\ \A n \in Names : Creating(n)' <=> Creating(n)
           /\ \A c : Stands(call, c) => Stands(call', c)
<1> DEFINE k == [call[p] EXCEPT !.step = s]
<1>1. CallInv /\ call \in [Procs -> Calling]
  BY DEF IInv, TypeOK
<1>2. /\ k \in Calling /\ k.op = call[p].op /\ k.name = call[p].name
      /\ k.id = call[p].id /\ k.step = s
      /\ call[p].name \in Names /\ call[p].id \in Ids /\ call[p] # Idle
      /\ Leads(core, call[p].name, call[p].id)
  <2>1. s \in {"iget", "fill", "add"}
    OBVIOUS
  <2> QED BY <2>1, CallIs, StepIs
<1>3. call' = [call EXCEPT ![p] = k]
  OBVIOUS
<1> HIDE DEF k
<1>4. call'[p] = k /\ \A q \in Procs \ {p} : call'[q] = call[q]
  BY <1>1, <1>3
<1>5. k # Idle
  BY <1>2 DEF Idle
<1>6. \A q \in Procs : LockedDir(q)' = LockedDir(q)
  BY <1>2, <1>4 DEF LockedDir, Reading
<1>7. (\A q, r \in Procs :
          q # r /\ call[q] # Idle /\ call[r] # Idle => LockedDir(q) # LockedDir(r))'
  <2>1. \A q \in Procs : call'[q] # Idle => call[q] # Idle
    BY <1>2, <1>4
  <2> QED BY <1>1, <1>6, <2>1 DEF CallInv
<1>8. (\A q \in Procs : call[q].op \in {"lookup", "mknod"} =>
          /\ Leads(core, call[q].name, call[q].id)
          /\ call[q].step = "fill" => inode[call[q].id].state = "new"
          /\ call[q].step = "add" => inode[call[q].id].state = "live")'
  <2>1. ASSUME NEW q \in Procs, call'[q].op \in {"lookup", "mknod"}
        PROVE  /\ Leads(core', call'[q].name, call'[q].id)
               /\ call'[q].step = "fill" => inode'[call'[q].id].state = "new"
               /\ call'[q].step = "add" => inode'[call'[q].id].state = "live"
    <3>1. CASE q = p
      BY <1>2, <1>4, <3>1
    <3>2. CASE q # p
      <4>1. call'[q] = call[q]
        BY <1>4, <3>2
      <4>2. call[q].name \in Names /\ call[q].id \in Ids /\ Leads(core, call[q].name, call[q].id)
            /\ (call[q].step = "fill" => inode[call[q].id].state = "new")
            /\ (call[q].step = "add" => inode[call[q].id].state = "live")
        BY <2>1, <4>1, CallIs
      <4>3. call[q].id # call[p].id => inode'[call[q].id].state = inode[call[q].id].state
        BY <4>2
      <4> QED BY <2>1, <3>2, <4>1, <4>2, <4>3
    <3> QED BY <3>1, <3>2
  <2> QED BY <2>1
<1>9. (\A q, r \in Procs :
          /\ call[q].op \in {"lookup", "mknod"} /\ call[q].step = "fill"
          /\ call[r].op \in {"lookup", "mknod"} /\ call[r].step = "fill"
          /\ call[q].id = call[r].id
          => q = r)'
  <2>1. ASSUME NEW q \in Procs, NEW r \in Procs,
               call'[q].op \in {"lookup", "mknod"}, call'[q].step = "fill",
               call'[r].op \in {"lookup", "mknod"}, call'[r].step = "fill",
               call'[q].id = call'[r].id, q # r
        PROVE  FALSE
    <3>1. CASE q # p /\ r # p
      BY <1>1, <1>4, <2>1, <3>1 DEF CallInv
    <3>2. ASSUME NEW u \in Procs \ {p}, call[u].op \in {"lookup", "mknod"},
                 call[u].step = "fill", call[u].id = call[p].id, s = "fill"
          PROVE  FALSE
      BY <1>1, <3>2 DEF CallInv
    <3> QED BY <1>2, <1>4, <2>1, <3>1, <3>2
  <2> QED BY <2>1
<1>10. CallInv'
  BY <1>7, <1>8, <1>9 DEF CallInv
<1>11. \A n \in Names : Creating(n)' <=> Creating(n)
  BY <1>2, <1>4 DEF Creating
<1>12. ASSUME NEW c, Stands(call, c) PROVE Stands(call', c)
  BY <1>2, <1>4, <1>12 DEF Stands
<1> QED BY <1>1, <1>2, <1>3, <1>10, <1>11, <1>12

\* iget_locked() keeps the invariant: an inode is filled by one call only.
LEMMA IgetKeeps ==
    ASSUME IInv, NEW p \in Procs, Iget(p)
    PROVE  IInv'
<1> DEFINE o == call[p].id
           new == [NoInode EXCEPT !.state = "new", !.nlink = 1]
<1>1. /\ TypeOK /\ CoreSound(core) /\ CallInv /\ InodeInv /\ DentryInv /\ Stands(call, core)
  BY DEF IInv
<1>2. /\ call[p].op \in {"lookup", "mknod"} /\ o \in Ids
      /\ core' = core /\ dentry' = dentry /\ opens' = opens
  <2>1. call[p].op \in {"lookup", "mknod"}
    BY DEF Iget
  <2>2. call[p].id \in Ids
    BY <2>1, CallIs
  <2>3. core' = core /\ dentry' = dentry /\ opens' = opens
    BY DEF Iget
  <2> QED BY <2>1, <2>2, <2>3
<1>3. new \in Inodes /\ new.state = "new" /\ new.obj = FALSE
  <2>1. NoInode = [state |-> "none", nlink |-> 0, obj |-> FALSE]
    BY DEF NoInode
  <2>2. new = [NoInode EXCEPT !.state = "new", !.nlink = 1]
    OBVIOUS
  <2> HIDE DEF new
  <2>3. new = [state |-> "new", nlink |-> 1, obj |-> FALSE]
    BY <2>1, <2>2
  <2> QED BY <2>3 DEF Inodes
<1> HIDE DEF new
<1>4. CASE /\ inode[o].state = "none" /\ inode' = [inode EXCEPT ![o] = new]
           /\ call' = [call EXCEPT ![p].step = "fill"]
  <2>1. /\ inode'[o].state = "new" /\ inode'[o].obj = FALSE
        /\ \A x \in Ids \ {o} : inode'[x] = inode[x]
    BY <1>1, <1>2, <1>3, <1>4 DEF TypeOK
  <2>2. /\ CallInv' /\ call' \in [Procs -> Calling]
        /\ \A n \in Names : Creating(n)' <=> Creating(n)
        /\ Stands(call', core)
    <3>1. \A q \in Procs \ {p} : call[q].op \in {"lookup", "mknod"} /\ call[q].id = o =>
              call[q].step \notin {"fill", "add"}
      BY <1>1, <1>4 DEF CallInv
    <3> QED BY <1>1, <1>2, <1>4, <2>1, <3>1, CallsStepped
  <2>3. TypeOK'
    BY <1>1, <1>2, <1>3, <1>4, <2>2 DEF TypeOK
  <2>4. InodeInv'
    <3> SUFFICES ASSUME NEW x \in Ids
                 PROVE  (/\ inode[x].obj <=> inode[x].state \in {"live", "deleting", "unstitching"}
                         /\ inode[x].obj <=> x \in DOMAIN core.obj /\ core.obj[x].my_inode
                         /\ inode[x].state = "live" => inode[x].nlink = get_obj_link_count(core, x)
                         /\ inode[x].state \in {"live", "deleting"} => ~core.obj[x].defered_free
                         /\ inode[x].state = "deleting" => core.obj[x].name = None
                         /\ inode[x].state = "unstitching" /\ core.obj[x].name = None
                                => core.obj[x].defered_free
                         /\ opens[x] > 0 => inode[x].state = "live")'
      BY DEF InodeInv
    <3>1. CASE x # o
      BY <1>1, <1>2, <2>1, <3>1 DEF InodeInv
    <3>2. CASE x = o
      BY <1>1, <1>2, <1>4, <2>1, <3>2 DEF InodeInv
    <3> QED BY <3>1, <3>2
  <2>5. DentryInv'
    BY <1>1, <1>2, <1>4, <2>1, <2>2 DEF DentryInv
  <2> QED BY <1>1, <1>2, <2>2, <2>3, <2>4, <2>5 DEF IInv
<1>5. CASE /\ inode[o].state = "live" /\ inode' = inode
           /\ call' = [call EXCEPT ![p].step = "add"]
  <2>1. /\ CallInv' /\ call' \in [Procs -> Calling]
        /\ \A n \in Names : Creating(n)' <=> Creating(n)
        /\ Stands(call', core)
    <3>1. \A q \in Procs \ {p} : call[q].op \in {"lookup", "mknod"} =>
              /\ call[q].step = "fill" => inode[call[q].id].state = "new"
              /\ call[q].step = "add" => inode[call[q].id].state = "live"
      BY <1>1 DEF CallInv
    <3> QED BY <1>1, <1>2, <1>5, <3>1, CallsStepped
  <2>2. TypeOK'
    BY <1>1, <1>2, <1>5, <2>1 DEF TypeOK
  <2>3. InodeInv'
    BY <1>1, <1>2, <1>5 DEF InodeInv
  <2>4. DentryInv'
    BY <1>1, <1>2, <1>5, <2>1 DEF DentryInv
  <2> QED BY <1>1, <1>2, <2>1, <2>2, <2>3, <2>4 DEF IInv
<1> QED BY <1>4, <1>5 DEF Iget, new

\* d_add() keeps the invariant: the name still leads to the inode.
LEMMA AddKeeps ==
    ASSUME IInv, NEW p \in Procs, Add(p)
    PROVE  IInv'
<1> DEFINE n == call[p].name
           f == call[p].id
<1>1. /\ TypeOK /\ CoreSound(core) /\ CallInv /\ InodeInv /\ DentryInv /\ Stands(call, core)
  BY DEF IInv
<1>2. /\ call[p].op \in {"lookup", "mknod"} /\ n \in Names /\ f \in Ids
      /\ Leads(core, n, f) /\ inode[f].state = "live"
      /\ dentry' = [dentry EXCEPT ![n] = f] /\ call' = [call EXCEPT ![p] = Idle]
      /\ core' = core /\ inode' = inode /\ opens' = opens
  BY CallIs DEF Add
<1> HIDE DEF n, f
<1>3. call'[p] = Idle /\ \A q \in Procs \ {p} : call'[q] = call[q]
  BY <1>1, <1>2 DEF TypeOK
<1>4. TypeOK'
  BY <1>1, <1>2 DEF TypeOK, Calling
<1>5. CallInv'
  <2>1. \A q \in Procs \ {p} : LockedDir(q)' = LockedDir(q)
    BY <1>3 DEF LockedDir, Reading
  <2>2. Idle.op = "idle"
    BY DEF Idle
  <2>3. (\A q, r \in Procs :
            q # r /\ call[q] # Idle /\ call[r] # Idle => LockedDir(q) # LockedDir(r))'
    BY <1>1, <1>3, <2>1 DEF CallInv
  <2>4. (\A q \in Procs : call[q].op \in {"lookup", "mknod"} =>
            /\ Leads(core, call[q].name, call[q].id)
            /\ call[q].step = "fill" => inode[call[q].id].state = "new"
            /\ call[q].step = "add" => inode[call[q].id].state = "live")'
    BY <1>1, <1>2, <1>3, <2>2 DEF CallInv
  <2>5. (\A q, r \in Procs :
            /\ call[q].op \in {"lookup", "mknod"} /\ call[q].step = "fill"
            /\ call[r].op \in {"lookup", "mknod"} /\ call[r].step = "fill"
            /\ call[q].id = call[r].id
            => q = r)'
    BY <1>1, <1>3, <2>2 DEF CallInv
  <2> QED BY <2>3, <2>4, <2>5 DEF CallInv
<1>6. InodeInv'
  BY <1>1, <1>2 DEF InodeInv
<1>7. DentryInv'
  <2> SUFFICES ASSUME NEW x \in Names
               PROVE  /\ dentry'[x] \in Ids =>
                             inode'[dentry'[x]].state = "live" /\ Leads(core', x, dentry'[x])
                      /\ dentry'[x] = Negative /\ ~Creating(x)' =>
                             \A h \in Ids : ~Leads(core', x, h)
    BY DEF DentryInv
  <2>1. CASE x = n
    BY <1>1, <1>2, <2>1, VfsAssumption DEF TypeOK
  <2>2. CASE x # n
    <3>1. Creating(x) => Creating(x)'
      BY <1>3, <2>2 DEF Creating, n
    <3> QED BY <1>1, <1>2, <2>2, <3>1 DEF DentryInv, TypeOK
  <2> QED BY <2>1, <2>2
<1>8. Stands(call', core')
  BY <1>1, <1>2, <1>3 DEF Stands, Idle
<1> QED BY <1>1, <1>2, <1>4, <1>5, <1>6, <1>7, <1>8 DEF IInv

\* yaffs_fill_inode_from_obj() keeps the invariant: the object is still there.
LEMMA FillKeeps ==
    ASSUME IInv, NEW p \in Procs, Fill(p)
    PROVE  IInv'
<1> DEFINE f == call[p].id
<1>1. /\ TypeOK /\ CoreSound(core) /\ CallInv /\ InodeInv /\ DentryInv /\ Stands(call, core)
      /\ CoreType(core) /\ Hooked(core) /\ Listed(core)
  BY DEF IInv, CoreSound, Listed
<1>2. call[p].op \in {"lookup", "mknod"} /\ call[p].step = "fill"
  BY DEF Fill
<1>3. f \in Ids /\ Leads(core, call[p].name, f) /\ call[p].name \in Names
      /\ inode[f].state = "new"
  BY <1>2, CallIs
<1>4. /\ f \in DOMAIN core.obj /\ core.obj[f].kind = "file" /\ core.obj[f].name # None
      /\ ~core.obj[f].defered_free
  BY <1>1, <1>3, LedTo
<1>5. find_by_number(core, f) = f /\ f # None
  BY <1>3, <1>4, VfsAssumption DEF find_by_number
<1>6. /\ inode' = [inode EXCEPT ![f] = [state |-> "live", nlink |-> get_obj_link_count(core, f),
                                        obj |-> TRUE]]
      /\ core' = [core EXCEPT !.obj[f].my_inode = TRUE]
      /\ call' = [call EXCEPT ![p].step = "add"] /\ dentry' = dentry /\ opens' = opens
  BY <1>5 DEF Fill
<1> HIDE DEF f
<1>7. Marked(core, core', f, TRUE, core.obj[f].defered_free)
  BY <1>1, <1>4, <1>6, MarkIs
<1>8. /\ Listed(core') /\ core'.links = core.links /\ DOMAIN core'.obj = DOMAIN core.obj
      /\ \A x \in DOMAIN core.obj \ {f} : core'.obj[x] = core.obj[x]
      /\ core'.obj[f].kind = core.obj[f].kind /\ core'.obj[f].equiv = core.obj[f].equiv
      /\ core'.obj[f].name = core.obj[f].name /\ core'.obj[f].my_inode = TRUE
      /\ core'.obj[f].defered_free = core.obj[f].defered_free
  BY <1>4, <1>7 DEF Marked
<1>9. /\ CoreSound(core')
      /\ \A n \in Names, g \in Ids : Leads(core', n, g) <=> Leads(core, n, g)
      /\ \A g \in DOMAIN core.obj : get_obj_link_count(core', g) = get_obj_link_count(core, g)
      /\ \A y \in DOMAIN core.obj : y \in DOMAIN core'.obj /\ core'.obj[y].name = core.obj[y].name
  BY <1>1, <1>4, <1>7, MarkedSound
<1>10. get_obj_link_count(core, f) \in Int
  BY <1>1, <1>3, CountIs
<1>11. /\ inode'[f].state = "live" /\ inode'[f].obj /\ inode'[f].nlink = get_obj_link_count(core, f)
       /\ \A x \in Ids \ {f} : inode'[x] = inode[x]
       /\ inode' \in [Ids -> Inodes]
  BY <1>1, <1>3, <1>6, <1>10 DEF TypeOK, Inodes
<1>12. /\ CallInv' /\ call' \in [Procs -> Calling]
       /\ \A n \in Names : Creating(n)' <=> Creating(n)
       /\ \A c : Stands(call, c) => Stands(call', c)
  <2>1. \A q \in Procs \ {p} : call[q].op \in {"lookup", "mknod"} /\ call[q].id = f =>
            call[q].step # "fill"
    BY <1>1, <1>2 DEF CallInv, f
  <2> QED BY <1>2, <1>6, <1>9, <1>11, <2>1, CallsStepped DEF f
<1>13. TypeOK'
  BY <1>1, <1>6, <1>8, <1>11, <1>12 DEF TypeOK, Listed
<1>14. InodeInv'
  <2> SUFFICES ASSUME NEW x \in Ids
               PROVE  (/\ inode[x].obj <=> inode[x].state \in {"live", "deleting", "unstitching"}
                       /\ inode[x].obj <=> x \in DOMAIN core.obj /\ core.obj[x].my_inode
                       /\ inode[x].state = "live" => inode[x].nlink = get_obj_link_count(core, x)
                       /\ inode[x].state \in {"live", "deleting"} => ~core.obj[x].defered_free
                       /\ inode[x].state = "deleting" => core.obj[x].name = None
                       /\ inode[x].state = "unstitching" /\ core.obj[x].name = None
                              => core.obj[x].defered_free
                       /\ opens[x] > 0 => inode[x].state = "live")'
    BY DEF InodeInv
  <2>1. CASE x # f
    <3>1. inode'[x] = inode[x] /\ opens'[x] = opens[x]
      BY <1>6, <1>11, <2>1
    <3>2. x \in DOMAIN core'.obj <=> x \in DOMAIN core.obj
      BY <1>8
    <3>3. x \in DOMAIN core.obj =>
            core'.obj[x] = core.obj[x] /\ get_obj_link_count(core', x) = get_obj_link_count(core, x)
      BY <1>8, <1>9, <2>1
    <3> QED BY <1>1, <3>1, <3>2, <3>3 DEF InodeInv
  <2>2. CASE x = f
    BY <1>4, <1>8, <1>9, <1>11, <2>2
  <2> QED BY <2>1, <2>2
<1>15. DentryInv'
  BY <1>1, <1>6, <1>9, <1>11, <1>12 DEF DentryInv
<1>16. Stands(call', core')
  <2>1. Stands(call, core')
    <3>1. Off(call, {})
      BY DEF Off
    <3> QED BY <1>1, <1>9, <3>1, StandsOn
  <2> QED BY <1>12, <2>1
<1> QED BY <1>9, <1>12, <1>13, <1>14, <1>15, <1>16 DEF IInv

-----------------------------------------------------------------------------
(* Calls that are one region of the lock.                                  *)

\* yaffs_link() keeps the invariant.
LEMMA LinkKeeps ==
    ASSUME IInv, NEW n \in Names, NEW m \in Names, NEW o \in Ids, Link(n, m, o)
    PROVE  IInv'
<1> DEFINE f == dentry[n]
<1>1. /\ TypeOK /\ CoreSound(core) /\ CallInv /\ InodeInv /\ DentryInv /\ Stands(call, core)
  BY DEF IInv
<1>2. /\ Positive(n) /\ dentry[m] = Negative /\ FreeDir(m) /\ o \notin DOMAIN core.obj
      /\ core' = create_obj(core, o, m, "link", f)
      /\ inode' = [inode EXCEPT ![f].nlink = get_obj_link_count(core', f)]
      /\ dentry' = [dentry EXCEPT ![m] = f] /\ opens' = opens /\ call' = call
  BY DEF Link, Live
<1>3. /\ f \in Ids /\ Leads(core, n, f) /\ f \in DOMAIN core.obj
      /\ inode[f].state = "live" /\ inode[f].obj
      /\ core.obj[f].my_inode /\ core.obj[f].kind = "file"
      /\ core.obj[f].name # None /\ ~core.obj[f].defered_free
  BY <1>2, PositiveIs
<1>4. \A g \in Ids : ~Leads(core, m, g)
  BY <1>1, <1>2, FreeIsFree DEF DentryInv
<1> HIDE DEF f
<1>5. /\ CoreSound(core')
      /\ \A x \in Names, g \in Ids : Leads(core', x, g) <=> Leads(core, x, g) \/ (x = m /\ g = f)
      /\ \A y \in DOMAIN core.obj : y \in DOMAIN core'.obj /\ core'.obj[y] = core.obj[y]
      /\ Kept(core', core, {f})
  <2> DEFINE kind == "link"
             equiv == f
             e == create_obj(core, o, m, kind, equiv)
  <2>1. core' = e /\ kind = "link" /\ equiv = f
    BY <1>2
  <2> HIDE DEF kind, equiv
  <2>2. Created(core, e, m, f) /\ (kind = "link" => Kept(e, core, {f}))
    BY <1>1, <1>2, <1>3, <1>4, <2>1, CreateSound
  <2> HIDE DEF e
  <2> QED BY <2>1, <2>2 DEF Created
<1>6. get_obj_link_count(core', f) \in Int /\ CoreType(core')
  BY <1>3, <1>5, CountIs DEF CoreSound, Listed
<1>7. /\ inode' \in [Ids -> Inodes]
      /\ \A x \in Ids \ {f} : inode'[x] = inode[x]
      /\ inode'[f].state = inode[f].state /\ inode'[f].obj = inode[f].obj
      /\ inode'[f].nlink = get_obj_link_count(core', f)
  <2> DEFINE i == [inode[f] EXCEPT !.nlink = get_obj_link_count(core', f)]
  <2>1. /\ i \in Inodes /\ i.state = inode[f].state /\ i.obj = inode[f].obj
        /\ i.nlink = get_obj_link_count(core', f)
    BY <1>1, <1>3, <1>6 DEF TypeOK, Inodes
  <2>2. inode' = [inode EXCEPT ![f] = i]
    BY <1>2
  <2> HIDE DEF i
  <2> QED BY <1>1, <1>3, <2>1, <2>2 DEF TypeOK
<1>8. TypeOK'
  BY <1>1, <1>2, <1>3, <1>6, <1>7 DEF TypeOK
<1>9. CallInv'
  <2>1. Driven(call, call')
    BY <1>1, <1>2 DEF Driven, TypeOK
  <2>2. \A q \in Procs : call[q].op \in {"lookup", "mknod"} =>
            /\ call[q].id \in Ids
            /\ Leads(core', call[q].name, call[q].id)
    <3>1. \A q \in Procs : call[q].op \in {"lookup", "mknod"} =>
              call[q].id \in Ids /\ call[q].name \in Names /\ Leads(core, call[q].name, call[q].id)
      BY CallIs
    <3> QED BY <1>5, <3>1
  <2>3. \A x \in Ids : inode'[x].state = inode[x].state
    BY <1>7
  <2> QED BY <1>1, <2>1, <2>2, <2>3, CallsKept
<1>10. InodeInv'
  <2> SUFFICES ASSUME NEW x \in Ids
               PROVE  (/\ inode[x].obj <=> inode[x].state \in {"live", "deleting", "unstitching"}
                       /\ inode[x].obj <=> x \in DOMAIN core.obj /\ core.obj[x].my_inode
                       /\ inode[x].state = "live" => inode[x].nlink = get_obj_link_count(core, x)
                       /\ inode[x].state \in {"live", "deleting"} => ~core.obj[x].defered_free
                       /\ inode[x].state = "deleting" => core.obj[x].name = None
                       /\ inode[x].state = "unstitching" /\ core.obj[x].name = None
                              => core.obj[x].defered_free
                       /\ opens[x] > 0 => inode[x].state = "live")'
    BY DEF InodeInv
  <2>1. /\ x \in DOMAIN core'.obj /\ core'.obj[x].my_inode
               <=> x \in DOMAIN core.obj /\ core.obj[x].my_inode
        /\ x \in DOMAIN core.obj /\ core.obj[x].my_inode =>
              /\ core'.obj[x] = core.obj[x]
              /\ x # f => get_obj_link_count(core', x) = get_obj_link_count(core, x)
    BY <1>5 DEF Kept
  <2>2. CASE x # f
    BY <1>1, <1>2, <1>7, <2>1, <2>2 DEF InodeInv
  <2>3. CASE x = f
    BY <1>3, <1>7, <2>1, <2>3
  <2> QED BY <2>2, <2>3
<1>11. DentryInv'
  <2> SUFFICES ASSUME NEW x \in Names
               PROVE  /\ dentry'[x] \in Ids =>
                             inode'[dentry'[x]].state = "live" /\ Leads(core', x, dentry'[x])
                      /\ dentry'[x] = Negative /\ ~Creating(x)' =>
                             \A g \in Ids : ~Leads(core', x, g)
    BY DEF DentryInv
  <2>1. Creating(x)' <=> Creating(x)
    BY <1>2 DEF Creating
  <2>2. CASE x = m
    BY <1>1, <1>2, <1>3, <1>5, <1>7, <2>2, VfsAssumption DEF TypeOK
  <2>3. CASE x # m
    <3>1. dentry'[x] = dentry[x]
      BY <1>1, <1>2, <2>3 DEF TypeOK
    <3>2. dentry[x] \in Ids => inode'[dentry[x]].state = inode[dentry[x]].state
      BY <1>7
    <3> QED BY <1>1, <1>5, <2>1, <2>3, <3>1, <3>2 DEF DentryInv
  <2> QED BY <2>2, <2>3
<1>12. Stands(call', core')
  <2>1. Stands(call, core')
    <3>1. Off(call, {})
      BY DEF Off
    <3> QED BY <1>1, <1>5, <3>1, StandsOn
  <2> QED BY <1>2, <2>1
<1> QED BY <1>5, <1>8, <1>9, <1>10, <1>11, <1>12 DEF IInv

\* An inode loses a link.
LEMMA LinkLost ==
    ASSUME TypeOK, NEW g \in Ids, inode' = [inode EXCEPT ![g].nlink = @ - 1]
    PROVE  /\ inode' \in [Ids -> Inodes]
           /\ \A x \in Ids : /\ inode'[x].state = inode[x].state /\ inode'[x].obj = inode[x].obj
                             /\ inode'[x].nlink = IF x \in {g} THEN inode[x].nlink - 1
                                                  ELSE inode[x].nlink
<1> DEFINE i == [inode[g] EXCEPT !.nlink = @ - 1]
<1>1. /\ i \in Inodes /\ i.state = inode[g].state /\ i.obj = inode[g].obj
      /\ i.nlink = inode[g].nlink - 1
  BY DEF TypeOK, Inodes
<1>2. inode' = [inode EXCEPT ![g] = i]
  OBVIOUS
<1> HIDE DEF i
<1> QED BY <1>1, <1>2 DEF TypeOK

\* yaffs_unlink() keeps the invariant.
LEMMA UnlinkKeeps ==
    ASSUME IInv, NEW n \in Names, Unlink(n)
    PROVE  IInv'
<1> DEFINE o == find_by_name(core, n)
           g == dentry[n]
<1>1. /\ TypeOK /\ CoreSound(core) /\ CallInv /\ InodeInv /\ DentryInv /\ Stands(call, core)
      /\ Listed(core) /\ CoreType(core) /\ Hooked(core) /\ NamedOnce(core)
      /\ call \in [Procs -> Calling]
  BY DEF IInv, CoreSound, Listed, TypeOK
<1>2. /\ Positive(n) /\ FreeDir(n) /\ o # None
      /\ core' = unlink_obj(core, o) /\ call' = search_unlinked(call, core, o)
      /\ inode' = [inode EXCEPT ![g].nlink = @ - 1]
      /\ dentry' = [dentry EXCEPT ![n] = Negative] /\ opens' = opens
  BY DEF Unlink
<1>3. /\ g \in Ids /\ Leads(core, n, g) /\ inode[g].state = "live" /\ core.obj[g].my_inode
      /\ g = get_equivalent_obj(core, o)
  BY <1>2, PositiveIs
<1>4. o \in DOMAIN core.obj /\ core.obj[o].name = n /\ n # None
  BY <1>1, <1>2, FindIs, VfsAssumption
<1> HIDE DEF o, g
<1>5. /\ Unlinked(core, core', n, g)
      /\ \A y \in DOMAIN core.obj \ Movers(core, o) : y \in DOMAIN core'.obj
                                                     /\ core'.obj[y] = core.obj[y]
  <2> DEFINE e == unlink_obj(core, o)
  <2>1. core.obj[get_equivalent_obj(core, o)].my_inode
    BY <1>3
  <2>2. /\ Unlinked(core, e, core.obj[o].name, get_equivalent_obj(core, o))
        /\ \A y \in DOMAIN core.obj \ Movers(core, o) : y \in DOMAIN e.obj
                                                       /\ e.obj[y] = core.obj[y]
    BY <1>1, <1>4, <2>1, UnlinkSound
  <2> HIDE DEF e
  <2>3. core' = e
    BY <1>2 DEF e
  <2> QED BY <1>3, <1>4, <2>2, <2>3
<1>6. /\ Listed(core') /\ Hooked(core') /\ NamedOnce(core')
      /\ \A x \in Names, f \in Ids : Leads(core', x, f) <=> Leads(core, x, f) /\ ~(x = n /\ f = g)
  BY <1>5 DEF Unlinked
<1>7. \A x \in Names, f, h \in Ids : Leads(core, x, f) /\ Leads(core, x, h) => f = h
  BY <1>1 DEF CoreSound
<1>8. CoreSound(core')
  BY <1>6, <1>7 DEF CoreSound
<1>9. Kept(core, core', {g})
  BY <1>5, UnlinkedKeeps
<1>10. Driven(call, call') /\ Stands(call', core) /\ Off(call', Movers(core, o))
  BY <1>1, <1>2, <1>4, UnlinkedSearches
<1>11. /\ inode' \in [Ids -> Inodes]
       /\ \A x \in Ids : /\ inode'[x].state = inode[x].state /\ inode'[x].obj = inode[x].obj
                         /\ inode'[x].nlink = IF x \in {g} THEN inode[x].nlink - 1
                                              ELSE inode[x].nlink
  BY <1>1, <1>2, <1>3, LinkLost
<1>12. TypeOK'
  <2>1. CoreType(core')
    BY <1>6 DEF Listed
  <2> QED BY <1>1, <1>2, <1>10, <1>11, <2>1 DEF TypeOK, Driven
<1>13. CallInv'
  <2>1. \A q \in Procs : call[q].op \in {"lookup", "mknod"} =>
            /\ call[q].id \in Ids /\ call[q].name \in Names /\ call[q].name # n
            /\ Leads(core, call[q].name, call[q].id)
    BY <1>1, <1>2, CallIs, FreeIsFree
  <2>2. \A q \in Procs : call[q].op \in {"lookup", "mknod"} =>
            /\ call[q].id \in Ids /\ Leads(core', call[q].name, call[q].id)
    BY <1>6, <2>1
  <2> QED BY <1>1, <1>10, <1>11, <2>2, CallsKept
<1>14. InodeInv'
  BY <1>1, <1>2, <1>3, <1>9, <1>11, InodesKept
<1>15. DentryInv'
  <2> SUFFICES ASSUME NEW x \in Names
               PROVE  /\ dentry'[x] \in Ids =>
                             inode'[dentry'[x]].state = "live" /\ Leads(core', x, dentry'[x])
                      /\ dentry'[x] = Negative /\ ~Creating(x)' =>
                             \A f \in Ids : ~Leads(core', x, f)
    BY DEF DentryInv
  <2>1. CASE x = n
    <3>1. dentry'[x] = Negative
      BY <1>1, <1>2, <2>1 DEF TypeOK
    <3>2. \A f \in Ids : ~Leads(core', x, f)
      BY <1>3, <1>6, <1>7, <2>1
    <3> QED BY <3>1, <3>2, VfsAssumption
  <2>2. CASE x # n
    <3>1. dentry'[x] = dentry[x]
      BY <1>1, <1>2, <2>2 DEF TypeOK
    <3>2. Creating(x)' <=> Creating(x)
      BY <1>10, CreatingKept
    <3> QED BY <1>1, <1>6, <1>11, <2>2, <3>1, <3>2 DEF DentryInv
  <2> QED BY <2>1, <2>2
<1>16. Stands(call', core')
  BY <1>5, <1>10, StandsOn
<1> QED BY <1>8, <1>12, <1>13, <1>14, <1>15, <1>16 DEF IInv

\* yaffs_rename() keeps the invariant.
LEMMA RenameKeeps ==
    ASSUME IInv, NEW n \in Names, NEW m \in Names, Rename(n, m)
    PROVE  IInv'
<1> DEFINE o == find_by_name(core, n)
           g == dentry[n]
           target == find_by_name(core, m)
           t == get_equivalent_obj(core, target)
           moved == change_obj_name(core, o, m)
           k == search_moved(call, core, o)
<1>1. /\ TypeOK /\ CoreSound(core) /\ CallInv /\ InodeInv /\ DentryInv /\ Stands(call, core)
      /\ Listed(core) /\ CoreType(core) /\ Hooked(core) /\ NamedOnce(core)
      /\ call \in [Procs -> Calling]
  BY DEF IInv, CoreSound, Listed, TypeOK
<1>2. /\ n # m /\ Positive(n) /\ FreeDir(n) /\ FreeDir(m)
      /\ dentry[m] # None /\ dentry[m] # g /\ o # None
      /\ core' = rename_obj(core, o, m)
      /\ call' = IF target = None THEN k ELSE search_unlinked(k, moved, target)
      /\ inode' = IF target = None THEN inode ELSE [inode EXCEPT ![dentry[m]].nlink = @ - 1]
      /\ dentry' = [dentry EXCEPT ![m] = g, ![n] = None] /\ opens' = opens
  BY DEF Rename
<1>3. /\ g \in Ids /\ Leads(core, n, g) /\ inode[g].state = "live" /\ core.obj[g].my_inode
      /\ g = get_equivalent_obj(core, o)
  BY <1>2, PositiveIs
<1>4. o \in DOMAIN core.obj /\ core.obj[o].name = n /\ n # None /\ m # None
  BY <1>1, <1>2, FindIs, VfsAssumption
<1>5. \A x \in Names, f, h \in Ids : Leads(core, x, f) /\ Leads(core, x, h) => f = h
  BY <1>1 DEF CoreSound
\* The other name is one that leads nowhere or that of another file.
<1>6. target # None =>
        /\ target \in DOMAIN core.obj /\ core.obj[target].name = m
        /\ t \in Ids /\ Leads(core, m, t) /\ t = dentry[m] /\ t # g
        /\ inode[t].state = "live" /\ core.obj[t].my_inode
  <2> SUFFICES ASSUME target # None
               PROVE  /\ target \in DOMAIN core.obj /\ core.obj[target].name = m
                      /\ t \in Ids /\ Leads(core, m, t) /\ t = dentry[m] /\ t # g
                      /\ inode[t].state = "live" /\ core.obj[t].my_inode
    OBVIOUS
  <2>1. /\ target \in DOMAIN core.obj /\ core.obj[target].name = m
        /\ t \in Ids /\ Leads(core, m, t)
    BY <1>1, FindIs
  <2> HIDE DEF target, t, g
  <2>2. dentry[m] # Negative
    BY <1>1, <1>2, <2>1, FreeIsFree DEF DentryInv
  <2>3. dentry[m] \in Ids
    BY <1>1, <1>2, <2>2 DEF TypeOK
  <2>4. t = dentry[m]
    BY <1>1, <1>5, <2>1, <2>3 DEF DentryInv
  <2>5. inode[t].state = "live" /\ core.obj[t].my_inode
    BY <1>1, <2>1, <2>3, <2>4 DEF DentryInv, InodeInv
  <2> QED BY <1>2, <2>1, <2>4, <2>5
<1> DEFINE T == IF target = None THEN {} ELSE {t}
<1>7. /\ CoreSound(core') /\ Kept(core, core', T)
      /\ \A x \in Names, f \in Ids : Leads(core', x, f) <=> \/ x = m /\ f = g
                                                            \/ x \notin {n, m} /\ Leads(core, x, f)
      /\ o \in DOMAIN core'.obj /\ core'.obj[o].name = m
      /\ \A y \in DOMAIN core.obj \ {o} :
            (target # None => y \notin Movers(moved, target)) =>
                y \in DOMAIN core'.obj /\ core'.obj[y].name = core.obj[y].name
  <2> DEFINE e == rename_obj(core, o, m)
             M == IF target = None THEN {} ELSE Movers(moved, target)
  <2>1. target # None => t # g /\ core.obj[t].my_inode
    BY <1>6
  <2>2. Moved(core, e, n, m, o, g) /\ Kept(core, e, T) /\ KeptNames(core, e, {o} \cup M)
    BY <1>1, <1>2, <1>3, <2>1, RenameSound
  <2>3. core' = e
    BY <1>2
  <2> HIDE DEF e, o, g, target, t, moved, T
  <2> QED BY <2>2, <2>3 DEF Moved, KeptNames
<1> HIDE DEF o, g, target, t, moved, k
<1>8. Driven(call, k) /\ Stands(k, core) /\ Off(k, {o})
  BY <1>1, <1>4, MovedSearches DEF k
<1>9. Driven(call, call') /\ Stands(call', core')
  <2>1. CASE target = None
    <3>1. Stands(k, core')
      BY <1>7, <1>8, <2>1, StandsOn
    <3> QED BY <1>2, <1>8, <2>1, <3>1
  <2>2. CASE target # None
    <3>1. Listed(moved) /\ Hooked(moved) /\ Renamed(core, moved, o, m)
      <4>1. Leads(core, m, g) => core.obj[o].name = m
        BY <1>2, <1>3, <1>5, <1>6, <2>2
      <4>2. core.obj[o].name # None
        BY <1>4
      <4> QED BY <1>1, <1>3, <1>4, <4>1, <4>2, RenamedSound DEF moved
    <3>2. /\ DOMAIN moved.obj = DOMAIN core.obj
          /\ \A y \in DOMAIN core.obj \ {o} : moved.obj[y] = core.obj[y]
          /\ moved.obj[o] = [core.obj[o] EXCEPT !.name = m]
      BY <1>4, <3>1 DEF Renamed
    <3>3. moved.obj[o].name = m
      <4>1. core.obj[o] \in Objects
        BY <1>1, <1>4 DEF CoreType
      <4> QED BY <3>2, <4>1 DEF Objects
    <3>4. Stands(k, moved)
      <4>1. \A y \in DOMAIN core.obj \ {o} : y \in DOMAIN moved.obj
                                             /\ moved.obj[y].name = core.obj[y].name
        BY <3>2
      <4> QED BY <1>8, <4>1, StandsOn
    <3>5. k \in [Procs -> Calling] /\ target \in DOMAIN moved.obj
      BY <1>6, <1>8, <2>2, <3>2 DEF Driven
    <3>6. call' = search_unlinked(k, moved, target)
      BY <1>2, <2>2
    <3>7. Driven(k, call') /\ Stands(call', moved) /\ Off(call', Movers(moved, target))
      BY <3>1, <3>4, <3>5, <3>6, UnlinkedSearches
    <3>8. \A y \in DOMAIN moved.obj \ Movers(moved, target) :
              y \in DOMAIN core'.obj /\ core'.obj[y].name = moved.obj[y].name
      BY <1>7, <3>2, <3>3
    <3>9. Stands(call', core')
      BY <3>7, <3>8, StandsOn
    <3>10. Driven(call, call')
      BY <1>8, <3>7, DrivenOn
    <3> QED BY <3>9, <3>10
  <2> QED BY <2>1, <2>2
<1>10. /\ inode' \in [Ids -> Inodes]
       /\ \A x \in Ids : /\ inode'[x].state = inode[x].state /\ inode'[x].obj = inode[x].obj
                         /\ inode'[x].nlink = IF x \in T THEN inode[x].nlink - 1
                                              ELSE inode[x].nlink
  <2>1. CASE target = None
    BY <1>1, <1>2, <2>1 DEF TypeOK
  <2>2. CASE target # None
    <3>1. inode' = [inode EXCEPT ![t].nlink = @ - 1] /\ t \in Ids /\ T = {t}
      BY <1>2, <1>6, <2>2
    <3> HIDE DEF T
    <3> QED BY <1>1, <3>1, LinkLost
  <2> QED BY <2>1, <2>2
<1>11. TypeOK'
  <2>1. CoreType(core')
    BY <1>7 DEF CoreSound, Listed
  <2> QED BY <1>1, <1>2, <1>3, <1>9, <1>10, <2>1 DEF TypeOK, Driven
<1>12. CallInv'
  <2>1. \A q \in Procs : call[q].op \in {"lookup", "mknod"} =>
            /\ call[q].id \in Ids /\ call[q].name \in Names /\ call[q].name \notin {n, m}
            /\ Leads(core, call[q].name, call[q].id)
    BY <1>1, <1>2, CallIs, FreeIsFree
  <2>2. \A q \in Procs : call[q].op \in {"lookup", "mknod"} =>
            /\ call[q].id \in Ids /\ Leads(core', call[q].name, call[q].id)
    BY <1>7, <2>1
  <2> QED BY <1>1, <1>9, <1>10, <2>2, CallsKept
<1>13. InodeInv'
  <2>1. \A x \in T : x \in Ids => inode[x].state = "live"
    BY <1>6
  <2> HIDE DEF T
  <2> QED BY <1>1, <1>2, <1>7, <1>10, <2>1, InodesKept
<1>14. DentryInv'
  <2> SUFFICES ASSUME NEW x \in Names
               PROVE  /\ dentry'[x] \in Ids =>
                             inode'[dentry'[x]].state = "live" /\ Leads(core', x, dentry'[x])
                      /\ dentry'[x] = Negative /\ ~Creating(x)' =>
                             \A f \in Ids : ~Leads(core', x, f)
    BY DEF DentryInv
  <2>1. CASE x = n
    <3>1. dentry'[x] = None
      BY <1>1, <1>2, <2>1 DEF TypeOK
    <3> QED BY <3>1, VfsAssumption
  <2>2. CASE x = m
    <3>1. dentry'[x] = g
      BY <1>1, <1>2, <2>2 DEF TypeOK
    <3> QED BY <1>3, <1>7, <1>10, <2>2, <3>1, VfsAssumption
  <2>3. CASE x \notin {n, m}
    <3>1. dentry'[x] = dentry[x]
      BY <1>1, <1>2, <2>3 DEF TypeOK
    <3>2. Creating(x)' <=> Creating(x)
      BY <1>9, CreatingKept
    <3> QED BY <1>1, <1>7, <1>10, <2>3, <3>1, <3>2 DEF DentryInv
  <2> QED BY <2>1, <2>2, <2>3
<1> QED BY <1>7, <1>9, <1>11, <1>12, <1>13, <1>14 DEF IInv

-----------------------------------------------------------------------------
(* Files, dentries and evictions.                                          *)

\* An open file has a live inode.
LEMMA OpenKeeps ==
    ASSUME IInv, NEW n \in Names, OpenFile(n)
    PROVE  IInv'
<1> DEFINE f == dentry[n]
<1>1. /\ TypeOK /\ CoreSound(core) /\ CallInv /\ InodeInv /\ DentryInv /\ Stands(call, core)
  BY DEF IInv
<1>2. /\ Positive(n) /\ opens' = [opens EXCEPT ![f] = @ + 1]
      /\ core' = core /\ inode' = inode /\ dentry' = dentry /\ call' = call
  BY DEF OpenFile
<1>3. f \in Ids /\ inode[f].state = "live"
  BY <1>2, PositiveIs
<1> HIDE DEF f
<1>4. TypeOK'
  BY <1>1, <1>2, <1>3 DEF TypeOK
<1>5. InodeInv'
  <2>1. \A o \in Ids : o # f => opens'[o] = opens[o]
    BY <1>1, <1>2 DEF TypeOK
  <2> QED BY <1>1, <1>2, <1>3, <2>1 DEF InodeInv
<1>6. CallInv' /\ DentryInv'
  BY <1>1, <1>2 DEF CallInv, DentryInv, LockedDir, Reading, Creating
<1> QED BY <1>1, <1>2, <1>4, <1>5, <1>6 DEF IInv

\* A file is closed.
LEMMA CloseKeeps ==
    ASSUME IInv, NEW f \in Ids, CloseFile(f)
    PROVE  IInv'
<1>1. /\ TypeOK /\ CoreSound(core) /\ CallInv /\ InodeInv /\ DentryInv /\ Stands(call, core)
  BY DEF IInv
<1>2. /\ opens[f] > 0 /\ opens' = [opens EXCEPT ![f] = @ - 1]
      /\ core' = core /\ inode' = inode /\ dentry' = dentry /\ call' = call
  BY DEF CloseFile
<1>3. TypeOK'
  <2>1. opens[f] - 1 \in Nat
    BY <1>1, <1>2 DEF TypeOK
  <2> QED BY <1>1, <1>2, <2>1 DEF TypeOK
<1>4. InodeInv'
  <2>1. \A o \in Ids : o # f => opens'[o] = opens[o]
    BY <1>1, <1>2 DEF TypeOK
  <2> QED BY <1>1, <1>2, <2>1 DEF InodeInv
<1>5. CallInv' /\ DentryInv'
  BY <1>1, <1>2 DEF CallInv, DentryInv, LockedDir, Reading, Creating
<1> QED BY <1>1, <1>2, <1>3, <1>4, <1>5 DEF IInv

\* A name is forgotten.
LEMMA ShrinkKeeps ==
    ASSUME IInv, NEW n \in Names, Shrink(n)
    PROVE  IInv'
<1>1. /\ TypeOK /\ CoreSound(core) /\ CallInv /\ InodeInv /\ DentryInv /\ Stands(call, core)
  BY DEF IInv
<1>2. /\ dentry' = [dentry EXCEPT ![n] = None]
      /\ core' = core /\ inode' = inode /\ opens' = opens /\ call' = call
  BY DEF Shrink
<1>3. TypeOK'
  BY <1>1, <1>2 DEF TypeOK
<1>4. CallInv' /\ InodeInv'
  BY <1>1, <1>2 DEF CallInv, InodeInv, LockedDir, Reading
<1>5. DentryInv'
  <2>1. \A x \in Names : dentry'[x] = None \/ dentry'[x] = dentry[x]
    BY <1>1, <1>2 DEF TypeOK
  <2>2. \A x \in Names : Creating(x)' <=> Creating(x)
    BY <1>2 DEF Creating
  <2> QED BY <1>1, <1>2, <2>1, <2>2, VfsAssumption DEF DentryInv
<1> QED BY <1>1, <1>2, <1>3, <1>4, <1>5 DEF IInv

\* The object of a live inode without links has no name, and with links it has.
LEMMA CountZero ==
    ASSUME NEW c, CoreSound(c), NEW o \in DOMAIN c.obj
    PROVE  o \in Ids /\ (get_obj_link_count(c, o) = 0 <=> c.obj[o].name = None)
<1>1. Listed(c) /\ CoreType(c) /\ Hooked(c)
  BY DEF CoreSound, Listed
<1>2. o \in Ids /\ c.links[o] \in Seq(Ids) /\ Len(c.links[o]) \in Nat
  BY <1>1, LenProperties DEF CoreType
<1>3. CASE c.obj[o].name = None
  <2>1. c.links[o] = <<>>
    BY <1>1, <1>3 DEF Hooked
  <2>2. Len(c.links[o]) = 0
    BY <2>1
  <2> QED BY <1>2, <1>3, <2>2 DEF get_obj_link_count
<1>4. CASE c.obj[o].name # None
  BY <1>2, <1>4 DEF get_obj_link_count
<1> QED BY <1>2, <1>3, <1>4

\* The choice in yaffs_evict_inode() keeps the invariant: an object to delete has
\* no name left, and one that is not has a name or is marked.
LEMMA EvictKeeps ==
    ASSUME IInv, NEW o \in Ids, Evict(o)
    PROVE  IInv'
<1> DEFINE s == IF inode[o].nlink = 0 /\ inode[o].obj THEN "deleting" ELSE "unstitching"
<1>1. /\ TypeOK /\ CoreSound(core) /\ CallInv /\ InodeInv /\ DentryInv /\ Stands(call, core)
  BY DEF IInv
<1>2. /\ inode[o].state = "live" /\ Unused(o)
      /\ inode' = [inode EXCEPT ![o].state = s]
      /\ core' = core /\ dentry' = dentry /\ opens' = opens /\ call' = call
  BY DEF Evict
<1>3. /\ inode[o].obj /\ o \in DOMAIN core.obj /\ core.obj[o].my_inode
      /\ inode[o].nlink = get_obj_link_count(core, o) /\ ~core.obj[o].defered_free
      /\ get_obj_link_count(core, o) = 0 <=> core.obj[o].name = None
  BY <1>1, <1>2, CountZero DEF InodeInv
<1>4. s = IF core.obj[o].name = None THEN "deleting" ELSE "unstitching"
  BY <1>3
<1> HIDE DEF s
<1>5. /\ inode' \in [Ids -> Inodes]
      /\ \A x \in Ids \ {o} : inode'[x] = inode[x]
      /\ inode'[o].state = s /\ inode'[o].obj = inode[o].obj
  <2> DEFINE i == [inode[o] EXCEPT !.state = s]
  <2>1. i \in Inodes /\ i.state = s /\ i.obj = inode[o].obj
    BY <1>1, <1>4 DEF TypeOK, Inodes
  <2>2. inode' = [inode EXCEPT ![o] = i]
    BY <1>2
  <2> HIDE DEF i
  <2> QED BY <1>1, <2>1, <2>2 DEF TypeOK
<1>6. TypeOK'
  BY <1>1, <1>2, <1>5 DEF TypeOK
<1>7. CallInv'
  <2>1. Driven(call, call')
    BY <1>1, <1>2 DEF Driven, TypeOK
  <2>2. \A q \in Procs : call[q].op \in {"lookup", "mknod"} =>
            /\ call[q].id \in Ids /\ Leads(core, call[q].name, call[q].id)
            /\ call[q].step \in {"fill", "add"} => call[q].id # o
    <3>1. ASSUME NEW q \in Procs, call[q].op \in {"lookup", "mknod"},
                 call[q].step \in {"fill", "add"}, call[q].id = o
          PROVE  FALSE
      BY <1>2, <3>1 DEF Unused, Held
    <3> QED BY <3>1, CallIs
  <2>3. (\A q \in Procs : call[q].op \in {"lookup", "mknod"} =>
            /\ Leads(core, call[q].name, call[q].id)
            /\ call[q].step = "fill" => inode[call[q].id].state = "new"
            /\ call[q].step = "add" => inode[call[q].id].state = "live")'
    BY <1>1, <1>2, <1>5, <2>2 DEF CallInv
  <2> QED BY <1>1, <1>2, <2>3 DEF CallInv, LockedDir, Reading
<1>8. InodeInv'
  <2> SUFFICES ASSUME NEW x \in Ids
               PROVE  (/\ inode[x].obj <=> inode[x].state \in {"live", "deleting", "unstitching"}
                       /\ inode[x].obj <=> x \in DOMAIN core.obj /\ core.obj[x].my_inode
                       /\ inode[x].state = "live" => inode[x].nlink = get_obj_link_count(core, x)
                       /\ inode[x].state \in {"live", "deleting"} => ~core.obj[x].defered_free
                       /\ inode[x].state = "deleting" => core.obj[x].name = None
                       /\ inode[x].state = "unstitching" /\ core.obj[x].name = None
                              => core.obj[x].defered_free
                       /\ opens[x] > 0 => inode[x].state = "live")'
    BY DEF InodeInv
  <2>1. CASE x # o
    BY <1>1, <1>2, <1>5, <2>1 DEF InodeInv
  <2>2. CASE x = o
    BY <1>2, <1>3, <1>4, <1>5, <2>2 DEF Unused
  <2> QED BY <2>1, <2>2
<1>9. DentryInv'
  <2>1. \A n \in Names : dentry[n] # o
    BY <1>2 DEF Unused
  <2>2. \A n \in Names : Creating(n)' <=> Creating(n)
    BY <1>2 DEF Creating
  <2> QED BY <1>1, <1>2, <1>5, <2>1, <2>2 DEF DentryInv
<1> QED BY <1>1, <1>2, <1>6, <1>7, <1>8, <1>9 DEF IInv

\* An inode that no name, no call and no open file leads to goes on; the object
\* it stands for may, too.
LEMMA UnseenKeeps ==
    ASSUME IInv, NEW o \in Ids, inode[o].state \notin {"new", "live"}, CoreSound(core'),
           \A n \in Names, f \in Ids : Leads(core', n, f) <=> Leads(core, n, f),
           inode' \in [Ids -> Inodes], \A x \in Ids \ {o} : inode'[x] = inode[x],
           \A x \in Ids \ {o} :
               /\ x \in DOMAIN core'.obj <=> x \in DOMAIN core.obj
               /\ x \in DOMAIN core.obj =>
                     core'.obj[x] = core.obj[x]
                     /\ get_obj_link_count(core', x) = get_obj_link_count(core, x),
           inode'[o].obj <=> inode'[o].state \in {"deleting", "unstitching"},
           inode'[o].obj <=> o \in DOMAIN core'.obj /\ core'.obj[o].my_inode,
           inode'[o].state \in {"none", "unstitching"},
           inode'[o].state = "unstitching" => core'.obj[o].defered_free,
           dentry' = dentry, opens' = opens, Driven(call, call'), Stands(call', core')
    PROVE  IInv'
<1>1. /\ TypeOK /\ CoreSound(core) /\ CallInv /\ InodeInv /\ DentryInv
  BY DEF IInv
<1>2. TypeOK'
  <2>1. CoreType(core')
    BY DEF CoreSound, Listed
  <2> QED BY <1>1, <2>1 DEF TypeOK, Driven
<1>3. CallInv'
  <2>1. \A q \in Procs : call[q].op \in {"lookup", "mknod"} =>
            /\ call[q].id \in Ids /\ call[q].name \in Names
            /\ Leads(core, call[q].name, call[q].id)
    BY CallIs
  <2>2. \A q \in Procs : call[q].op \in {"lookup", "mknod"} =>
            /\ Leads(core', call[q].name, call[q].id)
            /\ inode[call[q].id].state \in {"new", "live"} =>
                  inode'[call[q].id].state = inode[call[q].id].state
    BY <2>1
  <2> QED BY <1>1, <2>2, CallsKept
<1>4. InodeInv'
  <2> SUFFICES ASSUME NEW x \in Ids
               PROVE  (/\ inode[x].obj <=> inode[x].state \in {"live", "deleting", "unstitching"}
                       /\ inode[x].obj <=> x \in DOMAIN core.obj /\ core.obj[x].my_inode
                       /\ inode[x].state = "live" => inode[x].nlink = get_obj_link_count(core, x)
                       /\ inode[x].state \in {"live", "deleting"} => ~core.obj[x].defered_free
                       /\ inode[x].state = "deleting" => core.obj[x].name = None
                       /\ inode[x].state = "unstitching" /\ core.obj[x].name = None
                              => core.obj[x].defered_free
                       /\ opens[x] > 0 => inode[x].state = "live")'
    BY DEF InodeInv
  <2>1. CASE x # o
    <3>1. /\ inode'[x] = inode[x] /\ opens'[x] = opens[x]
          /\ x \in DOMAIN core'.obj <=> x \in DOMAIN core.obj
          /\ x \in DOMAIN core.obj =>
                core'.obj[x] = core.obj[x]
                /\ get_obj_link_count(core', x) = get_obj_link_count(core, x)
      BY <2>1
    <3> QED BY <1>1, <3>1 DEF InodeInv
  <2>2. CASE x = o
    <3>1. ~(opens[o] > 0)
      BY <1>1 DEF InodeInv
    <3> QED BY <2>2, <3>1
  <2> QED BY <2>1, <2>2
<1>5. DentryInv'
  <2>1. \A n \in Names : Creating(n)' <=> Creating(n)
    BY CreatingKept
  <2>2. \A n \in Names : dentry[n] \in Ids => inode'[dentry[n]] = inode[dentry[n]]
    BY <1>1 DEF DentryInv
  <2> QED BY <1>1, <2>1, <2>2 DEF DentryInv
<1> QED BY <1>2, <1>3, <1>4, <1>5 DEF IInv

\* yaffs_del_obj() keeps the invariant.
LEMMA DelObjKeeps ==
    ASSUME IInv, NEW o \in Ids, DelObj(o)
    PROVE  IInv'
<1> DEFINE e == generic_obj_del(core, o)
<1>1. /\ TypeOK /\ CoreSound(core) /\ InodeInv /\ Stands(call, core)
      /\ Listed(core) /\ CoreType(core) /\ Hooked(core) /\ call \in [Procs -> Calling]
  BY DEF IInv, CoreSound, Listed, TypeOK
<1>2. /\ inode[o].state = "deleting" /\ core' = e /\ call' = search_moved(call, core, o)
      /\ inode' = [inode EXCEPT ![o].state = "unstitching"]
      /\ dentry' = dentry /\ opens' = opens
  BY DEF DelObj
<1>3. /\ inode[o].obj /\ o \in DOMAIN core.obj /\ core.obj[o].my_inode
      /\ core.obj[o].name = None
  BY <1>1, <1>2 DEF InodeInv
<1>4. core.obj[o].kind # "link"
  BY <1>1, <1>3 DEF Hooked
<1>5. /\ Listed(e) /\ e.links = core.links /\ DOMAIN e.obj = DOMAIN core.obj
      /\ \A x \in DOMAIN core.obj \ {o} : e.obj[x] = core.obj[x]
      /\ e.obj[o].kind = core.obj[o].kind /\ e.obj[o].name = None
      /\ e.obj[o].equiv = core.obj[o].equiv
      /\ e.obj[o].my_inode /\ e.obj[o].defered_free
  BY <1>1, <1>3, DelIs
<1> HIDE DEF e
<1>6. Marked(core, core', o, core'.obj[o].my_inode, core'.obj[o].defered_free)
  BY <1>2, <1>3, <1>5 DEF Marked
<1>7. /\ CoreSound(core')
      /\ \A n \in Names, f \in Ids : Leads(core', n, f) <=> Leads(core, n, f)
      /\ \A f \in DOMAIN core.obj : get_obj_link_count(core', f) = get_obj_link_count(core, f)
      /\ \A y \in DOMAIN core.obj : y \in DOMAIN core'.obj /\ core'.obj[y].name = core.obj[y].name
  <2> DEFINE i == core'.obj[o].my_inode
             d == core'.obj[o].defered_free
  <2>1. /\ Marked(core, core', o, i, d)
        /\ core.obj[o].kind = "link" => ~i
        /\ core.obj[o].name = None => i
        /\ d => core.obj[o].name = None
    BY <1>2, <1>3, <1>4, <1>5, <1>6
  <2> HIDE DEF i, d
  <2> QED BY <1>1, <1>3, <2>1, MarkedSound
<1>8. Driven(call, call') /\ Stands(call', core)
  BY <1>1, <1>2, <1>3, MovedSearches
<1>9. Stands(call', core')
  <2>1. Off(call', {})
    BY DEF Off
  <2> QED BY <1>7, <1>8, <2>1, StandsOn
<1>10. /\ inode' \in [Ids -> Inodes] /\ \A x \in Ids \ {o} : inode'[x] = inode[x]
       /\ inode'[o].state = "unstitching" /\ inode'[o].obj
  <2> DEFINE i == [inode[o] EXCEPT !.state = "unstitching"]
  <2>1. i \in Inodes /\ i.state = "unstitching" /\ i.obj = inode[o].obj
    BY <1>1 DEF TypeOK, Inodes
  <2>2. inode' = [inode EXCEPT ![o] = i]
    BY <1>2
  <2> HIDE DEF i
  <2> QED BY <1>1, <1>3, <2>1, <2>2 DEF TypeOK
<1>11. /\ core'.obj[o].my_inode /\ core'.obj[o].defered_free /\ o \in DOMAIN core'.obj
       /\ \A x \in Ids \ {o} : /\ x \in DOMAIN core'.obj <=> x \in DOMAIN core.obj
                               /\ x \in DOMAIN core.obj => core'.obj[x] = core.obj[x]
  BY <1>2, <1>3, <1>5
<1> QED BY <1>2, <1>7, <1>8, <1>9, <1>10, <1>11, UnseenKeeps

\* yaffs_unstitch_obj() keeps the invariant: an object that was marked goes.
LEMMA UnstitchKeeps ==
    ASSUME IInv, NEW o \in Ids, Unstitch(o)
    PROVE  IInv'
<1> DEFINE out == [core EXCEPT !.obj[o].my_inode = FALSE]
<1>1. /\ TypeOK /\ CoreSound(core) /\ InodeInv /\ Stands(call, core)
      /\ Listed(core) /\ CoreType(core) /\ Hooked(core) /\ call \in [Procs -> Calling]
  BY DEF IInv, CoreSound, Listed, TypeOK
<1>2. inode[o].state = "unstitching"
  BY DEF Unstitch
<1>3. /\ inode[o].obj /\ o \in DOMAIN core.obj /\ core.obj[o].my_inode
      /\ core.obj[o].name = None <=> core.obj[o].defered_free
  BY <1>1, <1>2 DEF InodeInv, Hooked
<1>4. /\ core' = IF core.obj[o].defered_free THEN free_obj(out, o) ELSE out
      /\ inode' = [inode EXCEPT ![o] = NoInode]
      /\ dentry' = dentry /\ opens' = opens /\ call' = call
  BY <1>3 DEF Unstitch
<1>5. Marked(core, out, o, FALSE, core.obj[o].defered_free)
  BY <1>1, <1>3, MarkIs
<1> HIDE DEF out
<1>6. /\ inode' \in [Ids -> Inodes] /\ \A x \in Ids \ {o} : inode'[x] = inode[x]
      /\ inode'[o].state = "none" /\ ~inode'[o].obj
  <2>1. NoInode \in Inodes /\ NoInode.state = "none" /\ ~NoInode.obj
    BY DEF NoInode, Inodes
  <2> QED BY <1>1, <1>4, <2>1 DEF TypeOK
<1>7. Driven(call, call') /\ Off(call', {}) /\ Stands(call', core)
  BY <1>1, <1>4 DEF Driven, Off
<1>8. CASE core.obj[o].defered_free
  <2>1. /\ Listed(out) /\ out.links = core.links /\ DOMAIN out.obj = DOMAIN core.obj
        /\ \A x \in DOMAIN core.obj \ {o} : out.obj[x] = core.obj[x]
        /\ out.obj[o].name = None /\ ~out.obj[o].my_inode
    BY <1>3, <1>5, <1>8 DEF Marked
  <2>2. core' = free_obj(out, o)
    BY <1>4, <1>8
  <2>3. Listed(core') /\ Gone(out, core', o)
    BY <1>3, <2>1, <2>2, FreeIs
  <2>4. Gone(core, core', o)
    BY <2>1, <2>3 DEF Gone
  <2>5. /\ CoreSound(core')
        /\ \A n \in Names, f \in Ids : Leads(core', n, f) <=> Leads(core, n, f)
        /\ \A f \in DOMAIN core'.obj :
              /\ f \in DOMAIN core.obj /\ core'.obj[f] = core.obj[f]
              /\ get_obj_link_count(core', f) = get_obj_link_count(core, f)
    BY <1>1, <1>3, <1>8, <2>3, <2>4, GoneSound
  <2>6. DOMAIN core'.obj = DOMAIN core.obj \ {o}
    BY <2>4 DEF Gone
  <2>7. Stands(call', core')
    <3>1. Stands(call, core')
      <4>1. o \in {o} /\ core.obj[o].name = None
        BY <1>3, <1>8
      <4>2. ASSUME NEW p \in Procs, call[p].op = "readdir", call[p].next_return # None
            PROVE  call[p].next_return \in Entries(core', call[p].dir)
        <5>1. call[p].next_return \in Entries(core, call[p].dir)
          BY <1>1, <4>2 DEF Stands
        <5> QED BY <2>5, <2>6, <4>1, <5>1 DEF Entries
      <4> QED BY <4>2 DEF Stands
    <3> QED BY <1>4, <3>1
  <2> QED BY <1>2, <1>4, <1>6, <1>7, <2>5, <2>6, <2>7, UnseenKeeps
<1>9. CASE ~core.obj[o].defered_free
  <2>1. core' = out /\ core.obj[o].name # None
    BY <1>3, <1>4, <1>9
  <2>2. Marked(core, core', o, FALSE, core.obj[o].defered_free)
    BY <1>5, <2>1
  <2>3. /\ CoreSound(core')
        /\ \A n \in Names, f \in Ids : Leads(core', n, f) <=> Leads(core, n, f)
        /\ \A f \in DOMAIN core.obj : get_obj_link_count(core', f) = get_obj_link_count(core, f)
        /\ \A y \in DOMAIN core.obj : y \in DOMAIN core'.obj /\ core'.obj[y].name = core.obj[y].name
    <3> DEFINE i == FALSE
               d == core.obj[o].defered_free
    <3>1. /\ Marked(core, core', o, i, d)
          /\ core.obj[o].kind = "link" => ~i
          /\ core.obj[o].name = None => i
          /\ d => core.obj[o].name = None
      BY <1>9, <2>1, <2>2
    <3> HIDE DEF i, d
    <3> QED BY <1>1, <1>3, <3>1, MarkedSound
  <2>4. /\ DOMAIN core'.obj = DOMAIN core.obj /\ ~core'.obj[o].my_inode
        /\ \A x \in DOMAIN core.obj \ {o} : core'.obj[x] = core.obj[x]
    BY <2>2 DEF Marked
  <2>5. Stands(call', core')
    BY <1>7, <2>3, StandsOn
  <2> QED BY <1>2, <1>4, <1>6, <1>7, <2>3, <2>4, <2>5, UnseenKeeps
<1> QED BY <1>8, <1>9

-----------------------------------------------------------------------------
(* readdir.                                                                *)

\* yaffs_new_search() keeps the invariant.
LEMMA BeginKeeps ==
    ASSUME IInv, NEW p \in Procs, NEW d \in Dirs, ReaddirBegin(p, d)
    PROVE  IInv'
<1> DEFINE list == core.children[d]
           first == IF list = <<>> THEN None ELSE Head(list)
           k == [op |-> "readdir", dir |-> d, given |-> FALSE, next_return |-> first]
<1>1. /\ TypeOK /\ CoreSound(core) /\ CallInv /\ InodeInv /\ DentryInv /\ Stands(call, core)
      /\ Listed(core) /\ CoreType(core)
  BY DEF IInv, CoreSound, Listed
<1>2. /\ call[p] = Idle /\ \A q \in Procs : LockedDir(q) # d
      /\ call' = [call EXCEPT ![p] = k]
      /\ core' = core /\ inode' = inode /\ dentry' = dentry /\ opens' = opens
  BY DEF ReaddirBegin
<1>3. first # None => first \in Entries(core, d) /\ first \in Ids
  <2>1. list \in Seq(Ids) /\ Holds(list, Entries(core, d))
    BY <1>1 DEF Listed, CoreType
  <2> QED BY <2>1, BehindIs
<1> HIDE DEF first
<1>4. k \in Calling /\ k.op = "readdir" /\ k.dir = d /\ k.next_return = first
  BY <1>3 DEF Calling
<1> HIDE DEF k
<1>5. call'[p] = k /\ \A q \in Procs \ {p} : call'[q] = call[q]
  BY <1>1, <1>2 DEF TypeOK
<1>6. TypeOK'
  BY <1>1, <1>2, <1>4 DEF TypeOK
<1>7. CallInv'
  <2>1. LockedDir(p)' = d /\ \A q \in Procs \ {p} : LockedDir(q)' = LockedDir(q)
    BY <1>4, <1>5 DEF LockedDir, Reading
  <2>2. (\A q, r \in Procs :
            q # r /\ call[q] # Idle /\ call[r] # Idle => LockedDir(q) # LockedDir(r))'
    <3>1. ASSUME NEW q \in Procs, NEW r \in Procs, q # r, call'[q] # Idle, call'[r] # Idle
          PROVE  LockedDir(q)' # LockedDir(r)'
      <4>1. CASE q = p
        BY <1>2, <2>1, <3>1, <4>1
      <4>2. CASE r = p
        BY <1>2, <2>1, <3>1, <4>2
      <4>3. CASE q # p /\ r # p
        BY <1>1, <1>5, <2>1, <3>1, <4>3 DEF CallInv
      <4> QED BY <4>1, <4>2, <4>3
    <3> QED BY <3>1
  <2>3. (\A q \in Procs : call[q].op \in {"lookup", "mknod"} =>
            /\ Leads(core, call[q].name, call[q].id)
            /\ call[q].step = "fill" => inode[call[q].id].state = "new"
            /\ call[q].step = "add" => inode[call[q].id].state = "live")'
    BY <1>1, <1>2, <1>4, <1>5 DEF CallInv
  <2>4. (\A q, r \in Procs :
            /\ call[q].op \in {"lookup", "mknod"} /\ call[q].step = "fill"
            /\ call[r].op \in {"lookup", "mknod"} /\ call[r].step = "fill"
            /\ call[q].id = call[r].id
            => q = r)'
    BY <1>1, <1>4, <1>5 DEF CallInv
  <2> QED BY <2>2, <2>3, <2>4 DEF CallInv
<1>8. InodeInv'
  BY <1>1, <1>2 DEF InodeInv
<1>9. DentryInv'
  <2>1. \A n \in Names : Creating(n)' <=> Creating(n)
    BY <1>2, <1>4, <1>5 DEF Creating, Idle
  <2> QED BY <1>1, <1>2, <2>1 DEF DentryInv
<1>10. Stands(call', core')
  BY <1>1, <1>2, <1>3, <1>4, <1>5 DEF Stands
<1> QED BY <1>1, <1>2, <1>6, <1>7, <1>8, <1>9, <1>10 DEF IInv

\* An entry is handed out: the search stands on the next one.
LEMMA NextKeeps ==
    ASSUME IInv, NEW p \in Procs, ReaddirNext(p)
    PROVE  IInv'
<1> DEFINE l == IF call[p].given
                THEN search_advance(core, call[p].dir, call[p].next_return)
                ELSE call[p].next_return
           k == IF l = None THEN Idle
                ELSE [call[p] EXCEPT !.next_return = l, !.given = TRUE]
<1>1. /\ TypeOK /\ CoreSound(core) /\ CallInv /\ InodeInv /\ DentryInv /\ Stands(call, core)
      /\ Listed(core) /\ CoreType(core)
  BY DEF IInv, CoreSound, Listed
<1>2. /\ call[p].op = "readdir" /\ call' = [call EXCEPT ![p] = k]
      /\ core' = core /\ inode' = inode /\ dentry' = dentry /\ opens' = opens
  BY DEF ReaddirNext, Reading
<1>3. call[p] \in [op : {"readdir"}, dir : Dirs, given : BOOLEAN, next_return : Ids \cup {None}]
  BY <1>1, <1>2 DEF TypeOK, Calling, Idle
<1>4. l # None => l \in Entries(core, call[p].dir) /\ l \in Ids
  <2> DEFINE a == search_advance(core, call[p].dir, call[p].next_return)
  <2>1. a # None => a \in Entries(core, call[p].dir)
    BY <1>1, <1>3, AdvanceIs
  <2>2. call[p].next_return # None => call[p].next_return \in Entries(core, call[p].dir)
    BY <1>1, <1>2 DEF Stands
  <2>3. Entries(core, call[p].dir) \subseteq Ids
    BY <1>1 DEF Entries, CoreType
  <2> HIDE DEF a
  <2>4. l = IF call[p].given THEN a ELSE call[p].next_return
    BY DEF a
  <2> HIDE DEF l
  <2> QED BY <2>1, <2>2, <2>3, <2>4
<1> HIDE DEF l
<1>5. /\ k \in Calling /\ k.op \in {"idle", "readdir"}
      /\ k = Idle \/ (k.op = "readdir" /\ k.dir = call[p].dir /\ k.next_return = l /\ l # None)
  <2>1. CASE l = None
    BY <2>1 DEF Calling, Idle
  <2>2. CASE l # None
    <3> DEFINE x == [call[p] EXCEPT !.next_return = l, !.given = TRUE]
    <3>1. /\ x \in [op : {"readdir"}, dir : Dirs, given : BOOLEAN, next_return : Ids \cup {None}]
          /\ x.dir = call[p].dir /\ x.next_return = l
      BY <1>3, <1>4, <2>2
    <3>2. k = x
      BY <2>2
    <3> HIDE DEF x, k
    <3> QED BY <2>2, <3>1, <3>2 DEF Calling
  <2> QED BY <2>1, <2>2
<1> HIDE DEF k
<1>6. call'[p] = k /\ \A q \in Procs \ {p} : call'[q] = call[q]
  BY <1>1, <1>2 DEF TypeOK
<1>7. TypeOK'
  BY <1>1, <1>2, <1>5 DEF TypeOK
<1>8. CallInv'
  <2>1. /\ k # Idle => LockedDir(p)' = LockedDir(p)
        /\ \A q \in Procs \ {p} : LockedDir(q)' = LockedDir(q)
    BY <1>2, <1>5, <1>6 DEF LockedDir, Reading
  <2>2. call[p] # Idle
    BY <1>2 DEF Idle
  <2>3. (\A q, r \in Procs :
            q # r /\ call[q] # Idle /\ call[r] # Idle => LockedDir(q) # LockedDir(r))'
    <3>1. \A q \in Procs : call'[q] # Idle => call[q] # Idle /\ LockedDir(q)' = LockedDir(q)
      BY <1>6, <2>1, <2>2
    <3> QED BY <1>1, <3>1 DEF CallInv
  <2>4. \A q \in Procs : call'[q].op \in {"lookup", "mknod"} =>
            call'[q] = call[q] /\ call[q].op \in {"lookup", "mknod"}
    BY <1>5, <1>6
  <2>5. (\A q \in Procs : call[q].op \in {"lookup", "mknod"} =>
            /\ Leads(core, call[q].name, call[q].id)
            /\ call[q].step = "fill" => inode[call[q].id].state = "new"
            /\ call[q].step = "add" => inode[call[q].id].state = "live")'
    BY <1>1, <1>2, <2>4 DEF CallInv
  <2>6. (\A q, r \in Procs :
            /\ call[q].op \in {"lookup", "mknod"} /\ call[q].step = "fill"
            /\ call[r].op \in {"lookup", "mknod"} /\ call[r].step = "fill"
            /\ call[q].id = call[r].id
            => q = r)'
    BY <1>1, <2>4 DEF CallInv
  <2> QED BY <2>3, <2>5, <2>6 DEF CallInv
<1>9. InodeInv'
  BY <1>1, <1>2 DEF InodeInv
<1>10. DentryInv'
  <2>1. \A n \in Names : Creating(n)' <=> Creating(n)
    BY <1>2, <1>5, <1>6 DEF Creating
  <2> QED BY <1>1, <1>2, <2>1 DEF DentryInv
<1>11. Stands(call', core')
  BY <1>1, <1>2, <1>4, <1>5, <1>6 DEF Stands, Idle
<1> QED BY <1>1, <1>2, <1>7, <1>8, <1>9, <1>10, <1>11 DEF IInv

-----------------------------------------------------------------------------
(* The theorems.                                                           *)

\* The invariant holds at the start.
LEMMA InitHolds ==
    ASSUME Init
    PROVE  IInv
<1> DEFINE obj == <<>>
           links == [o \in Ids |-> <<>>]
           children == [d \in Dirs |-> <<>>]
<1>1. /\ core = [obj |-> obj, links |-> links, children |-> children]
      /\ inode = [o \in Ids |-> NoInode] /\ dentry = [n \in Names |-> None]
      /\ opens = [o \in Ids |-> 0] /\ call = [p \in Procs |-> Idle]
  BY DEF Init
<1>2. DOMAIN obj = {} /\ obj \in [{} -> Objects] /\ <<>> \in Seq(Ids)
  OBVIOUS
<1> HIDE DEF obj
<1>3. Holds(<<>>, {})
  BY DEF Holds, IsInjective, Range
<1>4. /\ core = [obj |-> core.obj, links |-> core.links, children |-> core.children]
      /\ core.obj = obj /\ core.links = links /\ core.children = children
  BY <1>1
<1>5. CoreType(core)
  BY <1>2, <1>4 DEF CoreType
<1>6. Listed(core)
  <2>1. \A d \in Dirs : Entries(core, d) = {} /\ core.children[d] = <<>>
    BY <1>2, <1>4 DEF Entries
  <2> QED BY <1>3, <1>5, <2>1 DEF Listed
<1>7. Hooked(core)
  <2>1. \A f \in Ids : LinksTo(core, f) = {} /\ core.links[f] = <<>>
    BY <1>2, <1>4 DEF LinksTo
  <2> QED BY <1>2, <1>3, <1>4, <2>1 DEF Hooked
<1>8. NamedOnce(core)
  BY <1>2, <1>4 DEF NamedOnce
<1>9. \A n, f : ~Leads(core, n, f)
  BY <1>2, <1>4 DEF Leads
<1>10. CoreSound(core)
  BY <1>6, <1>7, <1>8, <1>9 DEF CoreSound
<1>11. Idle.op = "idle" /\ NoInode.state = "none" /\ NoInode.obj = FALSE /\ NoInode \in Inodes
  BY DEF Idle, NoInode, Inodes
<1>12. TypeOK
  BY <1>1, <1>5, <1>11 DEF TypeOK, Calling
<1>13. CallInv
  BY <1>1, <1>11 DEF CallInv
<1>14. InodeInv
  BY <1>1, <1>2, <1>4, <1>11 DEF InodeInv
<1>15. DentryInv
  BY <1>1, VfsAssumption DEF DentryInv
<1>16. Stands(call, core)
  BY <1>1, <1>11 DEF Stands
<1> QED BY <1>10, <1>12, <1>13, <1>14, <1>15, <1>16 DEF IInv

\* A step that changes nothing keeps it.
LEMMA StutterKeeps ==
    ASSUME IInv, UNCHANGED vars
    PROVE  IInv'
BY DEF IInv, vars, TypeOK, CallInv, InodeInv, DentryInv, Stands, LockedDir, Reading, Creating

\* The core, the inodes, the dentries and the calls of all processes keep to
\* IInv: yaffs_vfs_multi.c lets the gross lock go in the middle of its calls.
THEOREM VfsInvariance == Spec => []IInv
<1>1. Init => IInv
  BY InitHolds
<1>2. IInv /\ [Next]_vars => IInv'
  <2> SUFFICES ASSUME IInv, [Next]_vars
               PROVE  IInv'
    OBVIOUS
  <2>1. ASSUME NEW p \in Procs, Calls(p) PROVE IInv'
    BY <2>1, LookupKeeps, MknodKeeps, IgetKeeps, FillKeeps, AddKeeps, BeginKeeps, NextKeeps
       DEF Calls
  <2>2. ASSUME OnNames PROVE IInv'
    BY <2>2, LinkKeeps, UnlinkKeeps, RenameKeeps, OpenKeeps, ShrinkKeeps DEF OnNames
  <2>3. ASSUME NEW o \in Ids, OnInode(o) PROVE IInv'
    BY <2>3, CloseKeeps, EvictKeeps, DelObjKeeps, UnstitchKeeps DEF OnInode
  <2>4. CASE UNCHANGED vars
    BY <2>4, StutterKeeps
  <2> QED BY <2>1, <2>2, <2>3, <2>4 DEF Next
<1> QED BY <1>1, <1>2, PTL DEF Spec

\* A name or an open file leads to an inode whose object is there and has as
\* many links, and a cached name to the file that has it, in every state of
\* yaffs_lookup(), yaffs_link(), yaffs_unlink(), yaffs_rename() and
\* yaffs_evict_inode() by any number of processes.
THEOREM VfsCachesTell == Spec => []CachesTell
<1>1. IInv => InodesMatchObjects
  <2> SUFFICES ASSUME IInv PROVE InodesMatchObjects
    OBVIOUS
  <2>1. /\ TypeOK /\ CoreSound(core) /\ InodeInv /\ DentryInv
        /\ CoreType(core) /\ Hooked(core)
    BY DEF IInv, TypeOK, CoreSound
  <2>2. ASSUME NEW o \in Ids, inode[o].obj
        PROVE  o \in Live /\ core.obj[o].my_inode /\ core.obj[o].kind = "file"
    <3>1. o \in DOMAIN core.obj /\ core.obj[o].my_inode
      BY <2>1, <2>2 DEF InodeInv
    <3>2. core.obj[o].kind \in {"file", "link"}
      BY <2>1, <3>1, ObjectIs
    <3> QED BY <2>1, <3>1, <3>2 DEF Hooked, Live
  <2>3. \A o \in Live : core.obj[o].my_inode => inode[o].obj
    BY <2>1 DEF InodeInv, Live, CoreType
  <2>4. ASSUME NEW o \in Ids, (\E n \in Names : dentry[n] = o) \/ opens[o] > 0
        PROVE  inode[o].state = "live" /\ inode[o].obj
    BY <2>1, <2>4 DEF DentryInv, InodeInv
  <2>5. \A o \in Ids : inode[o].state = "live" /\ inode[o].obj =>
            inode[o].nlink = get_obj_link_count(core, o)
    BY <2>1 DEF InodeInv
  <2> QED BY <2>2, <2>3, <2>4, <2>5 DEF InodesMatchObjects
<1>2. IInv => NamesLeadToFiles
  <2> SUFFICES ASSUME IInv PROVE NamesLeadToFiles
    OBVIOUS
  <2>1. /\ TypeOK /\ CoreSound(core) /\ InodeInv /\ DentryInv
        /\ CoreType(core) /\ Hooked(core)
    BY DEF IInv, TypeOK, CoreSound
  <2>2. ASSUME NEW n \in Names, NEW o, o = get_equivalent_obj(core, find_by_name(core, n)),
               dentry[n] # None, ~Creating(n)
        PROVE  dentry[n] = IF o = None THEN Negative ELSE o
    <3>1. /\ o = None => \A f \in Ids : ~Leads(core, n, f)
          /\ o # None => o \in Ids /\ Leads(core, n, o)
      BY <2>1, <2>2, FindIs, VfsAssumption
    <3>2. CASE dentry[n] \in Ids
      <4>1. Leads(core, n, dentry[n])
        BY <2>1, <3>2 DEF DentryInv
      <4> QED BY <2>1, <3>1, <3>2, <4>1 DEF CoreSound
    <3>3. CASE dentry[n] = Negative
      <4>1. \A f \in Ids : ~Leads(core, n, f)
        BY <2>1, <2>2, <3>3 DEF DentryInv
      <4> QED BY <3>1, <3>3, <4>1
    <3> QED BY <2>1, <2>2, <3>2, <3>3 DEF TypeOK
  <2>3. ASSUME NEW o \in Live
        PROVE  /\ core.obj[o].name = None => core.obj[o].my_inode
               /\ core.obj[o].defered_free =>
                      inode[o].state = "unstitching" /\ get_obj_link_count(core, o) = 0
               /\ core.obj[o].kind = "link" =>
                      /\ core.obj[o].equiv \in Live
                      /\ o \in Range(core.links[core.obj[o].equiv])
    <3>1. o \in Ids /\ o \in DOMAIN core.obj
      BY <2>1 DEF Live, CoreType
    <3>2. core.obj[o].name = None => core.obj[o].my_inode
      BY <2>1, <3>1 DEF Hooked
    <3>3. ASSUME core.obj[o].defered_free
          PROVE  inode[o].state = "unstitching" /\ get_obj_link_count(core, o) = 0
      <4>1. core.obj[o].name = None
        BY <2>1, <3>1, <3>3 DEF Hooked
      <4>2. inode[o].obj
        BY <2>1, <3>1, <3>2, <4>1 DEF InodeInv
      <4>3. inode[o].state = "unstitching"
        BY <2>1, <3>1, <3>3, <4>2 DEF InodeInv
      <4> QED BY <2>1, <3>1, <4>1, <4>3, CountZero
    <3>4. ASSUME core.obj[o].kind = "link"
          PROVE  /\ core.obj[o].equiv \in Live
                 /\ o \in Range(core.links[core.obj[o].equiv])
      <4>1. core.obj[o].equiv \in DOMAIN core.obj
        BY <2>1, <3>1, <3>4 DEF Hooked
      <4>2. Holds(core.links[core.obj[o].equiv], LinksTo(core, core.obj[o].equiv))
        BY <2>1, <4>1 DEF Hooked, CoreType
      <4>3. o \in LinksTo(core, core.obj[o].equiv)
        BY <3>1, <3>4 DEF LinksTo
      <4> QED BY <4>1, <4>2, <4>3 DEF Holds, Live
    <3> QED BY <3>2, <3>3, <3>4
  <2> QED BY <2>2, <2>3 DEF NamesLeadToFiles
<1>3. IInv => CachesTell
  BY <1>1, <1>2 DEF CachesTell
<1> QED BY <1>3, VfsInvariance, PTL

\* A readdir stands on an entry of its directory whatever is unlinked, renamed
\* or deleted while it has let the lock go: remove_obj_callback() sends it on.
THEOREM VfsSearchStands == Spec => []SearchStandsOnEntry
<1>1. IInv => SearchStandsOnEntry
  <2> SUFFICES ASSUME IInv, NEW p \in Procs, Reading(p), call[p].next_return # None
               PROVE  call[p].next_return \in Range(core.children[call[p].dir])
    BY DEF SearchStandsOnEntry
  <2>1. Listed(core) /\ Stands(call, core) /\ call[p] \in Calling /\ call[p].op = "readdir"
    BY DEF IInv, CoreSound, TypeOK, Reading
  <2>2. call[p].dir \in Dirs
    BY <2>1 DEF Calling, Idle
  <2>3. call[p].next_return \in Entries(core, call[p].dir)
    BY <2>1 DEF Stands
  <2> QED BY <2>1, <2>2, <2>3 DEF Listed, Holds
<1> QED BY <1>1, VfsInvariance, PTL
=============================================================================
