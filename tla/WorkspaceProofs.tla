--------------------------- MODULE WorkspaceProofs ---------------------------
(***************************************************************************)
(* Proofs of what MCWorkspace states, for every pool of slots and any      *)
(* number of files, names, leases and descriptors.                         *)
(*                                                                         *)
(* One inductive invariant proves all four properties.  It is a predicate  *)
(* of a state of the workspace, given by its parts, because a rename and a *)
(* commit of an import are two changes in one step: the state in between   *)
(* satisfies it too.                                                       *)
(***************************************************************************)
EXTENDS MCWorkspace, TLAPS

Node == [name : Name \cup {NoName, Staging}, slot : Slot \cup {NoSlot},
         readers : Nat, writers : Nat, failed : BOOLEAN, unlinked : BOOLEAN,
         lost : BOOLEAN, part : BOOLEAN, stale : BOOLEAN]

Gone(n) == n.name = NoName /\ n.readers + n.writers = 0

\* A node is blank, or it has a slot.  Without a name it is there for its
\* descriptors only; what was lost, or not recorded, is known to have failed.
NodeOK(n) ==
    /\ n \in Node
    /\ Gone(n) => n = NoNode
    /\ ~Gone(n) => n.slot \in Slot
    /\ n.unlinked => n.name = NoName
    /\ ~Gone(n) /\ n.name = NoName => n.unlinked
    /\ n.lost \/ n.stale => n.failed

PoolOK(pool, empty) ==
    /\ pool \in [Slot -> {"free", "taken", "retired"}]
    /\ empty \subseteq Slot
    /\ \A s \in empty : pool[s] # "free"

FilesOK(fs) == fs \in [File -> Node] /\ \A f \in File : NodeOK(fs[f])

\* Every slot that is taken is that of exactly one file.
SlotsOK(pool, fs) ==
    /\ \A s \in Slot : pool[s] = "taken" => \E f \in File : fs[f].slot = s
    /\ \A f \in File : fs[f].slot # NoSlot => pool[fs[f].slot] = "taken"
    /\ \A f, g \in File : f # g /\ fs[f].slot = fs[g].slot => fs[f].slot = NoSlot

LeasesOK(ls, fs) ==
    /\ ls \in [Lease -> [of : File \cup {NoFile}, torn : BOOLEAN]]
    /\ \A l \in Lease : ls[l].of # NoFile
          => fs[ls[l].of].name # NoName /\ fs[ls[l].of].writers = 0 /\ ~ls[l].torn

\* The import writes through the one descriptor its file has, and until it is
\* over the file has no name of its own; no other file is in part.
ImportOK(i, fs) ==
    /\ i \in [of : File \cup {NoFile}, target : Name \cup {NoName}, whole : BOOLEAN]
    /\ i.of # NoFile => /\ fs[i.of].name \in {NoName, Staging}
                        /\ fs[i.of].writers = 1 /\ fs[i.of].readers = 0
                        /\ i.target \in Name
    /\ \A f \in File : fs[f].part => i.of = f

Sound(pool, empty, fs, ls, i) ==
    /\ PoolOK(pool, empty)
    /\ FilesOK(fs)
    /\ SlotsOK(pool, fs)
    /\ LeasesOK(ls, fs)
    /\ ImportOK(i, fs)

IInv == Sound(slot, dirty, file, lease, imp)

-----------------------------------------------------------------------------
(* Types, and what a blank node is.                                         *)

LEMMA BlankNode == NodeOK(NoNode) /\ Gone(NoNode) /\ NoNode.slot = NoSlot /\ ~NoNode.part
BY DEF NodeOK, Node, NoNode, Gone

LEMMA WorkspaceInit == Init => IInv
<1> SUFFICES ASSUME Init PROVE IInv
  OBVIOUS
<1> USE WorkspaceAssumption DEF Init
<1>1. PoolOK(slot, dirty)  BY DEF PoolOK
<1>2. FilesOK(file)  BY BlankNode DEF FilesOK, NodeOK
<1>3. SlotsOK(slot, file)  BY BlankNode DEF SlotsOK
<1>4. LeasesOK(lease, file)  BY DEF LeasesOK, NoLease
<1>5. ImportOK(imp, file)  BY BlankNode DEF ImportOK, NoImport
<1> QED BY <1>1, <1>2, <1>3, <1>4, <1>5 DEF IInv, Sound

-----------------------------------------------------------------------------
(* What a kind of step does to a state that is sound.                       *)

\* A file keeps its slot and changes otherwise; the import may change with it.
LEMMA NodeChanges ==
    ASSUME NEW pool, NEW empty, NEW fs, NEW ls, NEW i, NEW j,
           Sound(pool, empty, fs, ls, i),
           NEW f \in File, ~Gone(fs[f]),
           NEW n, NodeOK(n), ~Gone(n), n.slot = fs[f].slot,
           \A l \in Lease : ls[l].of = f => n.name # NoName /\ n.writers = 0,
           ImportOK(j, [fs EXCEPT ![f] = n])
    PROVE  Sound(pool, empty, [fs EXCEPT ![f] = n], ls, j)
<1> DEFINE gs == [fs EXCEPT ![f] = n]
<1>1. fs \in [File -> Node] /\ n \in Node
  BY DEF Sound, FilesOK, NodeOK
<1>2. gs \in [File -> Node] /\ gs[f] = n /\ \A g \in File : g # f => gs[g] = fs[g]
  BY <1>1
<1>3. FilesOK(gs)
  BY <1>2 DEF Sound, FilesOK
<1>4. \A g \in File : gs[g].slot = fs[g].slot
  BY <1>2
<1>5. SlotsOK(pool, gs)
  <2>1. SlotsOK(pool, fs)  BY DEF Sound
  <2>2. \A s \in Slot : pool[s] = "taken" => \E g \in File : gs[g].slot = s
    BY <2>1, <1>4 DEF SlotsOK
  <2>3. \A g \in File : gs[g].slot # NoSlot => pool[gs[g].slot] = "taken"
    BY <2>1, <1>4 DEF SlotsOK
  <2>4. \A g, h \in File : g # h /\ gs[g].slot = gs[h].slot => gs[g].slot = NoSlot
    BY <2>1, <1>4 DEF SlotsOK
  <2> QED BY <2>2, <2>3, <2>4 DEF SlotsOK
<1>6. LeasesOK(ls, gs)
  BY <1>2, WorkspaceAssumption DEF Sound, LeasesOK
<1> QED BY <1>3, <1>5, <1>6 DEF Sound

\* The same, with the import left alone.
LEMMA NodeMoves ==
    ASSUME NEW pool, NEW empty, NEW fs, NEW ls, NEW i,
           Sound(pool, empty, fs, ls, i),
           NEW f \in File, ~Gone(fs[f]),
           NEW n, NodeOK(n), ~Gone(n), n.slot = fs[f].slot,
           \A l \in Lease : ls[l].of = f => n.name # NoName /\ n.writers = 0,
           i.of = f => n.name \in {NoName, Staging} /\ n.writers = 1 /\ n.readers = 0,
           n.part => i.of = f
    PROVE  Sound(pool, empty, [fs EXCEPT ![f] = n], ls, i)
<1> DEFINE gs == [fs EXCEPT ![f] = n]
<1>1. fs \in [File -> Node] /\ n \in Node
  BY DEF Sound, FilesOK, NodeOK
<1>2. gs[f] = n /\ \A g \in File : g # f => gs[g] = fs[g]
  BY <1>1
<1>3. ImportOK(i, gs)
  BY <1>2, WorkspaceAssumption DEF Sound, ImportOK
<1> QED BY <1>3, NodeChanges

\* A slot goes back to the pool, or is withdrawn; its file is no more.
LEMMA NodeGoes ==
    ASSUME NEW pool, NEW empty, NEW fs, NEW ls, NEW i, NEW j,
           Sound(pool, empty, fs, ls, i),
           NEW f \in File, ~Gone(fs[f]),
           \A l \in Lease : ls[l].of # f,
           ImportOK(j, [fs EXCEPT ![f] = NoNode]),
           NEW pool2, NEW empty2,
           \/ pool2 = [pool EXCEPT ![fs[f].slot] = "free"] /\ empty2 = empty \ {fs[f].slot}
           \/ pool2 = [pool EXCEPT ![fs[f].slot] = "retired"] /\ empty2 = empty
    PROVE  Sound(pool2, empty2, [fs EXCEPT ![f] = NoNode], ls, j)
<1> DEFINE gs == [fs EXCEPT ![f] = NoNode]
           s == fs[f].slot
<1>1. fs \in [File -> Node] /\ s \in Slot /\ NodeOK(NoNode) /\ NoNode \in Node
  BY BlankNode DEF Sound, FilesOK, NodeOK
<1>2. gs \in [File -> Node] /\ gs[f] = NoNode /\ \A g \in File : g # f => gs[g] = fs[g]
  BY <1>1
<1>3. PoolOK(pool2, empty2)
  BY <1>1 DEF Sound, PoolOK
<1>4. FilesOK(gs)
  BY <1>1, <1>2 DEF Sound, FilesOK
<1>5. SlotsOK(pool2, gs)
  <2>1. SlotsOK(pool, fs) /\ pool \in [Slot -> {"free", "taken", "retired"}]
    BY DEF Sound, PoolOK
  <2>2. pool2[s] # "taken" /\ \A t \in Slot : t # s => pool2[t] = pool[t]
    BY <2>1, <1>1
  <2>3. \A g \in File : g # f /\ fs[g].slot # NoSlot => fs[g].slot # s /\ fs[g].slot \in Slot
    BY <2>1, <1>1 DEF SlotsOK, Node
  <2>4. \A t \in Slot : pool2[t] = "taken" => \E g \in File : gs[g].slot = t
    BY <2>1, <2>2, <1>2 DEF SlotsOK
  <2>5. \A g \in File : gs[g].slot # NoSlot => pool2[gs[g].slot] = "taken"
    BY <2>1, <2>2, <2>3, <1>2, BlankNode DEF SlotsOK
  <2>6. \A g, h \in File : g # h /\ gs[g].slot = gs[h].slot => gs[g].slot = NoSlot
    BY <2>1, <1>2, BlankNode DEF SlotsOK
  <2> QED BY <2>4, <2>5, <2>6 DEF SlotsOK
<1>6. LeasesOK(ls, gs)
  BY <1>2, WorkspaceAssumption DEF Sound, LeasesOK
<1> QED BY <1>3, <1>4, <1>5, <1>6 DEF Sound

\* A free slot becomes that of a new file.
LEMMA NodeComes ==
    ASSUME NEW pool, NEW empty, NEW fs, NEW ls, NEW i, NEW j,
           Sound(pool, empty, fs, ls, i),
           NEW f \in File, Gone(fs[f]),
           NEW s \in Slot, pool[s] = "free",
           NEW n, NodeOK(n), ~Gone(n), n.slot = s,
           ImportOK(j, [fs EXCEPT ![f] = n])
    PROVE  Sound([pool EXCEPT ![s] = "taken"], empty, [fs EXCEPT ![f] = n], ls, j)
<1> DEFINE gs == [fs EXCEPT ![f] = n]
           pool2 == [pool EXCEPT ![s] = "taken"]
<1>1. fs \in [File -> Node] /\ n \in Node /\ fs[f] = NoNode
  BY DEF Sound, FilesOK, NodeOK
<1>2. gs \in [File -> Node] /\ gs[f] = n /\ \A g \in File : g # f => gs[g] = fs[g]
  BY <1>1
<1>3. PoolOK(pool2, empty)
  BY DEF Sound, PoolOK
<1>4. FilesOK(gs)
  BY <1>2 DEF Sound, FilesOK
<1>5. SlotsOK(pool2, gs)
  <2>1. SlotsOK(pool, fs) /\ pool \in [Slot -> {"free", "taken", "retired"}]
    BY DEF Sound, PoolOK
  <2>2. pool2[s] = "taken" /\ \A t \in Slot : t # s => pool2[t] = pool[t]
    BY <2>1
  <2>3. \A g \in File : fs[g].slot # s /\ (fs[g].slot # NoSlot => fs[g].slot \in Slot)
    BY <2>1, <1>1, WorkspaceAssumption DEF SlotsOK, Node
  <2>4. \A t \in Slot : pool2[t] = "taken" => \E g \in File : gs[g].slot = t
    <3> TAKE t \in Slot
    <3> HAVE pool2[t] = "taken"
    <3>1. CASE t = s  BY <3>1, <1>2
    <3>2. CASE t # s
      <4>1. PICK g \in File : fs[g].slot = t  BY <3>2, <2>1, <2>2 DEF SlotsOK
      <4>2. g # f  BY <4>1, <1>1, BlankNode, WorkspaceAssumption
      <4> QED BY <4>1, <4>2, <1>2
    <3> QED BY <3>1, <3>2
  <2>5. \A g \in File : gs[g].slot # NoSlot => pool2[gs[g].slot] = "taken"
    BY <2>1, <2>2, <2>3, <1>2 DEF SlotsOK
  <2>6. \A g, h \in File : g # h /\ gs[g].slot = gs[h].slot => gs[g].slot = NoSlot
    BY <2>1, <2>3, <1>2 DEF SlotsOK
  <2> QED BY <2>4, <2>5, <2>6 DEF SlotsOK
<1>6. LeasesOK(ls, gs)
  <2>1. fs[f].name = NoName  BY <1>1 DEF NoNode
  <2> QED BY <2>1, <1>2, WorkspaceAssumption DEF Sound, LeasesOK
<1> QED BY <1>3, <1>4, <1>5, <1>6 DEF Sound

\* What is on disk changes: less of it, or the bytes of a file that has a slot.
LEMMA BytesChange ==
    ASSUME NEW pool, NEW empty, NEW fs, NEW ls, NEW i,
           Sound(pool, empty, fs, ls, i),
           NEW f \in File, ~Gone(fs[f]),
           NEW empty2, empty2 \subseteq empty \cup {fs[f].slot}
    PROVE  Sound(pool, empty2, fs, ls, i)
<1>1. fs[f].slot \in Slot /\ pool[fs[f].slot] = "taken"
  BY WorkspaceAssumption DEF Sound, FilesOK, NodeOK, SlotsOK
<1>2. PoolOK(pool, empty2)
  BY <1>1 DEF Sound, PoolOK
<1> QED BY <1>2 DEF Sound

\* What is known of a file.
LEMMA FileFacts ==
    ASSUME IInv, NEW f \in File
    PROVE  /\ file \in [File -> Node] /\ file[f] \in Node /\ NodeOK(file[f])
           /\ Gone(file[f]) <=> Dead(f)
           /\ Opens(f) \in Nat
           /\ Leases(f) = {} => \A l \in Lease : lease[l].of # f
           /\ file[f].writers > 0 => \A l \in Lease : lease[l].of # f
           /\ ~Exists(f) => \A l \in Lease : lease[l].of # f
<1>1. file \in [File -> Node] /\ NodeOK(file[f])
  BY DEF IInv, Sound, FilesOK
<1>2. file[f] \in Node
  BY <1>1
<1>3. Gone(file[f]) <=> Dead(f)
  BY DEF Gone, Dead, Exists, Opens
<1>4. Opens(f) \in Nat
  BY <1>2 DEF Opens, Node
<1>5. Leases(f) = {} => \A l \in Lease : lease[l].of # f
  BY DEF Leases
<1>6. \A l \in Lease : lease[l].of = f => file[f].name # NoName /\ file[f].writers = 0
  BY WorkspaceAssumption DEF IInv, Sound, LeasesOK
<1> QED BY <1>1, <1>2, <1>3, <1>4, <1>5, <1>6 DEF Exists

-----------------------------------------------------------------------------
(* Every call of Python keeps the invariant.                                *)

LEMMA KeepsCreate ==
    ASSUME IInv, NEW f \in File, NEW n \in Name, NEW s \in Slot, Create(f, n, s)
    PROVE  IInv'
<1> DEFINE node == [NoNode EXCEPT !.name = n, !.slot = s, !.writers = 1, !.part = (n = Staging)]
<1> USE WorkspaceAssumption DEF Create, CreateNode
<1>1. NodeOK(node) /\ ~Gone(node) /\ node.slot = s /\ ~node.part
  BY DEF NodeOK, Node, NoNode, Gone
<1>2. Gone(file[f]) /\ file \in [File -> Node]
  BY FileFacts
<1>3. imp.of # f
  BY <1>2 DEF IInv, Sound, ImportOK, Gone
<1>4. ImportOK(imp, [file EXCEPT ![f] = node])
  <2>1. \A g \in File : g # f => [file EXCEPT ![f] = node][g] = file[g]  BY <1>2
  <2> QED BY <2>1, <1>1, <1>2, <1>3 DEF IInv, Sound, ImportOK
<1>5. Sound([slot EXCEPT ![s] = "taken"], dirty, [file EXCEPT ![f] = node], lease, imp)
  BY <1>1, <1>2, <1>4, NodeComes DEF IInv
<1> QED BY <1>5 DEF IInv

LEMMA KeepsTakeFails ==
    ASSUME IInv, NEW s \in Slot, TakeFails(s) PROVE IInv'
<1> USE DEF TakeFails
<1>1. PoolOK(slot', dirty')
  BY DEF IInv, Sound, PoolOK
<1>2. SlotsOK(slot', file')
  <2>1. SlotsOK(slot, file) /\ slot \in [Slot -> {"free", "taken", "retired"}]
    BY DEF IInv, Sound, PoolOK
  <2>2. \A t \in Slot : slot'[t] = "taken" <=> slot[t] = "taken"
    BY <2>1
  <2>3. \A f \in File : file[f].slot # NoSlot => file[f].slot \in Slot
    BY DEF IInv, Sound, FilesOK, Node
  <2> QED BY <2>1, <2>2, <2>3 DEF SlotsOK
<1> QED BY <1>1, <1>2 DEF IInv, Sound

LEMMA KeepsOpenRead ==
    ASSUME IInv, NEW f \in File, OpenRead(f) PROVE IInv'
<1> DEFINE node == [file[f] EXCEPT !.readers = @ + 1]
<1> USE WorkspaceAssumption DEF OpenRead, InReach, Exists
<1>1. file \in [File -> Node] /\ file[f] \in Node /\ NodeOK(file[f]) /\ ~Gone(file[f])
  BY FileFacts DEF Gone
<1>2. imp.of # f
  BY <1>1 DEF IInv, Sound, ImportOK
<1>3. NodeOK(node) /\ ~Gone(node) /\ node.slot = file[f].slot /\ ~node.part
  BY <1>1, <1>2 DEF NodeOK, Node, Gone, IInv, Sound, ImportOK
<1>4. \A l \in Lease : lease[l].of = f => node.name # NoName /\ node.writers = 0
  BY <1>1 DEF IInv, Sound, LeasesOK, Node
<1>5. Sound(slot, dirty, [file EXCEPT ![f] = node], lease, imp)
  BY <1>1, <1>2, <1>3, <1>4, NodeMoves DEF IInv
<1>6. file' = [file EXCEPT ![f] = node]
  BY <1>1
<1> QED BY <1>5, <1>6 DEF IInv

LEMMA KeepsOpenWrite ==
    ASSUME IInv, NEW f \in File, NEW truncates \in BOOLEAN, OpenWrite(f, truncates)
    PROVE  IInv'
<1> DEFINE old == IF truncates THEN Bumped(file[f]) ELSE file[f]
           node == [old EXCEPT !.writers = @ + 1]
<1> USE WorkspaceAssumption DEF OpenWrite, InReach, Exists
<1>1. /\ file \in [File -> Node] /\ file[f] \in Node /\ NodeOK(file[f]) /\ ~Gone(file[f])
      /\ \A l \in Lease : lease[l].of # f
  BY FileFacts DEF Gone
<1>2. imp.of # f
  BY <1>1 DEF IInv, Sound, ImportOK
<1>a. ~file[f].part
  BY <1>2 DEF IInv, Sound, ImportOK
<1>b. /\ old \in Node /\ old.name = file[f].name /\ old.slot = file[f].slot
      /\ old.readers = file[f].readers /\ old.writers = file[f].writers
      /\ old.part = file[f].part /\ old.unlinked = file[f].unlinked
      /\ old.lost = file[f].lost /\ old.failed = file[f].failed
      /\ old.stale => file[f].stale
  BY <1>1 DEF Bumped, Node
<1> HIDE DEF old
<1>3. NodeOK(node) /\ ~Gone(node) /\ node.slot = file[f].slot /\ ~node.part
  BY <1>1, <1>a, <1>b DEF NodeOK, Node, Gone
<1>4. Sound(slot, dirty, [file EXCEPT ![f] = node], lease, imp)
  BY <1>1, <1>2, <1>3, NodeMoves DEF IInv
<1> USE DEF old
<1>5. file' = [file EXCEPT ![f] = node] /\ file'[f] = node
  BY <1>1
<1>6. dirty' \subseteq dirty \cup {file'[f].slot}
  BY <1>3, <1>5
<1>7. Sound(slot, dirty, file', lease, imp) /\ ~Gone(file'[f])
  BY <1>3, <1>4, <1>5
<1>8. Sound(slot, dirty', file', lease, imp)
  <2> HIDE DEF OpenWrite, node, old
  <2> QED BY <1>6, <1>7, BytesChange
<1> QED BY <1>8 DEF IInv

LEMMA KeepsTruncate ==
    ASSUME IInv, NEW f \in File, Truncate(f) PROVE IInv'
<1> USE WorkspaceAssumption DEF Truncate, InReach, Exists
<1>1. /\ file \in [File -> Node] /\ file[f] \in Node /\ NodeOK(file[f]) /\ ~Gone(file[f])
      /\ \A l \in Lease : lease[l].of # f
  BY FileFacts DEF Gone
<1>2. imp.of # f
  BY <1>1 DEF IInv, Sound, ImportOK
<1>3. PICK node \in {Bumped(file[f]), [Failed(Changed(file[f])) EXCEPT !.lost = TRUE]} :
         file' = [file EXCEPT ![f] = node]
  OBVIOUS
<1>4. NodeOK(node) /\ ~Gone(node) /\ node.slot = file[f].slot /\ ~node.part
  BY <1>1, <1>2 DEF NodeOK, Node, Gone, Bumped, Changed, Failed, IInv, Sound, ImportOK
<1>5. Sound(slot, dirty, [file EXCEPT ![f] = node], lease, imp)
  BY <1>1, <1>2, <1>4, NodeMoves DEF IInv
<1> QED BY <1>3, <1>5 DEF IInv

LEMMA KeepsDup ==
    ASSUME IInv, NEW f \in File, Dup(f) PROVE IInv'
<1> USE WorkspaceAssumption DEF Dup
<1>1. PICK node \in {[file[f] EXCEPT !.readers = @ + 1], [file[f] EXCEPT !.writers = @ + 1]} :
         /\ file' = [file EXCEPT ![f] = node]
         /\ Opens(f) > 0
         /\ node.writers # file[f].writers => file[f].writers > 0
  BY FileFacts DEF Opens, Node
<1>2. /\ file \in [File -> Node] /\ file[f] \in Node /\ NodeOK(file[f]) /\ ~Gone(file[f])
      /\ file[f].writers > 0 => \A l \in Lease : lease[l].of # f
  BY <1>1, FileFacts DEF Dead
<1>3. NodeOK(node) /\ ~Gone(node) /\ node.slot = file[f].slot /\ ~node.part
  BY <1>2 DEF NodeOK, Node, Gone, IInv, Sound, ImportOK
<1>4. \A l \in Lease : lease[l].of = f => node.name # NoName /\ node.writers = 0
  BY <1>1, <1>2 DEF IInv, Sound, LeasesOK, Node
<1>5. Sound(slot, dirty, [file EXCEPT ![f] = node], lease, imp)
  BY <1>2, <1>3, <1>4, NodeMoves DEF IInv
<1> QED BY <1>1, <1>5 DEF IInv


LEMMA WritesKeep ==
    ASSUME IInv, NEW f \in File, NEW ok \in BOOLEAN, Writes(f, ok)
    PROVE  Sound(slot', dirty', file', lease', imp)
<1> DEFINE node == IF ok THEN Bumped(Changed(file[f]))
                   ELSE [Failed(Changed(file[f])) EXCEPT !.lost = TRUE]
<1> USE WorkspaceAssumption DEF Writes
<1>1. /\ file \in [File -> Node] /\ file[f] \in Node /\ NodeOK(file[f]) /\ ~Gone(file[f])
      /\ \A l \in Lease : lease[l].of # f
  BY FileFacts DEF Gone, Node
<1>2. NodeOK(node) /\ ~Gone(node) /\ node.slot = file[f].slot
  BY <1>1 DEF NodeOK, Node, Gone, Bumped, Changed, Failed
<1>3. /\ node.name = file[f].name /\ node.writers = file[f].writers
      /\ node.readers = file[f].readers /\ node.part = file[f].part
  BY <1>1 DEF Node, Bumped, Changed, Failed
<1>4. /\ imp.of = f => node.name \in {NoName, Staging} /\ node.writers = 1 /\ node.readers = 0
      /\ node.part => imp.of = f
  BY <1>3 DEF IInv, Sound, ImportOK
<1>5. Sound(slot, dirty, [file EXCEPT ![f] = node], lease, imp)
  <2> HIDE DEF node
  <2> QED BY <1>1, <1>2, <1>4, NodeMoves DEF IInv
<1>6. file' = [file EXCEPT ![f] = node] /\ dirty' = dirty \cup {file[f].slot} /\ slot' = slot
  BY <1>1
<1>7. file'[f] = node
  BY <1>1, <1>6
<1>8. lease' = lease
  BY <1>1 DEF Torn, IInv, Sound, LeasesOK
<1>9. Sound(slot, dirty, file', lease, imp) /\ ~Gone(file'[f])
  BY <1>2, <1>5, <1>6, <1>7
<1>10. dirty' \subseteq dirty \cup {file'[f].slot}
  BY <1>2, <1>6, <1>7
<1>11. Sound(slot, dirty', file', lease, imp)
  <2> HIDE DEF Writes, node
  <2> QED BY <1>9, <1>10, BytesChange
<1> QED BY <1>6, <1>8, <1>11

LEMMA KeepsWrite ==
    ASSUME IInv, NEW f \in File, Write(f) PROVE IInv'
BY WritesKeep DEF Write, IInv

\* One descriptor of several is closed, the last one of an unlinked file, or
\* the last one of a file that stays.
LEMMA KeepsClose ==
    ASSUME IInv, NEW f \in File, NEW kind \in {"read", "write"}, Close(f, kind)
    PROVE  IInv'
<1> USE WorkspaceAssumption DEF Close, Closes
<1>1. /\ file \in [File -> Node] /\ file[f] \in Node /\ NodeOK(file[f]) /\ Opens(f) > 0
      /\ \A l \in Lease : lease[l].of = f => file[f].name # NoName /\ file[f].writers = 0
      /\ imp.of # f /\ ~file[f].part
  BY FileFacts DEF Opens, Node, IInv, Sound, LeasesOK, ImportOK
<1>2. ~Gone(file[f])
  BY <1>1 DEF Gone, Opens
<1>3. ASSUME NEW node \in {Closing(f, kind), [Failed(Closing(f, kind)) EXCEPT !.lost = TRUE]},
             Opens(f) > 1 \/ ~file[f].unlinked,
             file' = [file EXCEPT ![f] = node], KeepSlots
      PROVE  IInv'
  <2>1. /\ node \in Node /\ node.name = file[f].name /\ node.slot = file[f].slot
        /\ node.readers + node.writers = Opens(f) - 1
        /\ node.writers = IF kind = "write" THEN file[f].writers - 1 ELSE file[f].writers
        /\ node.unlinked = file[f].unlinked /\ node.part = file[f].part
        /\ node.lost \/ node.stale => node.failed
    <3> DEFINE closing == Closing(f, kind)
    <3>1. /\ kind = "read" => file[f].readers \in Nat \ {0}
          /\ kind = "write" => file[f].writers \in Nat \ {0}
      BY <1>1 DEF Node
    <3>2. /\ closing \in Node /\ closing.name = file[f].name /\ closing.slot = file[f].slot
          /\ closing.readers + closing.writers = Opens(f) - 1
          /\ closing.writers = IF kind = "write" THEN file[f].writers - 1 ELSE file[f].writers
          /\ closing.unlinked = file[f].unlinked /\ closing.part = file[f].part
          /\ closing.lost = file[f].lost /\ closing.stale = file[f].stale
          /\ closing.failed = file[f].failed
      <4>1. CASE kind = "read"
        BY <1>1, <3>1, <4>1 DEF Node, Closing, Opens
      <4>2. CASE kind = "write"
        BY <1>1, <3>1, <4>2 DEF Node, Closing, Opens
      <4> QED BY <4>1, <4>2
    <3>3. file[f].lost \/ file[f].stale => file[f].failed
      BY <1>1 DEF NodeOK
    <3>4. node \in {closing, [Failed(closing) EXCEPT !.lost = TRUE]}
      OBVIOUS
    <3> HIDE DEF closing, Close, Closes
    <3>5. CASE node = closing
      BY <3>2, <3>3, <3>5
    <3>6. CASE node = [Failed(closing) EXCEPT !.lost = TRUE]
      BY <3>2, <3>6 DEF Node, Failed
    <3> QED BY <3>4, <3>5, <3>6
  <2>2. NodeOK(node) /\ ~Gone(node)
    <3> HIDE DEF Close, Closes
    <3>1. NodeOK(file[f]) /\ ~Gone(file[f]) /\ Opens(f) \in Nat
          /\ (Opens(f) > 1 \/ ~file[f].unlinked)
      BY <1>1, <1>2, <1>3, FileFacts
    <3>2. ~Gone(node)
      BY <1>1, <3>1, <2>1 DEF NodeOK, Gone
    <3> QED BY <3>1, <3>2, <2>1 DEF NodeOK
  <2>3. \A l \in Lease : lease[l].of = f => node.name # NoName /\ node.writers = 0
    BY <1>1, <2>1
  <2>4. Sound(slot, dirty, [file EXCEPT ![f] = node], lease, imp)
    <3> HIDE DEF Close, Closes
    <3> QED BY <1>1, <1>2, <2>1, <2>2, <2>3, NodeMoves DEF IInv
  <2> QED BY <1>3, <2>4 DEF IInv, KeepSlots
<1>4. CASE Opens(f) > 1
  BY <1>3, <1>4
<1>5. CASE ~(Opens(f) > 1) /\ file[f].unlinked
  <2>1. \A l \in Lease : lease[l].of # f
    BY <1>1, <1>5 DEF NodeOK
  <2>2. ImportOK(imp, [file EXCEPT ![f] = NoNode])
    BY <1>1, BlankNode DEF IInv, Sound, ImportOK
  <2>3. file' = [file EXCEPT ![f] = NoNode] /\ Releases(file[f].slot)
    BY <1>5
  <2>4. Sound(slot', dirty', [file EXCEPT ![f] = NoNode], lease, imp)
    <3> HIDE DEF Close, Closes
    <3> QED BY <1>2, <2>1, <2>2, <2>3, NodeGoes DEF IInv, Releases
  <2> QED BY <2>3, <2>4 DEF IInv
<1>6. CASE ~(Opens(f) > 1) /\ ~file[f].unlinked
  BY <1>3, <1>6
<1> QED BY <1>4, <1>5, <1>6

LEMMA KeepsReadFails ==
    ASSUME IInv, NEW f \in File, ReadFails(f) PROVE IInv'
<1> DEFINE node == Failed(file[f])
<1> USE WorkspaceAssumption DEF ReadFails
<1>1. /\ file \in [File -> Node] /\ file[f] \in Node /\ NodeOK(file[f]) /\ ~Gone(file[f])
      /\ \A l \in Lease : lease[l].of = f => file[f].name # NoName /\ file[f].writers = 0
      /\ imp.of # f /\ ~file[f].part
  BY FileFacts DEF Dead, IInv, Sound, LeasesOK, ImportOK
<1>2. /\ NodeOK(node) /\ ~Gone(node) /\ node.slot = file[f].slot /\ ~node.part
      /\ node.name = file[f].name /\ node.writers = file[f].writers
  BY <1>1 DEF NodeOK, Node, Gone, Failed
<1>3. Sound(slot, dirty, [file EXCEPT ![f] = node], lease, imp)
  <2> HIDE DEF node
  <2> QED BY <1>1, <1>2, NodeMoves DEF IInv
<1> QED BY <1>1, <1>3 DEF IInv

\* A file that loses its name keeps its slot while somebody has it open.
\* files is the file table the call has made so far.
LEMMA DetachedKeeps ==
    ASSUME NEW files, NEW i, Sound(slot, dirty, files, lease, i),
           NEW f \in File, ~Gone(file[f]), files[f] = file[f],
           \A l \in Lease : lease[l].of # f,
           Detached(f, files)
    PROVE  Sound(slot', dirty', file', lease, i)
<1> DEFINE node == [files[f] EXCEPT !.name = NoName, !.unlinked = TRUE]
<1> USE WorkspaceAssumption
<1>1. /\ files \in [File -> Node] /\ files[f] \in Node /\ NodeOK(files[f]) /\ ~Gone(files[f])
      /\ Opens(f) = files[f].readers + files[f].writers /\ Opens(f) \in Nat
  BY DEF Sound, FilesOK, Opens, Node
<1>2. CASE Opens(f) > 0
  <2>1. /\ node \in Node /\ node.name = NoName /\ node.slot = files[f].slot
        /\ node.writers = files[f].writers /\ node.readers = files[f].readers
        /\ node.part = files[f].part /\ node.lost = files[f].lost
        /\ node.stale = files[f].stale /\ node.failed = files[f].failed /\ node.unlinked
    BY <1>1 DEF Node
  <2>2. NodeOK(node) /\ ~Gone(node) /\ node.slot = files[f].slot
    <3> HIDE DEF node
    <3> QED BY <1>1, <1>2, <2>1 DEF NodeOK, Gone
  <2>3. /\ i.of = f => node.name \in {NoName, Staging} /\ node.writers = 1 /\ node.readers = 0
        /\ node.part => i.of = f
    BY <2>1 DEF Sound, ImportOK
  <2>4. file' = [files EXCEPT ![f] = node] /\ slot' = slot /\ dirty' = dirty
    BY <1>1, <1>2 DEF Detached, KeepSlots
  <2>5. Sound(slot, dirty, [files EXCEPT ![f] = node], lease, i)
    <3> HIDE DEF node
    <3> QED BY <1>1, <2>2, <2>3, NodeMoves
  <2> QED BY <2>4, <2>5
<1>3. CASE ~(Opens(f) > 0)
  <2>1. i.of # f
    BY <1>1, <1>3 DEF Sound, ImportOK, Node
  <2>2. ImportOK(i, [files EXCEPT ![f] = NoNode])
    BY <1>1, <2>1, BlankNode DEF Sound, ImportOK
  <2>3. file' = [files EXCEPT ![f] = NoNode] /\ Releases(files[f].slot)
    BY <1>3 DEF Detached
  <2>4. Sound(slot', dirty', [files EXCEPT ![f] = NoNode], lease, i)
    BY <1>1, <2>2, <2>3, NodeGoes DEF Releases
  <2> QED BY <2>3, <2>4
<1> QED BY <1>2, <1>3

LEMMA KeepsUnlink ==
    ASSUME IInv, NEW f \in File, Unlink(f) PROVE IInv'
<1>1. ~Gone(file[f]) /\ \A l \in Lease : lease[l].of # f
  BY FileFacts DEF Unlink, Exists, Gone
<1>2. Sound(slot', dirty', file', lease, imp)
  BY <1>1, DetachedKeeps DEF Unlink, IInv
<1> QED BY <1>2 DEF Unlink, IInv

LEMMA KeepsRename ==
    ASSUME IInv, NEW f \in File, NEW n \in Name, Rename(f, n) PROVE IInv'
<1> DEFINE node == Bumped([file[f] EXCEPT !.name = n])
           moved == [file EXCEPT ![f] = node]
<1> USE WorkspaceAssumption DEF Rename, InReach, Exists
<1>1. /\ file \in [File -> Node] /\ file[f] \in Node /\ NodeOK(file[f]) /\ ~Gone(file[f])
      /\ \A l \in Lease : lease[l].of # f
  BY FileFacts DEF Gone, Renames
<1>2. imp.of # f /\ ~file[f].part
  BY <1>1 DEF IInv, Sound, ImportOK
<1>3. NodeOK(node) /\ ~Gone(node) /\ node.slot = file[f].slot /\ ~node.part
  BY <1>1, <1>2 DEF NodeOK, Node, Gone, Bumped
<1>4. Sound(slot, dirty, moved, lease, imp)
  <2> HIDE DEF node
  <2> QED BY <1>1, <1>2, <1>3, NodeMoves DEF IInv
<1>5. CASE Named(n) \subseteq {f}
  BY <1>1, <1>4, <1>5 DEF Renames, KeepSlots, IInv
<1>6. CASE ~(Named(n) \subseteq {f})
  <2>1. PICK g \in Named(n) \ {f} : Detached(g, moved)
    BY <1>1, <1>6 DEF Renames
  <2>2. g \in File /\ ~Gone(file[g]) /\ moved[g] = file[g] /\ \A l \in Lease : lease[l].of # g
    BY <1>1, <2>1, FileFacts DEF Named, Gone, Renames
  <2>3. Sound(slot', dirty', file', lease, imp)
    <3> HIDE DEF moved, node, Rename
    <3> QED BY <1>4, <2>1, <2>2, DetachedKeeps
  <2> QED BY <2>3 DEF Renames, IInv
<1> QED BY <1>5, <1>6

-----------------------------------------------------------------------------
(* So does every request of the page.                                       *)

LEMMA KeepsSizeUnreadable ==
    ASSUME IInv, NEW f \in File, SizeUnreadable(f) PROVE IInv'
<1> DEFINE node == Bumped(Failed(file[f]))
<1> USE WorkspaceAssumption DEF SizeUnreadable, Exists
<1>1. /\ file \in [File -> Node] /\ file[f] \in Node /\ NodeOK(file[f]) /\ ~Gone(file[f])
      /\ \A l \in Lease : lease[l].of = f => file[f].name # NoName /\ file[f].writers = 0
  BY FileFacts DEF Gone, IInv, Sound, LeasesOK
<1>2. /\ node \in Node /\ node.name = file[f].name /\ node.slot = file[f].slot
      /\ node.writers = file[f].writers /\ node.readers = file[f].readers
      /\ node.part = file[f].part /\ node.unlinked = file[f].unlinked /\ node.failed
  BY <1>1 DEF Node, Bumped, Failed
<1> HIDE DEF node
<1>3. NodeOK(node) /\ ~Gone(node) /\ node.slot = file[f].slot
  BY <1>1, <1>2 DEF NodeOK, Gone
<1>4. /\ imp.of = f => node.name \in {NoName, Staging} /\ node.writers = 1 /\ node.readers = 0
      /\ node.part => imp.of = f
  BY <1>2 DEF IInv, Sound, ImportOK
<1>5. Sound(slot, dirty, [file EXCEPT ![f] = node], lease, imp)
  BY <1>1, <1>2, <1>3, <1>4, NodeMoves DEF IInv
<1>6. file' = [file EXCEPT ![f] = node]
  BY <1>1 DEF node
<1> QED BY <1>5, <1>6 DEF IInv

LEMMA KeepsDelete ==
    ASSUME IInv, NEW f \in File, Delete(f) PROVE IInv'
BY KeepsUnlink DEF Delete

LEMMA KeepsOpenLease ==
    ASSUME IInv, NEW f \in File, NEW l \in Lease, OpenLease(l, f) PROVE IInv'
<1> USE WorkspaceAssumption DEF OpenLease, InReach
<1>1. file[f].name # NoName /\ file[f].writers = 0
  BY FileFacts DEF Exists, Opens, Node
<1>2. LeasesOK(lease', file')
  BY <1>1 DEF IInv, Sound, LeasesOK, NoLease
<1> QED BY <1>2 DEF IInv, Sound

LEMMA KeepsCloseLease ==
    ASSUME IInv, NEW l \in Lease, CloseLease(l) PROVE IInv'
<1>1. LeasesOK(lease', file')
  BY WorkspaceAssumption DEF CloseLease, IInv, Sound, LeasesOK, NoLease
<1> QED BY <1>1 DEF CloseLease, IInv, Sound

LEMMA KeepsBeginImport ==
    ASSUME IInv, NEW f \in File, NEW n \in Name, NEW s \in Slot, BeginImport(f, n, s)
    PROVE  IInv'
<1> DEFINE node == [NoNode EXCEPT !.name = Staging, !.slot = s, !.writers = 1,
                                  !.part = (Staging = Staging)]
           new == [of |-> f, target |-> n, whole |-> FALSE]
<1> USE WorkspaceAssumption DEF BeginImport, CreateNode
<1>1. /\ NodeOK(node) /\ ~Gone(node) /\ node.slot = s
      /\ node.name = Staging /\ node.writers = 1 /\ node.readers = 0
  BY DEF NodeOK, Node, NoNode, Gone
<1>2. Gone(file[f]) /\ file \in [File -> Node]
  BY FileFacts
<1>3. ImportOK(new, [file EXCEPT ![f] = node])
  <2>1. \A g \in File : ~file[g].part  BY DEF IInv, Sound, ImportOK
  <2> HIDE DEF node
  <2>2. [file EXCEPT ![f] = node][f] = node
        /\ \A g \in File : g # f => [file EXCEPT ![f] = node][g] = file[g]
    BY <1>2
  <2> QED BY <2>1, <2>2, <1>1 DEF ImportOK
<1>4. Sound([slot EXCEPT ![s] = "taken"], dirty, [file EXCEPT ![f] = node], lease, new)
  <2> HIDE DEF node, new
  <2> QED BY <1>1, <1>2, <1>3, NodeComes DEF IInv
<1> QED BY <1>4 DEF IInv

LEMMA KeepsWriteImport == ASSUME IInv, WriteImport PROVE IInv'
<1> USE WorkspaceAssumption DEF WriteImport
<1>1. PICK ok \in BOOLEAN, last \in BOOLEAN :
         Writes(imp.of, ok) /\ imp' = [imp EXCEPT !.whole = ok /\ last]
  OBVIOUS
<1>2. imp.of \in File /\ imp \in [of : File \cup {NoFile}, target : Name \cup {NoName}, whole : BOOLEAN]
  BY DEF IInv, Sound, ImportOK
<1>3. Sound(slot', dirty', file', lease', imp)
  BY <1>1, <1>2, WritesKeep
<1>4. imp' \in [of : File \cup {NoFile}, target : Name \cup {NoName}, whole : BOOLEAN]
      /\ imp'.of = imp.of /\ imp'.target = imp.target
  BY <1>1, <1>2
<1>5. ImportOK(imp', file')
  BY <1>3, <1>4 DEF Sound, ImportOK
<1> QED BY <1>3, <1>5 DEF IInv, Sound

\* The staged file takes its place first, then what had the name goes.
LEMMA KeepsCommitImport == ASSUME IInv, CommitImport PROVE IInv'
<1> DEFINE f == imp.of
           node == Bumped([file[f] EXCEPT !.name = imp.target, !.writers = 0, !.part = ~imp.whole])
           placed == [file EXCEPT ![f] = node]
<1> USE WorkspaceAssumption DEF CommitImport, MayCommit, Exists
<1>1. /\ f \in File /\ imp.target \in Name /\ imp.whole
      /\ file[f].name = Staging /\ file[f].writers = 1 /\ file[f].readers = 0
      /\ \A g \in File : g # f => ~file[g].part
  BY DEF IInv, Sound, ImportOK
<1>2. /\ file \in [File -> Node] /\ file[f] \in Node /\ NodeOK(file[f]) /\ ~Gone(file[f])
      /\ \A l \in Lease : lease[l].of # f
  BY <1>1, FileFacts DEF Gone
<1>3. /\ node \in Node /\ node.name = imp.target /\ node.slot = file[f].slot
      /\ ~node.part /\ ~node.stale /\ node.lost = file[f].lost
      /\ node.failed = file[f].failed /\ node.unlinked = file[f].unlinked
  BY <1>1, <1>2 DEF Node, Bumped
<1>4. placed = [file EXCEPT ![imp.of] =
                   Bumped([@ EXCEPT !.name = imp.target, !.writers = 0, !.part = ~imp.whole])]
  BY <1>1, <1>2
<1>5. imp' = NoImport /\ lease' = lease
  OBVIOUS
<1>6. IF Named(imp.target) = {}
        THEN file' = placed /\ KeepSlots
        ELSE \E g \in Named(imp.target) : Detached(g, placed)
  BY <1>4
<1>7. \A g \in Named(imp.target) : Leases(g) = {}
  OBVIOUS
<1> HIDE DEF node, CommitImport, MayCommit
<1>8. NodeOK(node) /\ ~Gone(node)
  BY <1>1, <1>2, <1>3 DEF NodeOK, Gone
<1>9. placed[f] = node /\ \A g \in File : g # f => placed[g] = file[g]
  BY <1>1, <1>2
<1>10. ImportOK(NoImport, placed)
  BY <1>1, <1>3, <1>9 DEF ImportOK, NoImport
<1>11. Sound(slot, dirty, placed, lease, NoImport)
  BY <1>1, <1>2, <1>3, <1>8, <1>10, NodeChanges DEF IInv
<1>12. CASE Named(imp.target) = {}
  BY <1>5, <1>6, <1>11, <1>12 DEF KeepSlots, IInv
<1>13. CASE Named(imp.target) # {}
  <2>1. PICK g \in Named(imp.target) : Detached(g, placed)
    BY <1>6, <1>13
  <2>2. g \in File /\ g # f /\ ~Gone(file[g]) /\ \A l \in Lease : lease[l].of # g
    BY <1>1, <1>7, FileFacts DEF Named, Gone
  <2>3. Sound(slot', dirty', file', lease, NoImport)
    <3> HIDE DEF placed
    <3> QED BY <1>9, <1>11, <2>1, <2>2, DetachedKeeps
  <2> QED BY <1>5, <2>3 DEF IInv
<1> QED BY <1>12, <1>13

LEMMA KeepsDropImport == ASSUME IInv, DropImport PROVE IInv'
<1> DEFINE f == imp.of
<1> USE WorkspaceAssumption DEF DropImport
<1>1. /\ f \in File /\ file[f].writers = 1 /\ file[f].readers = 0
      /\ \A g \in File : g # f => ~file[g].part
  BY DEF IInv, Sound, ImportOK
<1>2. /\ file \in [File -> Node] /\ ~Gone(file[f])
      /\ \A l \in Lease : lease[l].of # f
  BY <1>1, FileFacts DEF Gone
<1>3. ImportOK(NoImport, [file EXCEPT ![f] = NoNode])
  BY <1>1, <1>2, BlankNode DEF ImportOK, NoImport
<1>4. Sound(slot', dirty', [file EXCEPT ![f] = NoNode], lease, NoImport)
  BY <1>1, <1>2, <1>3, NodeGoes DEF IInv, Releases
<1> QED BY <1>4 DEF IInv

-----------------------------------------------------------------------------
LEMMA KeepsPython == ASSUME IInv, NEW f \in File, Python(f) PROVE IInv'
BY KeepsCreate, KeepsOpenRead, KeepsOpenWrite, KeepsTruncate, KeepsDup, KeepsWrite,
   KeepsClose, KeepsReadFails, KeepsUnlink, KeepsRename DEF Python

LEMMA KeepsPage == ASSUME IInv, NEW f \in File, Page(f) PROVE IInv'
BY KeepsSizeUnreadable, KeepsDelete, KeepsOpenLease, KeepsBeginImport DEF Page

LEMMA KeepsNext == IInv /\ [Next]_workspaceVars => IInv'
<1> SUFFICES ASSUME IInv, [Next]_workspaceVars PROVE IInv'
  OBVIOUS
<1>1. CASE Next
  BY <1>1, KeepsPython, KeepsPage, KeepsCloseLease, KeepsTakeFails, KeepsWriteImport,
     KeepsCommitImport, KeepsDropImport DEF Next
<1>2. CASE UNCHANGED workspaceVars
  BY <1>2 DEF workspaceVars, IInv
<1> QED BY <1>1, <1>2

LEMMA WorkspaceInvariant == Spec => []IInv
BY WorkspaceInit, KeepsNext, PTL DEF Spec

LEMMA SoundMeans == IInv => SlotsAccounted /\ FreeSlotsAreEmpty /\ ReadyIsWhole /\ LeasedIsFrozen
<1> SUFFICES ASSUME IInv PROVE SlotsAccounted /\ FreeSlotsAreEmpty /\ ReadyIsWhole /\ LeasedIsFrozen
  OBVIOUS
<1> USE WorkspaceAssumption
<1>1. \A f \in File : file[f] \in Node /\ NodeOK(file[f]) /\ (Gone(file[f]) <=> Dead(f))
  BY FileFacts
<1>2. \A f \in File : Dead(f) <=> file[f].slot = NoSlot
  BY <1>1, BlankNode DEF NodeOK
<1>3. SlotsAccounted
  <2>1. ASSUME NEW s \in Slot, slot[s] = "taken"
        PROVE  \E f \in File : /\ file[f].slot = s /\ ~Dead(f)
                               /\ \A g \in File \ {f} : file[g].slot # s
    <3>1. PICK f \in File : file[f].slot = s
      BY <2>1 DEF IInv, Sound, SlotsOK
    <3>2. ~Dead(f)
      BY <1>2, <3>1
    <3>3. \A g \in File \ {f} : file[g].slot # s
      BY <3>1 DEF IInv, Sound, SlotsOK
    <3> QED BY <3>1, <3>2, <3>3
  <2>2. ASSUME NEW s \in Slot, NEW f \in File, file[f].slot = s, ~Dead(f)
        PROVE  slot[s] = "taken"
    BY <2>2 DEF IInv, Sound, SlotsOK
  <2> QED BY <1>2, <2>1, <2>2 DEF SlotsAccounted
<1>4. FreeSlotsAreEmpty
  BY DEF FreeSlotsAreEmpty, IInv, Sound, PoolOK
<1>5. ReadyIsWhole
  <2> SUFFICES ASSUME NEW f \in File, Exists(f), file[f].name # Staging, State(f) = "ready"
               PROVE  ~file[f].lost /\ ~file[f].part /\ ~file[f].stale
    BY DEF ReadyIsWhole
  <2>1. ~file[f].failed
    BY DEF State
  <2>2. ~file[f].part
    BY DEF IInv, Sound, ImportOK, Exists
  <2> QED BY <1>1, <2>1, <2>2 DEF NodeOK
<1>6. LeasedIsFrozen
  BY DEF LeasedIsFrozen, IInv, Sound, LeasesOK, Exists
<1> QED BY <1>3, <1>4, <1>5, <1>6

(* No sequence of calls loses a slot of the pool or gives one to two files,  *)
(* however many of each there are (opfs-workspace.ts SlotPool, detach()).    *)
THEOREM SlotsAreAccounted == Spec => []SlotsAccounted
BY WorkspaceInvariant, SoundMeans, PTL

(* A slot goes back to the pool empty or not at all, so no file inherits the *)
(* bytes of another (opfs-workspace.ts SlotPool, truncateExactly()).         *)
THEOREM FreeSlotsStayEmpty == Spec => []FreeSlotsAreEmpty
BY WorkspaceInvariant, SoundMeans, PTL

(* What is offered for download lost no bytes, is not half of an import, and *)
(* its generation is that of its bytes (opfs-workspace.ts list(), stat()).   *)
THEOREM ReadyStaysWhole == Spec => []ReadyIsWhole
BY WorkspaceInvariant, SoundMeans, PTL

(* A file being downloaded has no writer, keeps its name and its bytes, with *)
(* any number of downloads at once (opfs-workspace.ts openLease()).          *)
THEOREM LeasedStaysFrozen == Spec => []LeasedIsFrozen
BY WorkspaceInvariant, SoundMeans, PTL
=============================================================================
