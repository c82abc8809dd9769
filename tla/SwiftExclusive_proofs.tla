------------------------ MODULE SwiftExclusive_proofs -------------------------
(***************************************************************************)
(* Proofs about SwiftPlus when no two calls at a time work on one path or  *)
(* on a path and a directory above it (Exclusive): nothing is lost in      *)
(* Swift or in the tree of files as long as nothing fails.                 *)
(*                                                                         *)
(* The heart of the argument is that handlers are apart: the paths they    *)
(* may change and the locations they may use are disjoint, so what is      *)
(* known of one of them survives the steps of the others.                  *)
(***************************************************************************)
EXTENDS SwiftPlus_proofs

(* The tasks in a list. *)
TasksOf(q) == {q[i] : i \in DOMAIN q}

(* What a handler works on: its claims, everything below them, and the      *)
(* locations of its writer and its tasks.                                   *)
ClaimsOf(m) ==
    {m.path, m.dest, IF m.wr.loc # NoLoc THEN m.wr.path ELSE Root} \ {Root}
RegionOf(m) == {x \in Paths : \E c \in ClaimsOf(m) : c \in Above[x]}
TaskLocs(t) == {t.loc} \cup (IF t.do = "upsert" THEN {t.row.loc} ELSE {})
UsesOf(m) ==
    ({m.wr.loc} \cup UNION {TaskLocs(t) : t \in TasksOf(m.todo)}) \ {NoLoc}

Apart(m, k) ==
    /\ \A p \in ClaimsOf(m), q \in ClaimsOf(k) : ~Related(p, q)
    /\ UsesOf(m) \cap UsesOf(k) = {}

-----------------------------------------------------------------------------
(* The tasks of a call. *)

Deleting == {"list", "bulkdelete", "children", "unlink"}

(* What may come after a task, anywhere. *)
After(do) ==
    CASE do = "putsegment" -> {"recordsegment", "manifest", "delete", "return"}
      [] do = "recordsegment" -> {"manifest", "delete", "return"}
      [] do \in Deleting ->
           Deleting \cup {"upsert", "rename", "mkdir", "upload", "return"}
      [] do = "target" -> {"rename", "mkdir", "return"}
      [] do \in {"delete", "readsegments", "manifest", "upload"} -> {"return"}
      [] do = "upsert" -> {"mkdir", "upload", "return"}
      [] do = "rename" -> {"mkdir", "return"}
      [] do = "mkdir" -> {"upload", "return"}
      [] OTHER -> {}
Ordered(q) ==
    \A i, j \in DOMAIN q : i < j => q[j].do \in After(q[i].do)

KindsOf(op) ==
    CASE op = "put" -> {"list", "bulkdelete", "upsert", "mkdir", "upload"}
      [] op = "move" -> Deleting \cup {"target", "rename", "mkdir"}
      [] op = "delete" -> Deleting
      [] op = "create" -> Deleting
      [] op = "append" -> {"readsegments"}
      [] op = "write" -> FlushTasks
      [] op \in {"commit", "close"} -> FlushTasks \cup {"manifest", "upsert", "mkdir"}
      [] op = "cancel" -> FlushTasks \cup Deleting \cup {"delete"}
      [] OTHER -> {}

HasTask(m, do, p) == \E t \in TasksOf(m.todo) : t.do = do /\ t.path = p

(* What the tasks of m are about. *)
TaskShape(m, t) ==
    /\ t.do \in KindsOf(m.op) \cup {"return"}
    /\ t.do \in {"unlink", "children"} => t.path \in RegionOf(m)
    /\ t.do = "upsert" =>
         IF m.op = "put"
         THEN /\ t.path = m.path
              /\ \A s \in TasksOf(m.todo) : s.do = "upload" => s.loc = t.row.loc
              /\ t.row.loc # NoLoc =>
                   \E s \in TasksOf(m.todo) : s.do = "upload" /\ s.loc = t.row.loc
         ELSE t.path = m.wr.path /\ t.row.loc = m.wr.loc
    /\ t.do = "upsert" =>
         Parent[t.path] = Root \/ HasTask(m, "mkdir", Parent[t.path])
    /\ t.do = "rename" =>
         /\ t.path = m.path
         /\ Parent[m.dest] = Root \/ HasTask(m, "mkdir", Parent[m.dest])
    /\ t.do = "target" => t.path = m.dest
    /\ t.do = "delete" => t.path = m.wr.path
    /\ t.do = "mkdir" => \E c \in ClaimsOf(m) : t.path \in Above[c]
    /\ t.do \notin {"list", "bulkdelete", "upload", "readsegments", "manifest"}
                   \cup FlushTasks => t.loc = NoLoc
    /\ t.do \in {"readsegments", "manifest"} \cup FlushTasks => t.loc = m.wr.loc

Shape(m) ==
    /\ m.op \in {"put", "move", "delete"} => m.wr.loc = NoLoc
    /\ m.op \in {"put", "delete", "move", "create", "append"} => m.path \in Paths
    /\ m.op \in {"create", "append"} => m.path = m.wr.path
    /\ m.op \notin {"put", "move", "delete", "create", "append"} => m.path = Root
    /\ m.op # "move" => m.dest = Root
    /\ Ordered(m.todo)
    /\ \A t \in TasksOf(m.todo) : TaskShape(m, t)

-----------------------------------------------------------------------------
(* A handler and what it works on: the rows fs, the objects os and the      *)
(* segments sg.                                                             *)

HasLoc(fs, p, l) == fs[p] # NoRow /\ fs[p].loc = l

(* The locations that m uses are at most those of rows in its region.       *)
OwnLocs(m, fs) ==
    \A l \in UsesOf(m), p \in Paths : HasLoc(fs, p, l) => p \in RegionOf(m)

(* The locations of a writer and of an upload belong to no row but that of  *)
(* their path.                                                              *)
WriterOnly(m, fs) ==
    m.wr.loc # NoLoc =>
        \A p \in Paths : HasLoc(fs, p, m.wr.loc) => p = m.wr.path
UploadOnly(m, fs) ==
    \A t \in TasksOf(m.todo) : t.do = "upload" =>
        \A p \in Paths : HasLoc(fs, p, t.loc) => p = m.path

LocsOK(m, fs) == OwnLocs(m, fs) /\ WriterOnly(m, fs) /\ UploadOnly(m, fs)

(* The row at a writer's path has no location but the writer's, unless it   *)
(* is about to be deleted.                                                  *)
WriterRow(m, fs) ==
    m.wr.loc # NoLoc =>
        \/ fs[m.wr.path] = NoRow
        \/ fs[m.wr.path].loc \in {NoLoc, m.wr.loc}
        \/ m.op = "create" /\ HasTask(m, "unlink", m.wr.path)

(* The row that names the location of an upload is written before it.       *)
UploadRow(m, fs) ==
    \A t \in TasksOf(m.todo) : t.do = "upload" =>
        HasLoc(fs, m.path, t.loc) \/ HasTask(m, "upsert", m.path)

(* What is left to do for a directory before its row is deleted: every row  *)
(* in it is deleted before.                                                 *)
Covered(q, fs) ==
    \A i \in DOMAIN q : q[i].do = "unlink" =>
        \A x \in Paths : Parent[x] = q[i].path /\ fs[x] # NoRow =>
            \E j \in DOMAIN q :
                /\ j < i
                /\ \/ q[j].do = "unlink" /\ q[j].path = x
                   \/ q[j].do = "children" /\ q[j].path = q[i].path

(* The objects at a location are being deleted. *)
Emptying(m, os, l) ==
    (\E o \in os : o.loc = l) =>
        \E s \in TasksOf(m.todo) : s.do \in {"list", "bulkdelete"} /\ s.loc = l

(* A row whose location is still in use is neither deleted nor overwritten. *)
RowsEmptied(m, fs, os) ==
    \A t \in TasksOf(m.todo) :
        /\ t.do \in {"unlink", "upsert"}
        /\ fs[t.path] # NoRow
        /\ fs[t.path].loc # NoLoc
        /\ t.do = "upsert" => fs[t.path].loc # t.row.loc
        => Emptying(m, os, fs[t.path].loc)

(* A bulk delete leaves nothing at its location. *)
BulkComplete(m, os) ==
    \A t \in TasksOf(m.todo) : t.do = "bulkdelete" =>
        \A o \in os : o.loc = t.loc => o.num \in t.nums

(* A commit that is about to return has written the row. *)
RowWritten(m, fs) ==
    m.op \in {"commit", "close"} =>
        \/ \E t \in TasksOf(m.todo) : t.do \in {"manifest", "upsert"}
        \/ HasLoc(fs, m.wr.path, m.wr.loc)

(* The target of a rename is free by then. *)
TargetFree(m, fs) ==
    (\E t \in TasksOf(m.todo) : t.do = "rename") =>
        \/ fs[m.dest] = NoRow
        \/ HasTask(m, "target", m.dest)
        \/ HasTask(m, "unlink", m.dest)

(* A writer knows all segments at its location, once it has read them, if   *)
(* the loop over the rows was not cut short.                                *)
KnowsSegments(m, sg) ==
    /\ m.wr.loc # NoLoc
    /\ ~m.wr.lost
    /\ \A t \in TasksOf(m.todo) : t.do # "readsegments"
    =>
        \A s \in sg : s.loc = m.wr.loc =>
            /\ s.num <= Len(m.wr.segs)
            /\ Pending(m) => s.num < Len(m.wr.segs)

DataOK(m, fs, os, sg) ==
    /\ WriterRow(m, fs)
    /\ UploadRow(m, fs)
    /\ RowsEmptied(m, fs, os)
    /\ BulkComplete(m, os)
    /\ RowWritten(m, fs)
    /\ KnowsSegments(m, sg)

(* A Delete that has missed rows of a directory. *)
Incomplete(m) == m.op = "delete" /\ m.val = Unknown

TreeOK(m, fs) == (Incomplete(m) \/ Covered(m.todo, fs)) /\ TargetFree(m, fs)

UniqueLocs(fs) ==
    \A p, q \in Paths :
        /\ fs[p] # NoRow /\ fs[q] # NoRow
        /\ fs[p].loc = fs[q].loc /\ fs[p].loc # NoLoc
        => p = q

(* As long as nothing fails, a writer is not in error and has missed no     *)
(* segments, and one that was committed has its row.                        *)
Unharmed(m, fs) ==
    m.wr.loc # NoLoc =>
        /\ ~m.wr.err /\ ~m.wr.lost
        /\ m.wr.committed /\ m.op # "cancel" =>
             m.op \notin {"create", "append"} /\ HasLoc(fs, m.wr.path, m.wr.loc)

(* The inductive invariants, each in addition to StoreInv and to the ones   *)
(* before.                                                                  *)
ShapeInv == \A h \in Handlers : Shape(handler[h])

LocInv ==
    /\ \A h \in Handlers : LocsOK(handler[h], files)
    /\ \A g, h \in Handlers : g # h => Apart(handler[g], handler[h])
    /\ UniqueLocs(files)

DataInv == \A h \in Handlers : DataOK(handler[h], files, objects, segments)

TreeInv == \A h \in Handlers : TreeOK(handler[h], files)

NoFaultInv ==
    faults = 0 => \A h \in Handlers :
        Unharmed(handler[h], files) /\ ~Incomplete(handler[h])

-----------------------------------------------------------------------------
(* Paths. *)

(* A set of paths that has with a path its parent. *)
Closed(S) ==
    /\ S \subseteq Paths \cup {Root}
    /\ \A x \in S \ {Root} : Parent[x] \in S

LEMMA AboveIs ==
    ASSUME NEW p \in Paths \cup {Root}, NEW q
    PROVE  q \in Above[p] <=>
             q \in Paths /\ \A S : Closed(S) /\ p \in S => q \in S
<1>1. Above[p] = {y \in Paths : \A S \in SUBSET (Paths \cup {Root}) :
                    p \in S /\ (\A x \in S \ {Root} : Parent[x] \in S)
                    => y \in S}
  BY DEF Above
<1> QED BY <1>1 DEF Closed

LEMMA AboveSelf ==
    ASSUME NEW p \in Paths
    PROVE  p \in Above[p]
  BY AboveIs

LEMMA AboveParent ==
    ASSUME NEW p \in Paths, NEW c \in Above[Parent[p]]
    PROVE  c \in Above[p]
<1>1. Parent[p] \in Paths \cup {Root}
  BY SwiftPlusAssumption DEF Dirs
<1>2. c \in Paths /\ \A S : Closed(S) /\ Parent[p] \in S => c \in S
  BY <1>1, AboveIs
<1>3. \A S : Closed(S) /\ p \in S => Parent[p] \in S
  BY SwiftPlusAssumption DEF Closed
<1> QED BY <1>2, <1>3, AboveIs

LEMMA AboveClosed ==
    ASSUME NEW p \in Paths \cup {Root}
    PROVE  Closed(Above[p] \cup {Root})
<1>1. ASSUME NEW x \in Above[p] PROVE Parent[x] \in Above[p] \cup {Root}
  <2>1. x \in Paths /\ \A S : Closed(S) /\ p \in S => x \in S
    BY AboveIs
  <2>2. x # Root /\ Parent[x] \in Paths \cup {Root}
    BY <2>1, SwiftPlusAssumption DEF Dirs
  <2>3. \A S : Closed(S) /\ p \in S => Parent[x] \in S
    BY <2>1, <2>2 DEF Closed
  <2> QED BY <2>2, <2>3, AboveIs
<1>2. Above[p] \subseteq Paths
  BY AboveIs
<1> QED BY <1>1, <1>2 DEF Closed

LEMMA AboveSplit ==
    ASSUME NEW x \in Paths, NEW y \in Above[x]
    PROVE  y = x \/ y \in Above[Parent[x]]
<1> DEFINE S == {x} \cup (Above[Parent[x]] \cup {Root})
<1>1. Parent[x] \in Paths \cup {Root}
  BY SwiftPlusAssumption DEF Dirs
<1>2. Closed(Above[Parent[x]] \cup {Root})
  BY <1>1, AboveClosed
<1>3. Parent[x] \in Above[Parent[x]] \cup {Root}
  BY <1>1, AboveSelf
<1>4. Closed(S)
  BY <1>2, <1>3 DEF Closed
<1>5. y \in Paths /\ y \in S
  BY <1>4, AboveIs
<1> QED BY <1>5, SwiftPlusAssumption

LEMMA AboveTrans ==
    ASSUME NEW q \in Paths, NEW x \in Above[q], NEW y \in Above[x]
    PROVE  y \in Above[q]
  BY AboveIs

(* Of two directories above one path, one is above the other. *)
LEMMA AboveRelated ==
    ASSUME NEW q \in Paths, NEW a \in Above[q], NEW b \in Above[q]
    PROVE  Related(a, b)
<1> DEFINE S == {Root} \cup {x \in Above[q] : \A y \in Above[q] : Related(x, y)}
<1>0. Above[q] \subseteq Paths
  BY AboveIs
<1>1. q \in S
  BY AboveSelf DEF Related
<1>2. ASSUME NEW x \in S \ {Root} PROVE Parent[x] \in S
  <2>1. x \in Above[q] /\ x \in Paths
    BY <1>0
  <2>2. CASE Parent[x] = Root
    BY <2>2
  <2>3. CASE Parent[x] # Root
    <3>1. Parent[x] \in Above[q] /\ Parent[x] \in Paths
      BY <2>1, <2>3, <1>0, AboveClosed DEF Closed
    <3>2. Parent[x] \in Above[x]
      BY <2>1, <3>1, AboveSelf, AboveParent
    <3>3. ASSUME NEW y \in Above[q] PROVE Related(Parent[x], y)
      <4>1. y \in Above[x] \/ x \in Above[y]
        BY DEF Related
      <4>2. CASE y \in Above[x]
        BY <4>2, <2>1, <3>2, AboveSplit DEF Related
      <4>3. CASE x \in Above[y]
        BY <4>3, <1>0, <3>2, AboveTrans DEF Related
      <4> QED BY <4>1, <4>2, <4>3
    <3> QED BY <3>1, <3>3
  <2> QED BY <2>2, <2>3
<1>3. Closed(S)
  BY <1>0, <1>2 DEF Closed
<1>4. a \in S
  BY <1>1, <1>3, AboveIs
<1> QED BY <1>4, <1>0, SwiftPlusAssumption

-----------------------------------------------------------------------------
(* Lists of tasks. *)

AnyTask == SqlTask \cup BulkTask

LEMMA TasksConcat ==
    ASSUME NEW S, NEW a \in Seq(S), NEW b \in Seq(S)
    PROVE  TasksOf(a \o b) = TasksOf(a) \cup TasksOf(b)
<1> DEFINE c == a \o b
<1>1. /\ c \in Seq(S) /\ Len(c) = Len(a) + Len(b)
      /\ \A i \in 1..Len(a) : c[i] = a[i]
      /\ \A i \in 1..Len(b) : c[i + Len(a)] = b[i]
      /\ \A i \in 1..Len(c) : i > Len(a) => i - Len(a) \in 1..Len(b)
  BY ConcatProperties
<1>2. /\ DOMAIN a = 1..Len(a) /\ DOMAIN b = 1..Len(b) /\ DOMAIN c = 1..Len(c)
      /\ Len(a) \in Nat /\ Len(b) \in Nat
  BY <1>1
<1> HIDE DEF c
<1>3. ASSUME NEW t \in TasksOf(c) PROVE t \in TasksOf(a) \cup TasksOf(b)
  <2>1. PICK i \in 1..Len(c) : t = c[i]
    BY <1>2 DEF TasksOf
  <2>2. CASE i <= Len(a)
    BY <2>1, <2>2, <1>1, <1>2 DEF TasksOf
  <2>3. CASE i > Len(a)
    <3>1. i - Len(a) \in 1..Len(b) /\ (i - Len(a)) + Len(a) = i
      BY <2>3, <1>1, <1>2
    <3>2. t = b[i - Len(a)]
      BY <2>1, <3>1, <1>1
    <3> QED BY <3>1, <3>2, <1>2 DEF TasksOf
  <2> QED BY <2>2, <2>3, <1>2
<1>4. ASSUME NEW t \in TasksOf(a) PROVE t \in TasksOf(c)
  BY <1>1, <1>2 DEF TasksOf
<1>5. ASSUME NEW t \in TasksOf(b) PROVE t \in TasksOf(c)
  <2>1. PICK i \in 1..Len(b) : t = b[i]
    BY <1>2 DEF TasksOf
  <2>2. i + Len(a) \in 1..Len(c) /\ c[i + Len(a)] = t
    BY <2>1, <1>1, <1>2
  <2> QED BY <2>2, <1>2 DEF TasksOf
<1> QED BY <1>3, <1>4, <1>5 DEF c

LEMMA TasksTwo ==
    ASSUME NEW a \in Seq(AnyTask), NEW b \in Seq(AnyTask), NEW c, c = a \o b
    PROVE  TasksOf(c) = TasksOf(a) \cup TasksOf(b) /\ c \in Seq(AnyTask)
  BY TasksConcat

LEMMA TasksOne ==
    ASSUME NEW t
    PROVE  TasksOf(<<t>>) = {t} /\ TasksOf(<<>>) = {}
  BY DEF TasksOf

LEMMA TasksHead ==
    ASSUME NEW S, NEW q \in Seq(S), q # <<>>
    PROVE  /\ TasksOf(q) = {Head(q)} \cup TasksOf(Tail(q))
           /\ Tail(q) \in Seq(S)
           /\ Head(q) \in S
<1>1. /\ Tail(q) \in Seq(S) /\ Head(q) \in S /\ <<Head(q)>> \in Seq(S)
      /\ q = <<Head(q)>> \o Tail(q)
  OBVIOUS
<1>2. TasksOf(q) = TasksOf(<<Head(q)>>) \cup TasksOf(Tail(q))
  BY <1>1, TasksConcat
<1> QED BY <1>1, <1>2, TasksOne

LEMMA TasksIn ==
    ASSUME NEW S, NEW q \in Seq(S)
    PROVE  TasksOf(q) \subseteq S
  BY DEF TasksOf

LEMMA OrderedConcat ==
    ASSUME NEW S, NEW a \in Seq(S), NEW b \in Seq(S), Ordered(a), Ordered(b),
           \A x \in TasksOf(a), y \in TasksOf(b) : y.do \in After(x.do)
    PROVE  Ordered(a \o b)
<1> DEFINE c == a \o b
<1>1. /\ c \in Seq(S) /\ Len(c) = Len(a) + Len(b)
      /\ \A i \in 1..Len(a) : c[i] = a[i]
      /\ \A i \in 1..Len(c) : i > Len(a) => c[i] = b[i - Len(a)]
  OBVIOUS
<1>2. /\ DOMAIN a = 1..Len(a) /\ DOMAIN b = 1..Len(b) /\ DOMAIN c = 1..Len(c)
      /\ Len(a) \in Nat /\ Len(b) \in Nat
  BY <1>1
<1> HIDE DEF c
<1> SUFFICES ASSUME NEW i \in 1..Len(c), NEW j \in 1..Len(c), i < j
             PROVE  c[j].do \in After(c[i].do)
  BY <1>2 DEF Ordered, c
<1>3. CASE j <= Len(a)
  <2>1. c[i] = a[i] /\ c[j] = a[j] /\ i \in DOMAIN a /\ j \in DOMAIN a
    BY <1>1, <1>2, <1>3
  <2> QED BY <2>1 DEF Ordered
<1>4. CASE i > Len(a)
  <2>1. /\ c[i] = b[i - Len(a)] /\ c[j] = b[j - Len(a)]
        /\ i - Len(a) \in 1..Len(b) /\ j - Len(a) \in 1..Len(b)
        /\ i - Len(a) < j - Len(a)
    BY <1>1, <1>2, <1>4
  <2> QED BY <2>1, <1>2 DEF Ordered
<1>5. CASE i <= Len(a) /\ j > Len(a)
  <2>1. /\ c[i] = a[i] /\ i \in DOMAIN a
        /\ c[j] = b[j - Len(a)] /\ j - Len(a) \in DOMAIN b
    BY <1>1, <1>2, <1>5
  <2> QED BY <2>1 DEF TasksOf
<1> QED BY <1>3, <1>4, <1>5, <1>2

LEMMA OrderedOne ==
    ASSUME NEW t
    PROVE  Ordered(<<t>>) /\ Ordered(<<>>)
  BY DEF Ordered

LEMMA OrderedTail ==
    ASSUME NEW S, NEW q \in Seq(S), q # <<>>, Ordered(q)
    PROVE  /\ Ordered(Tail(q))
           /\ \A y \in TasksOf(Tail(q)) : y.do \in After(Head(q).do)
<1>1. /\ Tail(q) \in Seq(S) /\ Len(q) \in Nat /\ Len(q) >= 1
      /\ DOMAIN q = 1..Len(q) /\ DOMAIN Tail(q) = 1..(Len(q) - 1)
      /\ \A i \in 1..(Len(q) - 1) : Tail(q)[i] = q[i + 1]
      /\ Head(q) = q[1]
  OBVIOUS
<1>2. Ordered(Tail(q))
  <2> SUFFICES ASSUME NEW i \in 1..(Len(q) - 1), NEW j \in 1..(Len(q) - 1), i < j
               PROVE  q[j + 1].do \in After(q[i + 1].do)
    BY <1>1 DEF Ordered
  <2>1. i + 1 \in DOMAIN q /\ j + 1 \in DOMAIN q /\ i + 1 < j + 1
    BY <1>1
  <2> QED BY <2>1 DEF Ordered
<1>3. ASSUME NEW i \in 1..(Len(q) - 1) PROVE q[i + 1].do \in After(q[1].do)
  <2>1. i + 1 \in DOMAIN q /\ 1 \in DOMAIN q /\ 1 < i + 1
    BY <1>1
  <2> QED BY <2>1 DEF Ordered
<1> QED BY <1>1, <1>2, <1>3 DEF TasksOf

LEMMA AfterTable ==
    /\ After("putsegment") = {"recordsegment", "manifest", "delete", "return"}
    /\ After("recordsegment") = {"manifest", "delete", "return"}
    /\ \A do \in Deleting :
         After(do) = Deleting \cup {"upsert", "rename", "mkdir", "upload", "return"}
    /\ After("target") = {"rename", "mkdir", "return"}
    /\ \A do \in {"delete", "readsegments", "manifest", "upload"} :
         After(do) = {"return"}
    /\ After("upsert") = {"mkdir", "upload", "return"}
    /\ After("rename") = {"mkdir", "return"}
    /\ After("mkdir") = {"upload", "return"}
    /\ After("return") = {}
  BY DEF After, Deleting

(* The tasks of deleteDownwards, mkdirAll and writeFileInfo. *)
ListTasks(l) == IF l = NoLoc THEN {} ELSE {Task("list", Root, l, NoRow)}
DownTasks(p, fi) ==
    ListTasks(fi.loc)
    \cup (IF fi.size < 0 THEN {Task("children", p, NoLoc, NoRow)} ELSE {})
    \cup {Task("unlink", p, NoLoc, NoRow)}
DirTasks(p) == IF p = Root THEN {} ELSE {Task("mkdir", p, NoLoc, NoRow)}
RowTasks(p, fi) == {Task("upsert", p, NoLoc, fi)} \cup DirTasks(Parent[p])

LEMMA InAnyTask ==
    ASSUME NEW op, NEW wl, NEW nl, NEW wn, NEW q \in Seq(TaskSet(op, wl, nl, wn))
    PROVE  q \in Seq(AnyTask)
<1>1. TaskSet(op, wl, nl, wn) \subseteq AnyTask
  BY DEF TaskSet, AnyTask
<1> QED BY <1>1, SeqMonotonic

LEMMA BlobTasks ==
    ASSUME NEW nl \in Nat, NEW l \in 0..nl
    PROVE  /\ deleteBlobs(l) \in Seq(AnyTask)
           /\ TasksOf(deleteBlobs(l)) = ListTasks(l)
           /\ Ordered(deleteBlobs(l))
<1>1. deleteBlobs(l) \in Seq(AnyTask)
  BY DeleteBlobsTasks, InAnyTask
<1> QED BY <1>1, TasksOne, OrderedOne DEF deleteBlobs, ListTasks

LEMMA DeleteTasks ==
    ASSUME NEW nl \in Nat, NEW wn, NEW p \in Paths, NEW fi, RowFor(p, fi, nl, wn)
    PROVE  /\ deleteDownwards(p, fi) \in Seq(AnyTask)
           /\ TasksOf(deleteDownwards(p, fi)) = DownTasks(p, fi)
           /\ Ordered(deleteDownwards(p, fi))
<1> DEFINE a == deleteBlobs(fi.loc)
           b == IF fi.size < 0 THEN <<Task("children", p, NoLoc, NoRow)>> ELSE <<>>
           c == <<Task("unlink", p, NoLoc, NoRow)>>
<1>1. fi.loc \in 0..nl /\ (fi.size < 0 => p \in Dirs)
  BY DEF RowFor, FileRow, DirRow, NoLoc, Dirs
<1>2. /\ a \in Seq(AnyTask) /\ TasksOf(a) = ListTasks(fi.loc) /\ Ordered(a)
  BY <1>1, BlobTasks
<1>3. /\ b \in Seq(AnyTask) /\ Ordered(b)
      /\ TasksOf(b) = IF fi.size < 0 THEN {Task("children", p, NoLoc, NoRow)} ELSE {}
  <2>1. CASE fi.size < 0
    <3>1. Task("children", p, NoLoc, NoRow) \in AnyTask
      BY <1>1, <2>1, SimpleTasks DEF AnyTask, TaskSet
    <3> QED BY <2>1, <3>1, TasksOne, OrderedOne
  <2>2. CASE ~(fi.size < 0)
    <3>1. b = <<>>
      BY <2>2
    <3>2. b \in Seq(AnyTask) /\ Ordered(b) /\ TasksOf(b) = {}
      BY <3>1, TasksOne, OrderedOne, EmptyTasks
    <3> QED BY <2>2, <3>2
  <2> QED BY <2>1, <2>2
<1>4. c \in Seq(AnyTask) /\ Ordered(c) /\ TasksOf(c) = {Task("unlink", p, NoLoc, NoRow)}
  <2>1. Task("unlink", p, NoLoc, NoRow) \in AnyTask
    BY SimpleTasks DEF AnyTask, TaskSet
  <2> QED BY <2>1, TasksOne, OrderedOne
<1>5. deleteDownwards(p, fi) = (a \o b) \o c
  BY DEF deleteDownwards
<1>6. /\ \A x \in TasksOf(a) : x.do = "list"
      /\ \A x \in TasksOf(b) : x.do = "children"
      /\ \A x \in TasksOf(c) : x.do = "unlink"
  BY <1>2, <1>3, <1>4 DEF ListTasks, Task
<1> HIDE DEF a, b, c
<1>7. /\ a \o b \in Seq(AnyTask) /\ TasksOf(a \o b) = TasksOf(a) \cup TasksOf(b)
  BY <1>2, <1>3, TasksConcat
<1>8. Ordered(a \o b)
  <2>1. \A x \in TasksOf(a), y \in TasksOf(b) : y.do \in After(x.do)
    BY <1>6, AfterTable DEF Deleting
  <2> QED BY <2>1, <1>2, <1>3, OrderedConcat
<1>9. Ordered((a \o b) \o c)
  <2>1. \A x \in TasksOf(a \o b), y \in TasksOf(c) : y.do \in After(x.do)
    BY <1>6, <1>7, AfterTable DEF Deleting
  <2> QED BY <2>1, <1>4, <1>7, <1>8, OrderedConcat
<1>10. /\ (a \o b) \o c \in Seq(AnyTask)
       /\ TasksOf((a \o b) \o c) = (TasksOf(a) \cup TasksOf(b)) \cup TasksOf(c)
  <2>1. TasksOf((a \o b) \o c) = TasksOf(a \o b) \cup TasksOf(c)
    BY <1>4, <1>7, TasksTwo
  <2>2. (a \o b) \o c \in Seq(AnyTask)
    BY <1>4, <1>7, ConcatProperties
  <2> QED BY <2>1, <2>2, <1>7
<1> QED BY <1>2, <1>3, <1>4, <1>5, <1>9, <1>10 DEF DownTasks

LEMMA MakeTasks ==
    ASSUME NEW p \in Dirs \cup {Root}
    PROVE  /\ mkdirAll(p) \in Seq(AnyTask)
           /\ TasksOf(mkdirAll(p)) = DirTasks(p)
           /\ Ordered(mkdirAll(p))
<1>1. mkdirAll(p) \in Seq(AnyTask)
  BY MkdirAllTasks, InAnyTask
<1> QED BY <1>1, TasksOne, OrderedOne DEF mkdirAll, DirTasks

LEMMA WriteTasks ==
    ASSUME NEW nl \in Nat, NEW wn, NEW p \in Files, NEW fi \in FileRow(nl, wn)
    PROVE  /\ writeFileInfo(p, fi) \in Seq(AnyTask)
           /\ TasksOf(writeFileInfo(p, fi)) = RowTasks(p, fi)
           /\ Ordered(writeFileInfo(p, fi))
<1> DEFINE u == Task("upsert", p, NoLoc, fi)
           b == mkdirAll(Parent[p])
<1>1. Parent[p] \in Dirs \cup {Root}
  BY SwiftPlusAssumption
<1>2. b \in Seq(AnyTask) /\ TasksOf(b) = DirTasks(Parent[p]) /\ Ordered(b)
  BY <1>1, MakeTasks
<1>3. u \in AnyTask /\ u.do = "upsert"
  BY SwiftPlusAssumption DEF AnyTask, SqlTask, Kinds, Task, NoLoc, FileRow
<1>4. writeFileInfo(p, fi) = <<u>> \o b
  BY DEF writeFileInfo
<1> HIDE DEF u, b
<1>5. <<u>> \in Seq(AnyTask) /\ TasksOf(<<u>>) = {u} /\ Ordered(<<u>>)
  BY <1>3, TasksOne, OrderedOne
<1>6. \A y \in TasksOf(b) : y.do = "mkdir"
  BY <1>2 DEF DirTasks, Task
<1>7. \A x \in TasksOf(<<u>>), y \in TasksOf(b) : y.do \in After(x.do)
  BY <1>3, <1>5, <1>6, AfterTable
<1>8. Ordered(<<u>> \o b)
  BY <1>2, <1>5, <1>7, OrderedConcat
<1>9. /\ <<u>> \o b \in Seq(AnyTask)
      /\ TasksOf(<<u>> \o b) = {u} \cup DirTasks(Parent[p])
  <2>1. TasksOf(<<u>> \o b) = TasksOf(<<u>>) \cup TasksOf(b)
    BY <1>2, <1>5, TasksTwo
  <2>2. <<u>> \o b \in Seq(AnyTask)
    BY <1>2, <1>5, ConcatProperties
  <2> QED BY <2>1, <2>2, <1>2, <1>5
<1> QED BY <1>4, <1>8, <1>9 DEF RowTasks, u

LEMMA ReturnTask ==
    /\ Return \in AnyTask /\ Return.do = "return" /\ Return.loc = NoLoc
    /\ <<Return>> \in Seq(AnyTask)
    /\ TasksOf(<<Return>>) = {Return}
    /\ Ordered(<<Return>>)
<1>1. Return \in AnyTask
  BY DEF Return, Task, AnyTask, SqlTask, Kinds, NoLoc
<1> QED BY <1>1, TasksOne, OrderedOne DEF Return, Task

(* A list of tasks that ends with the return. *)
LEMMA ReturnLast ==
    ASSUME NEW a \in Seq(AnyTask), Ordered(a), \A x \in TasksOf(a) : "return" \in After(x.do)
    PROVE  /\ a \o <<Return>> \in Seq(AnyTask)
           /\ TasksOf(a \o <<Return>>) = TasksOf(a) \cup {Return}
           /\ Ordered(a \o <<Return>>)
<1> DEFINE r == <<Return>>
<1>1. r \in Seq(AnyTask) /\ TasksOf(r) = {Return} /\ Ordered(r)
  BY ReturnTask
<1>2. \A x \in TasksOf(a), y \in TasksOf(r) : y.do \in After(x.do)
  BY <1>1, ReturnTask
<1> HIDE DEF r
<1>3. a \o r \in Seq(AnyTask)
  BY <1>1
<1>4. TasksOf(a \o r) = TasksOf(a) \cup {Return}
  BY <1>1, TasksConcat
<1>5. Ordered(a \o r)
  BY <1>1, <1>2, OrderedConcat
<1> QED BY <1>3, <1>4, <1>5 DEF r

-----------------------------------------------------------------------------
(* The tasks of a call are what they should be: Shape. *)

SameCall(m, k) ==
    /\ k.op = m.op /\ k.path = m.path /\ k.dest = m.dest
    /\ k.wr.loc = m.wr.loc /\ k.wr.path = m.wr.path

LEMMA SameClaims ==
    ASSUME NEW m, NEW k, SameCall(m, k)
    PROVE  ClaimsOf(k) = ClaimsOf(m) /\ RegionOf(k) = RegionOf(m)
  BY DEF SameCall, ClaimsOf, RegionOf

LEMMA ThenTasks ==
    ASSUME NEW m, NEW k, m.todo \in Seq(AnyTask), m.todo # <<>>,
           NEW tasks \in Seq(AnyTask), k.todo = tasks \o Tail(m.todo)
    PROVE  /\ k.todo \in Seq(AnyTask)
           /\ Tail(m.todo) \in Seq(AnyTask)
           /\ TasksOf(k.todo) = TasksOf(tasks) \cup TasksOf(Tail(m.todo))
           /\ TasksOf(m.todo) = {Head(m.todo)} \cup TasksOf(Tail(m.todo))
<1>1. /\ Tail(m.todo) \in Seq(AnyTask)
      /\ TasksOf(m.todo) = {Head(m.todo)} \cup TasksOf(Tail(m.todo))
  BY TasksHead
<1>2. /\ TasksOf(k.todo) = TasksOf(tasks) \cup TasksOf(Tail(m.todo))
      /\ k.todo \in Seq(AnyTask)
  BY <1>1, TasksTwo
<1> QED BY <1>1, <1>2

(* The head of the list is done and replaced by other tasks. *)
LEMMA ShapeThen ==
    ASSUME NEW m, NEW k, m.todo \in Seq(AnyTask), m.todo # <<>>,
           NEW tasks \in Seq(AnyTask), k.todo = tasks \o Tail(m.todo),
           Shape(m), SameCall(m, k), Ordered(tasks),
           \A a \in TasksOf(tasks) :
             /\ a.do # "upload"
             /\ After(Head(m.todo).do) \subseteq After(a.do)
             /\ TaskShape(k, a)
    PROVE  Shape(k)
<1> DEFINE hd == Head(m.todo)
           tl == Tail(m.todo)
<1>1. /\ TasksOf(k.todo) = TasksOf(tasks) \cup TasksOf(tl)
      /\ TasksOf(m.todo) = {hd} \cup TasksOf(tl)
      /\ tl \in Seq(AnyTask)
  BY ThenTasks
<1>2. Ordered(tl) /\ \A y \in TasksOf(tl) : y.do \in After(hd.do)
  BY OrderedTail DEF Shape
<1>3. Ordered(k.todo)
  <2>1. \A x \in TasksOf(tasks), y \in TasksOf(tl) : y.do \in After(x.do)
    BY <1>2
  <2> QED BY <2>1, <1>1, <1>2, OrderedConcat
<1>4. ClaimsOf(k) = ClaimsOf(m) /\ RegionOf(k) = RegionOf(m)
  BY SameClaims
<1> HIDE DEF hd, tl
<1>5. ASSUME NEW t \in TasksOf(tl) PROVE TaskShape(k, t)
  <2>1. TaskShape(m, t)
    BY <1>1 DEF Shape
  <2>2. t.do \in {"upsert", "rename"} => hd.do \notin {"mkdir", "upload"}
    BY <1>2, AfterTable
  <2>3. t.do \in {"upsert", "rename"} => \A p :
          HasTask(m, "mkdir", p) => HasTask(k, "mkdir", p)
    BY <1>1, <2>2 DEF HasTask
  <2>4. ASSUME t.do = "upsert", k.op = "put"
        PROVE  /\ \A s \in TasksOf(k.todo) : s.do = "upload" => s.loc = t.row.loc
               /\ t.row.loc # NoLoc =>
                   \E s \in TasksOf(k.todo) : s.do = "upload" /\ s.loc = t.row.loc
    <3>1. /\ \A s \in TasksOf(m.todo) : s.do = "upload" => s.loc = t.row.loc
          /\ t.row.loc # NoLoc =>
               \E s \in TasksOf(m.todo) : s.do = "upload" /\ s.loc = t.row.loc
      BY <2>1, <2>4 DEF TaskShape, SameCall
    <3> QED BY <3>1, <1>1, <2>2, <2>4
  <2> QED BY <2>1, <2>3, <2>4, <1>4 DEF TaskShape, SameCall
<1>6. \A t \in TasksOf(k.todo) : TaskShape(k, t)
  BY <1>1, <1>5
<1> QED BY <1>3, <1>6 DEF Shape, SameCall

LEMMA ShapeIdle ==
    ASSUME NEW k, k.op = "idle", k.path = Root, k.dest = Root, k.todo = <<>>
    PROVE  Shape(k)
<1>1. TasksOf(k.todo) = {} /\ Ordered(k.todo)
  BY TasksOne, OrderedOne
<1> QED BY <1>1 DEF Shape

-----------------------------------------------------------------------------
(* What the actions do to the handler that takes them. *)

Alone(h) == \A g \in Handlers \ {h} : handler'[g] = handler[g]
Quiet == UNCHANGED <<files, segments, objects>>

(* The record of a call. *)
CallRec(k, op, p, d, w) ==
    /\ k.op = op /\ k.path = p /\ k.dest = d /\ k.wr = w
    /\ k.todo \in Seq(AnyTask) /\ Ordered(k.todo)

LEMMA HandlerTypes ==
    ASSUME StoreInv
    PROVE  /\ handler \in [Handlers -> HandlerRec]
           /\ \A h \in Handlers :
                /\ handler[h] \in HandlerRec
                /\ handler[h].todo \in Seq(AnyTask)
                /\ handler[h].path \in Paths \cup {Root}
                /\ handler[h].dest \in Paths \cup {Root}
                /\ handler[h].wr.loc # NoLoc => handler[h].wr.path \in Uploads
                /\ handler[h].wr.loc \in 0..nextLoc
<1>1. handler \in [Handlers -> HandlerRec]
  BY DEF StoreInv
<1>2. \A h \in Handlers : handler[h].wr.loc \in 0..nextLoc
  <2> TAKE h \in Handlers
  <2>1. CASE handler[h].wr.loc = NoLoc
    BY <2>1, BoundsNat DEF NoLoc
  <2>2. CASE handler[h].wr.loc # NoLoc
    BY <2>2, BoundsNat, WriterFacts
  <2> QED BY <2>1, <2>2
<1> QED BY <1>1, <1>2, WriterFacts DEF HandlerRec, AnyTask, WriterRec

LEMMA EnterRec ==
    ASSUME StoreInv, NEW h \in Handlers, NEW op, NEW p, NEW d, NEW v, NEW q,
           handler' = [handler EXCEPT ![h] = Enter(h, op, p, d, v, q)]
    PROVE  /\ handler'[h].op = op /\ handler'[h].path = p
           /\ handler'[h].dest = d /\ handler'[h].wr = handler[h].wr
           /\ handler'[h].todo = q \o <<Return>>
           /\ Alone(h)
<1>1. handler \in [Handlers -> HandlerRec]
  BY DEF StoreInv
<1>2. handler'[h] = Enter(h, op, p, d, v, q) /\ Alone(h)
  BY <1>1 DEF Alone
<1>3. handler[h] \in HandlerRec
  BY <1>1
<1> DEFINE r == q \o <<Return>>
           k == [handler[h] EXCEPT !.op = op, !.path = p, !.dest = d,
                                   !.val = v, !.todo = r]
<1>4. /\ k.op = op /\ k.path = p /\ k.dest = d /\ k.wr = handler[h].wr
      /\ k.todo = r
  <2> HIDE DEF r
  <2> QED BY <1>3 DEF HandlerRec
<1> QED BY <1>2, <1>4 DEF Enter

LEMMA EnterTodo ==
    ASSUME StoreInv, NEW h \in Handlers, NEW k,
           handler' = [handler EXCEPT ![h] = k], NEW r, k.todo = r
    PROVE  handler'[h].todo = r
  BY DEF StoreInv

(* A call with the given tasks. *)
LEMMA EnterCall ==
    ASSUME StoreInv, NEW h \in Handlers, NEW op, NEW p, NEW d, NEW v, NEW q,
           handler' = [handler EXCEPT ![h] = Enter(h, op, p, d, v, q)],
           q \in Seq(AnyTask), Ordered(q),
           \A x \in TasksOf(q) : "return" \in After(x.do)
    PROVE  /\ CallRec(handler'[h], op, p, d, handler[h].wr)
           /\ TasksOf(handler'[h].todo) = TasksOf(q) \cup {Return}
           /\ Alone(h)
<1>1. /\ handler'[h].op = op /\ handler'[h].path = p
      /\ handler'[h].dest = d /\ handler'[h].wr = handler[h].wr
      /\ handler'[h].todo = q \o <<Return>>
      /\ Alone(h)
  BY EnterRec
<1> QED BY <1>1, ReturnLast DEF CallRec

PutCall(h, p, large, row) ==
    LET k == handler'[h]
    IN  /\ MayCall(h, {p})
        /\ Alone(h)
        /\ Quiet
        /\ CallRec(k, "put", p, Root, handler[h].wr)
        /\ row \in FileRow(nextLoc', written')
        /\ row.loc = IF large THEN nextLoc + 1 ELSE NoLoc
        /\ row.size = 1 /\ row.data = IF large THEN <<>> ELSE <<nextUnit + 1>>
        /\ nextLoc' = IF large THEN nextLoc + 1 ELSE nextLoc
        /\ TasksOf(k.todo) =
             (IF files[p] = NoRow THEN {} ELSE ListTasks(files[p].loc))
             \cup RowTasks(p, row)
             \cup (IF large THEN {Task("upload", Root, nextLoc + 1, row)} ELSE {})
             \cup {Return}

LEMMA PutBody ==
    ASSUME StoreInv, NEW p \in Files, NEW nl \in Nat, NEW wn,
           NEW row \in FileRow(nl, wn)
    PROVE  LET old == IF files[p] = NoRow THEN <<>> ELSE deleteBlobs(files[p].loc)
               q == old \o writeFileInfo(p, row)
           IN  /\ q \in Seq(AnyTask)
               /\ TasksOf(q) =
                    (IF files[p] = NoRow THEN {} ELSE ListTasks(files[p].loc))
                    \cup RowTasks(p, row)
               /\ Ordered(q)
               /\ \A x \in TasksOf(q) : {"upload", "return"} \subseteq After(x.do)
<1> DEFINE old == IF files[p] = NoRow THEN <<>> ELSE deleteBlobs(files[p].loc)
           ls == IF files[p] = NoRow THEN {} ELSE ListTasks(files[p].loc)
           wf == writeFileInfo(p, row)
           q == old \o wf
<1>1. old \in Seq(AnyTask) /\ TasksOf(old) = ls /\ Ordered(old)
  <2>1. CASE files[p] = NoRow
    BY <2>1, EmptyTasks, TasksOne, OrderedOne
  <2>2. CASE files[p] # NoRow
    <3>1. files[p].loc \in 0..nextLoc
      BY <2>2, RowForPath, SwiftPlusAssumption
    <3> QED BY <2>2, <3>1, BlobTasks, BoundsNat
  <2> QED BY <2>1, <2>2
<1>2. wf \in Seq(AnyTask) /\ TasksOf(wf) = RowTasks(p, row) /\ Ordered(wf)
  BY WriteTasks
<1>3. /\ \A x \in ls : x.do = "list"
      /\ \A x \in RowTasks(p, row) : x.do \in {"upsert", "mkdir"}
  BY DEF ListTasks, RowTasks, DirTasks, Task
<1> HIDE DEF old, ls, wf
<1>4. q \in Seq(AnyTask) /\ TasksOf(q) = ls \cup RowTasks(p, row)
  <2>1. TasksOf(old \o wf) = TasksOf(old) \cup TasksOf(wf)
        /\ old \o wf \in Seq(AnyTask)
    BY <1>1, <1>2, TasksTwo
  <2> QED BY <1>1, <1>2, <2>1
<1>5. Ordered(q)
  <2>1. \A x \in TasksOf(old), y \in TasksOf(wf) : y.do \in After(x.do)
    BY <1>1, <1>2, <1>3, AfterTable DEF Deleting
  <2> QED BY <2>1, <1>1, <1>2, OrderedConcat
<1>6. \A x \in TasksOf(q) : {"upload", "return"} \subseteq After(x.do)
  BY <1>3, <1>4, AfterTable DEF Deleting
<1> QED BY <1>4, <1>5, <1>6 DEF q, old, ls, wf

LEMMA PutFacts ==
    ASSUME StoreInv, NEW h \in Handlers, NEW p \in Blobs, NEW large \in BOOLEAN,
           PutContent(h, p, large)
    PROVE  \E row : PutCall(h, p, large, row)
<1> DEFINE old == IF files[p] = NoRow THEN <<>> ELSE deleteBlobs(files[p].loc)
           ls == IF files[p] = NoRow THEN {} ELSE ListTasks(files[p].loc)
           contents == <<nextUnit + 1>>
           inline == [size |-> 1, data |-> contents, loc |-> NoLoc]
           big == [size |-> 1, data |-> <<>>, loc |-> nextLoc + 1]
           up == Task("upload", Root, nextLoc + 1, big)
<1>1. /\ MayCall(h, {p}) /\ Quiet
      /\ nextUnit < MaxUnits
      /\ written' = written \cup {contents}
  BY DEF PutContent, Quiet
<1>2. p \in Files /\ p \in Paths
  BY SwiftPlusAssumption DEF Files
<1>3. CASE ~large
  <2> DEFINE q == old \o writeFileInfo(p, inline)
  <2>1. nextLoc' = nextLoc
        /\ handler' = [handler EXCEPT ![h] = Enter(h, "put", p, Root, contents, q)]
    BY <1>3 DEF PutContent
  <2>2. inline \in FileRow(nextLoc', written') /\ inline.loc = NoLoc
        /\ inline.size = 1 /\ inline.data = <<nextUnit + 1>>
    BY <1>1, <2>1, BoundsNat, NewUnit DEF FileRow, Row, NoLoc
  <2> HIDE DEF inline
  <2>3. /\ q \in Seq(AnyTask) /\ Ordered(q)
        /\ TasksOf(q) = ls \cup RowTasks(p, inline)
        /\ \A x \in TasksOf(q) : "return" \in After(x.do)
    BY <1>2, <2>1, <2>2, PutBody, BoundsNat
  <2> HIDE DEF q
  <2>4. /\ CallRec(handler'[h], "put", p, Root, handler[h].wr)
        /\ TasksOf(handler'[h].todo) = TasksOf(q) \cup {Return}
        /\ Alone(h)
    BY <2>1, <2>3, EnterCall
  <2>5. PutCall(h, p, large, inline)
    BY <1>1, <1>3, <2>1, <2>2, <2>3, <2>4 DEF PutCall
  <2> QED BY <2>5
<1>4. CASE large
  <2> DEFINE b == old \o writeFileInfo(p, big)
             q == b \o <<up>>
  <2>1. nextLoc' = nextLoc + 1 /\ nextLoc < MaxLocs
        /\ handler' = [handler EXCEPT ![h] = Enter(h, "put", p, Root, contents, q)]
    BY <1>4 DEF PutContent
  <2>2. big \in FileRow(nextLoc', written') /\ big.loc = nextLoc + 1
        /\ big.size = 1 /\ big.data = <<>>
    BY <1>1, <2>1, BoundsNat, NewUnit DEF FileRow, Row, NoLoc, Contentses
  <2>3. up \in AnyTask /\ up.do = "upload"
    BY <2>1, <2>2, BoundsNat DEF AnyTask, Task, SqlTask, Kinds, FileRow
  <2> HIDE DEF big
  <2>4. /\ b \in Seq(AnyTask) /\ Ordered(b)
        /\ TasksOf(b) = ls \cup RowTasks(p, big)
        /\ \A x \in TasksOf(b) : {"upload", "return"} \subseteq After(x.do)
    BY <1>2, <2>1, <2>2, PutBody, BoundsNat
  <2> HIDE DEF b, up
  <2>5. <<up>> \in Seq(AnyTask) /\ TasksOf(<<up>>) = {up} /\ Ordered(<<up>>)
    BY <2>3, TasksOne, OrderedOne
  <2>6. q \in Seq(AnyTask) /\ TasksOf(q) = TasksOf(b) \cup {up}
    <3>1. TasksOf(b \o <<up>>) = TasksOf(b) \cup TasksOf(<<up>>)
          /\ b \o <<up>> \in Seq(AnyTask)
      BY <2>4, <2>5, TasksTwo
    <3> QED BY <2>5, <3>1
  <2>7. Ordered(q)
    BY <2>3, <2>4, <2>5, OrderedConcat
  <2>8. \A x \in TasksOf(q) : "return" \in After(x.do)
    BY <2>3, <2>4, <2>6, AfterTable
  <2> HIDE DEF q
  <2>9. /\ CallRec(handler'[h], "put", p, Root, handler[h].wr)
        /\ TasksOf(handler'[h].todo) = TasksOf(q) \cup {Return}
        /\ Alone(h)
    BY <2>1, <2>6, <2>7, <2>8, EnterCall
  <2>10. PutCall(h, p, large, big)
    BY <1>1, <1>4, <2>1, <2>2, <2>4, <2>6, <2>9 DEF PutCall, up
  <2> QED BY <2>10
<1> QED BY <1>3, <1>4

MoveCall(h, s, d) ==
    LET k == handler'[h]
    IN  /\ MayCall(h, {s, d})
        /\ Alone(h)
        /\ Quiet
        /\ CallRec(k, "move", s, d, handler[h].wr)
        /\ nextLoc' = nextLoc
        /\ TasksOf(k.todo) = {Task("target", d, NoLoc, NoRow),
                              Task("rename", s, NoLoc, NoRow)}
                             \cup DirTasks(Parent[d]) \cup {Return}

LEMMA MoveFacts ==
    ASSUME StoreInv, NEW h \in Handlers, NEW s \in Uploads, NEW d \in Blobs,
           Move(h, s, d)
    PROVE  MoveCall(h, s, d)
<1> DEFINE t == Task("target", d, NoLoc, NoRow)
           r == Task("rename", s, NoLoc, NoRow)
           tr == <<t, r>>
           mk == mkdirAll(Parent[d])
           q == tr \o mk
<1>1. /\ MayCall(h, {s, d}) /\ Quiet /\ nextLoc' = nextLoc
      /\ handler' = [handler EXCEPT ![h] = Enter(h, "move", s, d, acked[s], q)]
  BY DEF Move, Quiet
<1>2. s \in Paths /\ d \in Paths /\ Parent[d] \in Dirs \cup {Root}
  BY SwiftPlusAssumption DEF Files
<1>3. mk \in Seq(AnyTask) /\ TasksOf(mk) = DirTasks(Parent[d]) /\ Ordered(mk)
  BY <1>2, MakeTasks
<1>4. t \in AnyTask /\ r \in AnyTask /\ t.do = "target" /\ r.do = "rename"
  BY <1>2 DEF AnyTask, SqlTask, Kinds, Task, NoLoc
<1>5. \A x \in DirTasks(Parent[d]) : x.do = "mkdir"
  BY DEF DirTasks, Task
<1> HIDE DEF t, r, mk
<1>6. tr \in Seq(AnyTask) /\ TasksOf(tr) = {t, r}
  BY <1>4 DEF TasksOf
<1>7. Ordered(tr)
  <2>1. "rename" \in After("target")
    BY AfterTable
  <2> QED BY <1>4, <2>1 DEF Ordered
<1> HIDE DEF tr
<1>8. q \in Seq(AnyTask) /\ TasksOf(q) = {t, r} \cup DirTasks(Parent[d])
  <2>1. TasksOf(tr \o mk) = TasksOf(tr) \cup TasksOf(mk)
        /\ tr \o mk \in Seq(AnyTask)
    BY <1>3, <1>6, TasksTwo
  <2> QED BY <1>3, <1>6, <2>1
<1>9. Ordered(q)
  <2>1. \A x \in TasksOf(tr), y \in TasksOf(mk) : y.do \in After(x.do)
    BY <1>3, <1>4, <1>5, <1>6, AfterTable
  <2> QED BY <2>1, <1>3, <1>6, <1>7, OrderedConcat
<1>10. \A x \in TasksOf(q) : "return" \in After(x.do)
  BY <1>4, <1>5, <1>8, AfterTable
<1> HIDE DEF q
<1>11. /\ CallRec(handler'[h], "move", s, d, handler[h].wr)
       /\ TasksOf(handler'[h].todo) = TasksOf(q) \cup {Return}
       /\ Alone(h)
  BY <1>1, <1>8, <1>9, <1>10, EnterCall
<1> QED BY <1>1, <1>8, <1>11 DEF MoveCall, t, r

DeleteCall(h, p) ==
    LET k == handler'[h]
    IN  /\ MayCall(h, {p})
        /\ Alone(h)
        /\ Quiet
        /\ CallRec(k, "delete", p, Root, handler[h].wr)
        /\ nextLoc' = nextLoc
        /\ files[p] # NoRow
        /\ k.todo = deleteDownwards(p, files[p]) \o <<Return>>
        /\ TasksOf(k.todo) = DownTasks(p, files[p]) \cup {Return}

LEMMA DownReturn ==
    ASSUME StoreInv, NEW p \in Paths, files[p] # NoRow
    PROVE  LET q == deleteDownwards(p, files[p])
           IN  /\ q \in Seq(AnyTask) /\ Ordered(q)
               /\ TasksOf(q) = DownTasks(p, files[p])
               /\ \A x \in TasksOf(q) :
                    x.do \in Deleting /\ "return" \in After(x.do)
<1> DEFINE q == deleteDownwards(p, files[p])
<1>1. RowFor(p, files[p], nextLoc, written)
  BY RowForPath
<1>2. q \in Seq(AnyTask) /\ Ordered(q) /\ TasksOf(q) = DownTasks(p, files[p])
  BY <1>1, BoundsNat, DeleteTasks
<1>3. \A x \in DownTasks(p, files[p]) : x.do \in {"list", "children", "unlink"}
  BY DEF DownTasks, ListTasks, Task
<1> HIDE DEF q
<1>4. \A x \in TasksOf(q) : x.do \in Deleting /\ "return" \in After(x.do)
  BY <1>2, <1>3, AfterTable DEF Deleting
<1> QED BY <1>2, <1>4 DEF q

LEMMA DeleteFacts ==
    ASSUME StoreInv, NEW h \in Handlers, NEW p \in Files \cup UploadDirs,
           Delete(h, p)
    PROVE  DeleteCall(h, p)
<1> DEFINE q == deleteDownwards(p, files[p])
<1>1. /\ MayCall(h, {p}) /\ Quiet /\ nextLoc' = nextLoc /\ files[p] # NoRow
      /\ handler' = [handler EXCEPT ![h] = Enter(h, "delete", p, Root, Absent, q)]
  BY DEF Delete, Quiet
<1>2. p \in Paths
  BY SwiftPlusAssumption DEF Dirs
<1>3. /\ q \in Seq(AnyTask) /\ Ordered(q)
      /\ TasksOf(q) = DownTasks(p, files[p])
      /\ \A x \in TasksOf(q) : "return" \in After(x.do)
  BY <1>1, <1>2, DownReturn
<1> HIDE DEF q
<1>4. /\ CallRec(handler'[h], "delete", p, Root, handler[h].wr)
      /\ TasksOf(handler'[h].todo) = TasksOf(q) \cup {Return}
      /\ Alone(h)
  BY <1>1, <1>3, EnterCall
<1>5. handler'[h].todo = q \o <<Return>>
  BY <1>1, EnterRec
<1> QED BY <1>1, <1>3, <1>4, <1>5 DEF DeleteCall, q

(* The call of a writer: op is what is called, and extra what it does after *)
(* the flush.                                                               *)
FlushSet(w) ==
    IF w.buf = NoUnit THEN {} ELSE {PutTask(w.loc), RecordTask(w.loc)}
UseCall(h, op, extra) ==
    LET k == handler'[h]
    IN  /\ MayUse(h)
        /\ Alone(h)
        /\ Quiet
        /\ CallRec(k, op, Root, Root, handler[h].wr)
        /\ nextLoc' = nextLoc
        /\ faults' = faults
        /\ TasksOf(k.todo) = FlushSet(handler[h].wr) \cup extra \cup {Return}
        /\ k.todo # <<>>
        /\ Head(k.todo).do # "recordsegment"

LEMMA UseFacts ==
    ASSUME StoreInv, NEW h \in Handlers, MayUse(h), NEW op, NEW v,
           NEW rest \in Seq(AnyTask), Ordered(rest),
           \A x \in TasksOf(rest) : x.do \in {"manifest", "delete"},
           handler' = [handler EXCEPT ![h] =
                         Enter(h, op, Root, Root, v, Flush(handler[h].wr) \o rest)],
           Quiet, nextLoc' = nextLoc, faults' = faults
    PROVE  UseCall(h, op, TasksOf(rest))
<1> DEFINE w == handler[h].wr
           fl == Flush(w)
           q == fl \o rest
<1>1. w.loc \in Nat
  BY HandlerTypes, BoundsNat
<1>2. PutTask(w.loc) \in AnyTask /\ RecordTask(w.loc) \in AnyTask
  BY <1>1 DEF PutTask, RecordTask, AnyTask, SqlTask, Kinds, Task
<1>3. PutTask(w.loc).do = "putsegment" /\ RecordTask(w.loc).do = "recordsegment"
  BY DEF PutTask, RecordTask, Task
<1>4. /\ fl \in Seq(AnyTask) /\ TasksOf(fl) = FlushSet(w) /\ Ordered(fl)
      /\ fl # <<>> => Head(fl).do = "putsegment"
  <2>1. CASE w.buf = NoUnit
    BY <2>1, EmptyTasks, TasksOne, OrderedOne DEF Flush, FlushSet
  <2>2. CASE w.buf # NoUnit
    <3> DEFINE a == PutTask(w.loc)
               b == RecordTask(w.loc)
    <3>1. fl = <<a, b>> /\ FlushSet(w) = {a, b}
      BY <2>2 DEF Flush, FlushSet, PutTask, RecordTask
    <3>2. b.do \in After(a.do)
      BY <1>3, AfterTable
    <3> HIDE DEF a, b, fl
    <3>3. a \in AnyTask /\ b \in AnyTask /\ a.do = "putsegment"
      BY <1>2, <1>3 DEF a, b
    <3>4. TasksOf(<<a, b>>) = {a, b} /\ <<a, b>> \in Seq(AnyTask)
      BY <3>3 DEF TasksOf
    <3>5. Ordered(<<a, b>>)
      BY <3>2 DEF Ordered
    <3> QED BY <3>1, <3>3, <3>4, <3>5
  <2> QED BY <2>1, <2>2
<1>5. \A x \in TasksOf(fl) : x.do \in {"putsegment", "recordsegment"}
  BY <1>3, <1>4 DEF FlushSet
<1> HIDE DEF fl
<1>6. q \in Seq(AnyTask) /\ TasksOf(q) = FlushSet(w) \cup TasksOf(rest)
  <2>1. TasksOf(fl \o rest) = TasksOf(fl) \cup TasksOf(rest)
        /\ fl \o rest \in Seq(AnyTask)
    BY <1>4, TasksTwo
  <2> QED BY <1>4, <2>1
<1>7. Ordered(q)
  <2>1. \A x \in TasksOf(fl), y \in TasksOf(rest) : y.do \in After(x.do)
    BY <1>5, AfterTable
  <2> QED BY <2>1, <1>4, OrderedConcat
<1>8. \A x \in TasksOf(q) : "return" \in After(x.do)
  BY <1>4, <1>5, <1>6, AfterTable
<1>9. q # <<>> => Head(q).do # "recordsegment"
  <2>1. CASE fl = <<>>
    <3>1. q = rest
      BY <2>1
    <3> QED BY <3>1, TasksHead
  <2>2. CASE fl # <<>>
    <3>1. Head(q) = Head(fl)
      BY <2>2, <1>4
    <3> QED BY <3>1, <1>4, <2>2
  <2> QED BY <2>1, <2>2
<1>10. handler' = [handler EXCEPT ![h] = Enter(h, op, Root, Root, v, q)]
  BY DEF q, fl
<1> HIDE DEF q
<1>11. /\ CallRec(handler'[h], op, Root, Root, handler[h].wr)
       /\ TasksOf(handler'[h].todo) = TasksOf(q) \cup {Return}
       /\ Alone(h)
  BY <1>6, <1>7, <1>8, <1>10, EnterCall
<1>12. handler'[h].todo = q \o <<Return>>
  <2> DEFINE k == Enter(h, op, Root, Root, v, q)
             r == q \o <<Return>>
  <2>1. k.todo = r
    <3>1. handler[h] \in HandlerRec
      BY HandlerTypes
    <3> HIDE DEF r
    <3> QED BY <3>1 DEF Enter, HandlerRec, r
  <2>2. handler' = [handler EXCEPT ![h] = k]
    BY <1>10
  <2> HIDE DEF k, r
  <2>3. handler'[h].todo = r
    BY <2>1, <2>2, EnterTodo
  <2> QED BY <2>3 DEF r
<1>13. handler'[h].todo # <<>> /\ Head(handler'[h].todo).do # "recordsegment"
  <2>1. CASE q = <<>>
    <3>1. handler'[h].todo = <<Return>>
      BY <2>1, <1>12
    <3> QED BY <3>1, ReturnTask
  <2>2. CASE q # <<>>
    <3>1. Head(q \o <<Return>>) = Head(q) /\ q \o <<Return>> # <<>>
      BY <2>2, <1>6
    <3> QED BY <3>1, <1>9, <1>12, <2>2
  <2> QED BY <2>1, <2>2
<1> QED BY <1>6, <1>11, <1>13 DEF UseCall

WriterCall(h, p, append) ==
    LET k == handler'[h]
        fi == files[p]
        exists == append /\ fi # NoRow
        fresh == ~exists \/ fi.loc = NoLoc
    IN  /\ MayCall(h, {p})
        /\ Alone(h)
        /\ Quiet
        /\ faults' = faults
        /\ fresh => nextLoc < MaxLocs
        /\ nextLoc' = IF fresh THEN nextLoc + 1 ELSE nextLoc
        /\ k.wr.path = p /\ k.wr.segs = <<>> /\ ~k.wr.err /\ ~k.wr.committed
        /\ ~k.wr.lost
        /\ k.wr.loc = IF fresh THEN nextLoc + 1 ELSE fi.loc
        /\ CallRec(k, IF append THEN "append" ELSE "create", p, Root, k.wr)
        /\ ~append => k.todo = (IF fi = NoRow THEN <<>> ELSE deleteDownwards(p, fi))
                               \o <<Return>>
        /\ TasksOf(k.todo) =
             (IF ~append /\ fi # NoRow THEN DownTasks(p, fi) ELSE {})
             \cup (IF exists THEN {Task("readsegments", Root, k.wr.loc, NoRow)}
                   ELSE {})
             \cup {Return}

LEMMA WriterCallFacts ==
    ASSUME StoreInv, NEW h \in Handlers, NEW p \in Uploads,
           NEW append \in BOOLEAN, Writer(h, p, append)
    PROVE  WriterCall(h, p, append)
<1> DEFINE fi == files[p]
           exists == append /\ fi # NoRow
           fresh == ~exists \/ fi.loc = NoLoc
           location == IF fresh THEN nextLoc + 1 ELSE fi.loc
           del == IF ~append /\ fi # NoRow THEN deleteDownwards(p, fi) ELSE <<>>
           rt == Task("readsegments", Root, location, NoRow)
           rd == IF exists THEN <<rt>> ELSE <<>>
           w == [path |-> p, loc |-> location, segs |-> <<>>, buf |-> NoUnit,
                 err |-> FALSE, committed |-> FALSE, lost |-> FALSE,
                 base |-> IF append THEN acked[p] ELSE Absent]
           op == IF append THEN "append" ELSE "create"
           q == del \o rd
           e == Enter(h, op, p, Root, Absent, q)
           k == [e EXCEPT !.wr = w]
           dt == IF ~append /\ fi # NoRow THEN DownTasks(p, fi) ELSE {}
<1>1. /\ MayCall(h, {p}) /\ Quiet /\ faults' = faults
      /\ fresh => nextLoc < MaxLocs
      /\ nextLoc' = IF fresh THEN nextLoc + 1 ELSE nextLoc
      /\ handler' = [handler EXCEPT ![h] = k]
  BY DEF Writer, Quiet
<1>2. p \in Files /\ p \in Paths
  BY SwiftPlusAssumption DEF Files
<1>3. location \in Nat
  <2>1. exists => fi.loc \in 0..nextLoc
    BY <1>2, RowForPath
  <2> QED BY <2>1, BoundsNat
<1>4. /\ del \in Seq(AnyTask) /\ TasksOf(del) = dt /\ Ordered(del)
      /\ \A x \in dt : "return" \in After(x.do)
  <2>1. CASE ~append /\ fi # NoRow
    BY <2>1, <1>2, DownReturn
  <2>2. CASE ~(~append /\ fi # NoRow)
    <3>1. del = <<>> /\ dt = {}
      BY <2>2
    <3> HIDE DEF del, dt
    <3> QED BY <3>1, EmptyTasks, TasksOne, OrderedOne
  <2> QED BY <2>1, <2>2
<1>5. rt \in AnyTask /\ rt.do = "readsegments"
  BY <1>3 DEF AnyTask, SqlTask, Kinds, Task
<1>6. /\ rd \in Seq(AnyTask) /\ Ordered(rd)
      /\ TasksOf(rd) = IF exists THEN {rt} ELSE {}
  <2> HIDE DEF rt
  <2>1. CASE exists
    BY <2>1, <1>5, TasksOne, OrderedOne
  <2>2. CASE ~exists
    <3>1. rd = <<>>
      BY <2>2
    <3> HIDE DEF rd
    <3> QED BY <2>2, <3>1, EmptyTasks, TasksOne, OrderedOne
  <2> QED BY <2>1, <2>2
<1>7. dt = {} \/ TasksOf(rd) = {}
  BY <1>6
<1>8. /\ w.path = p /\ w.segs = <<>> /\ ~w.err /\ ~w.committed /\ ~w.lost
      /\ w.loc = location
  OBVIOUS
<1>9. ~append => del = (IF fi = NoRow THEN <<>> ELSE deleteDownwards(p, fi)) /\ rd = <<>>
  OBVIOUS
<1> HIDE DEF del, rd, w, op, dt
<1>10. q \in Seq(AnyTask) /\ TasksOf(q) = dt \cup TasksOf(rd)
  <2>1. TasksOf(del \o rd) = TasksOf(del) \cup TasksOf(rd)
        /\ del \o rd \in Seq(AnyTask)
    BY <1>4, <1>6, TasksTwo
  <2> QED BY <1>4, <2>1
<1>11. Ordered(q)
  <2>1. \A x \in TasksOf(del), y \in TasksOf(rd) : y.do \in After(x.do)
    BY <1>4, <1>7
  <2> QED BY <2>1, <1>4, <1>6, OrderedConcat
<1>12. \A x \in TasksOf(q) : "return" \in After(x.do)
  <2>1. \A x \in TasksOf(rd) : x.do = "readsegments"
    BY <1>5, <1>6
  <2> QED BY <2>1, <1>4, <1>10, AfterTable
<1>13. ~append => q = IF fi = NoRow THEN <<>> ELSE deleteDownwards(p, fi)
  <2>1. ~append => q = del
    BY <1>4, <1>9
  <2> QED BY <2>1, <1>9
<1> HIDE DEF q
<1> DEFINE r == q \o <<Return>>
<1>14. /\ r \in Seq(AnyTask)
       /\ TasksOf(r) = TasksOf(q) \cup {Return}
       /\ Ordered(r)
  BY <1>10, <1>11, <1>12, ReturnLast
<1>15. /\ k.op = op /\ k.path = p /\ k.dest = Root /\ k.wr = w /\ k.todo = r
  <2>1. handler[h] \in HandlerRec
    BY HandlerTypes
  <2> HIDE DEF r
  <2> QED BY <2>1 DEF Enter, HandlerRec, r
<1>16. ~append => r = (IF fi = NoRow THEN <<>> ELSE deleteDownwards(p, fi)) \o <<Return>>
  BY <1>13
<1> HIDE DEF k, r
<1>17. handler'[h] = k /\ Alone(h)
  BY <1>1 DEF StoreInv, Alone
<1>18. CallRec(k, op, p, Root, k.wr)
  BY <1>14, <1>15 DEF CallRec
<1>19. TasksOf(r) = dt \cup (IF exists THEN {rt} ELSE {}) \cup {Return}
  BY <1>6, <1>10, <1>14
<1> HIDE DEF location, rt
<1>20. /\ k.wr.path = p /\ k.wr.segs = <<>> /\ ~k.wr.err /\ ~k.wr.committed
       /\ ~k.wr.lost
       /\ k.wr.loc = location
  BY <1>8, <1>15
<1> QED BY <1>1, <1>15, <1>16, <1>17, <1>18, <1>19, <1>20
        DEF WriterCall, location, rt, op, dt

(* A step within a call that leaves the writer alone. *)
StepRec(h, tasks) ==
    LET m == handler[h]
        k == handler'[h]
    IN  /\ Alone(h)
        /\ SameCall(m, k)
        /\ k.wr = m.wr /\ k.val = m.val
        /\ k.todo = tasks \o Tail(m.todo)
        /\ nextLoc' = nextLoc

LEMMA ContinueFacts ==
    ASSUME StoreInv, NEW h \in Handlers, NEW tasks, Continue(h, tasks),
           nextLoc' = nextLoc
    PROVE  StepRec(h, tasks)
<1> DEFINE q == tasks \o Tail(handler[h].todo)
           k == [handler[h] EXCEPT !.todo = q]
<1>1. handler[h] \in HandlerRec
  BY HandlerTypes
<1>2. handler' = [handler EXCEPT ![h] = k]
  BY DEF Continue, Then
<1>3. /\ k.op = handler[h].op /\ k.path = handler[h].path
      /\ k.dest = handler[h].dest /\ k.wr = handler[h].wr /\ k.todo = q
      /\ k.val = handler[h].val
  <2> HIDE DEF q
  <2> QED BY <1>1 DEF HandlerRec
<1> HIDE DEF k
<1>4. handler'[h] = k /\ Alone(h)
  BY <1>2 DEF StoreInv, Alone
<1> QED BY <1>3, <1>4 DEF StepRec, SameCall

-----------------------------------------------------------------------------
(* ShapeInv is an invariant. *)

LEMMA KindsTable ==
    /\ KindsOf("put") = {"list", "bulkdelete", "upsert", "mkdir", "upload"}
    /\ KindsOf("move") = Deleting \cup {"target", "rename", "mkdir"}
    /\ KindsOf("delete") = Deleting
    /\ KindsOf("create") = Deleting
    /\ KindsOf("append") = {"readsegments"}
    /\ KindsOf("write") = FlushTasks
    /\ \A op \in {"commit", "close"} :
         KindsOf(op) = FlushTasks \cup {"manifest", "upsert", "mkdir"}
    /\ KindsOf("cancel") = FlushTasks \cup Deleting \cup {"delete"}
    /\ KindsOf("idle") = {}
  BY DEF KindsOf

LEMMA AboveUp ==
    ASSUME NEW p \in Paths, Parent[p] # Root
    PROVE  Parent[p] \in Above[p] /\ Parent[p] \in Paths
<1>1. Parent[p] \in Paths
  BY SwiftPlusAssumption DEF Dirs
<1> QED BY <1>1, AboveSelf, AboveParent

LEMMA ShapeOne ==
    ASSUME ShapeInv, NEW h \in Handlers, Alone(h), Shape(handler'[h])
    PROVE  ShapeInv'
  BY DEF ShapeInv, Alone

LEMMA PutShape ==
    ASSUME StoreInv, NEW h \in Handlers, NEW p \in Blobs, NEW large \in BOOLEAN,
           PutContent(h, p, large)
    PROVE  Alone(h) /\ Shape(handler'[h])
<1>1. PICK row : PutCall(h, p, large, row)
  BY PutFacts
<1> DEFINE k == handler'[h]
           ls == IF files[p] = NoRow THEN {} ELSE ListTasks(files[p].loc)
           us == IF large THEN {Task("upload", Root, nextLoc + 1, row)} ELSE {}
           T == TasksOf(k.todo)
<1>2. /\ Alone(h) /\ k.op = "put" /\ k.path = p /\ k.dest = Root
      /\ k.wr.loc = NoLoc /\ Ordered(k.todo)
      /\ row.loc = IF large THEN nextLoc + 1 ELSE NoLoc
      /\ T = ls \cup RowTasks(p, row) \cup us \cup {Return}
  BY <1>1 DEF PutCall, CallRec, MayCall, HasWriter
<1>3. p \in Paths /\ p # Root
  BY SwiftPlusAssumption DEF Files
<1>4. ClaimsOf(k) = {p}
  BY <1>2, <1>3 DEF ClaimsOf
<1> HIDE DEF k, T
<1>5. /\ \A t \in ls : t.do = "list"
      /\ \A t \in us : t.do = "upload" /\ t.loc = row.loc
  BY <1>2 DEF ListTasks, Task
<1> HIDE DEF ls
<1>6. ASSUME NEW t \in RowTasks(p, row) PROVE TaskShape(k, t)
  <2> DEFINE u == Task("upsert", p, NoLoc, row)
  <2>1. u \in RowTasks(p, row)
    BY DEF RowTasks
  <2>2. CASE t = u
    <3>1. Parent[p] # Root => HasTask(k, "mkdir", Parent[p])
      <4> SUFFICES ASSUME Parent[p] # Root PROVE HasTask(k, "mkdir", Parent[p])
        OBVIOUS
      <4>1. Task("mkdir", Parent[p], NoLoc, NoRow) \in T
        BY <1>2 DEF RowTasks, DirTasks
      <4> QED BY <4>1 DEF HasTask, Task, T
    <3>2. t.do = "upsert" /\ t.path = p /\ t.row = row /\ t.loc = NoLoc
      BY <2>2 DEF Task
    <3>3. \A s \in T : s.do = "upload" => s \in us
      BY <1>2, <1>5, ReturnTask DEF RowTasks, DirTasks, Task
    <3>4. row.loc # NoLoc => \E s \in us : s.do = "upload" /\ s.loc = row.loc
      BY <1>2, <1>5
    <3>5. us \subseteq T
      BY <1>2
    <3> HIDE DEF us
    <3> QED BY <1>2, <1>5, <3>1, <3>2, <3>3, <3>4, <3>5, KindsTable DEF TaskShape, FlushTasks, T
  <2>3. CASE t # u
    <3>1. t.do = "mkdir" /\ t.loc = NoLoc /\ t.path = Parent[p] /\ Parent[p] # Root
      BY <2>3 DEF RowTasks, DirTasks, Task
    <3>2. Parent[p] \in Above[p]
      BY <1>3, <3>1, AboveUp
    <3> QED BY <1>2, <1>4, <3>1, <3>2, KindsTable DEF TaskShape, FlushTasks
  <2> QED BY <2>2, <2>3
<1>7. \A t \in ls \cup us : TaskShape(k, t)
  <2> HIDE DEF us
  <2> QED BY <1>2, <1>5, KindsTable DEF TaskShape, FlushTasks
<1>8. TaskShape(k, Return)
  BY ReturnTask DEF TaskShape, FlushTasks
<1> QED BY <1>2, <1>3, <1>6, <1>7, <1>8 DEF Shape, T, k

LEMMA MoveShape ==
    ASSUME StoreInv, NEW h \in Handlers, NEW s \in Uploads, NEW d \in Blobs,
           Move(h, s, d)
    PROVE  Alone(h) /\ Shape(handler'[h])
<1> DEFINE k == handler'[h]
           T == TasksOf(k.todo)
           tg == Task("target", d, NoLoc, NoRow)
           rn == Task("rename", s, NoLoc, NoRow)
<1>2. /\ Alone(h) /\ k.op = "move" /\ k.path = s /\ k.dest = d
      /\ k.wr.loc = NoLoc /\ Ordered(k.todo)
      /\ T = {tg, rn} \cup DirTasks(Parent[d]) \cup {Return}
  BY MoveFacts DEF MoveCall, CallRec, MayCall, HasWriter
<1>3. s \in Paths /\ s # Root /\ d \in Paths /\ d # Root
  BY SwiftPlusAssumption DEF Files
<1>4. d \in ClaimsOf(k)
  BY <1>2, <1>3 DEF ClaimsOf
<1> HIDE DEF k, T
<1>5. TaskShape(k, tg)
  <2>1. tg.do = "target" /\ tg.path = d /\ tg.loc = NoLoc
    BY DEF Task
  <2> QED BY <1>2, <2>1, KindsTable DEF TaskShape, FlushTasks
<1>6. TaskShape(k, rn)
  <2>1. rn.do = "rename" /\ rn.path = s /\ rn.loc = NoLoc
    BY DEF Task
  <2>2. Parent[d] # Root => HasTask(k, "mkdir", Parent[d])
    <3> SUFFICES ASSUME Parent[d] # Root PROVE HasTask(k, "mkdir", Parent[d])
      OBVIOUS
    <3>1. Task("mkdir", Parent[d], NoLoc, NoRow) \in T
      BY <1>2 DEF DirTasks
    <3> QED BY <3>1 DEF HasTask, Task, T
  <2> QED BY <1>2, <2>1, <2>2, KindsTable DEF TaskShape, FlushTasks
<1>7. ASSUME NEW t \in DirTasks(Parent[d]) PROVE TaskShape(k, t)
  <2>1. t.do = "mkdir" /\ t.loc = NoLoc /\ t.path = Parent[d] /\ Parent[d] # Root
    BY DEF DirTasks, Task
  <2>2. Parent[d] \in Above[d]
    BY <1>3, <2>1, AboveUp
  <2> QED BY <1>2, <1>4, <2>1, <2>2, KindsTable DEF TaskShape, FlushTasks
<1>8. TaskShape(k, Return)
  BY ReturnTask DEF TaskShape, FlushTasks
<1> HIDE DEF tg, rn
<1> QED BY <1>2, <1>3, <1>5, <1>6, <1>7, <1>8 DEF Shape, T, k

(* The tasks of a deletion are in order if the path is in the region. *)
LEMMA DownShape ==
    ASSUME NEW k, NEW p \in RegionOf(k), NEW fi,
           {"list", "children", "unlink"} \subseteq KindsOf(k.op)
             \/ (fi.size >= 0 /\ fi.size \in Int
                 /\ {"list", "unlink"} \subseteq KindsOf(k.op)),
           NEW t \in DownTasks(p, fi)
    PROVE  TaskShape(k, t)
<1>1. /\ t.do \in {"list", "children", "unlink"}
      /\ t.do = "children" => fi.size < 0
      /\ t.do \in {"children", "unlink"} => t.path = p /\ t.loc = NoLoc
  BY DEF DownTasks, ListTasks, Task
<1>2. t.do \in KindsOf(k.op)
  BY <1>1
<1> QED BY <1>1, <1>2 DEF TaskShape, FlushTasks

LEMMA OwnRegion ==
    ASSUME NEW k, NEW p \in ClaimsOf(k), p \in Paths
    PROVE  p \in RegionOf(k)
  BY AboveSelf DEF RegionOf

LEMMA DeleteShape ==
    ASSUME StoreInv, NEW h \in Handlers, NEW p \in Files \cup UploadDirs,
           Delete(h, p)
    PROVE  Alone(h) /\ Shape(handler'[h])
<1> DEFINE k == handler'[h]
           T == TasksOf(k.todo)
<1>2. /\ Alone(h) /\ k.op = "delete" /\ k.path = p /\ k.dest = Root
      /\ k.wr.loc = NoLoc /\ Ordered(k.todo)
      /\ T = DownTasks(p, files[p]) \cup {Return}
  BY DeleteFacts DEF DeleteCall, CallRec, MayCall, HasWriter
<1>3. p \in Paths /\ p # Root
  BY SwiftPlusAssumption DEF Files, Dirs
<1> HIDE DEF k
<1>4. p \in RegionOf(k)
  <2>1. p \in ClaimsOf(k)
    BY <1>2, <1>3 DEF ClaimsOf
  <2> QED BY <2>1, <1>3, OwnRegion
<1>5. \A t \in DownTasks(p, files[p]) : TaskShape(k, t)
  BY <1>2, <1>4, DownShape, KindsTable DEF Deleting
<1>6. TaskShape(k, Return)
  BY ReturnTask DEF TaskShape, FlushTasks
<1> QED BY <1>2, <1>3, <1>5, <1>6 DEF Shape, T, k

LEMMA WriterShape ==
    ASSUME StoreInv, NEW h \in Handlers, NEW p \in Uploads,
           NEW append \in BOOLEAN, Writer(h, p, append)
    PROVE  Alone(h) /\ Shape(handler'[h])
<1> DEFINE k == handler'[h]
           T == TasksOf(k.todo)
           dt == IF ~append /\ files[p] # NoRow THEN DownTasks(p, files[p]) ELSE {}
           rt == Task("readsegments", Root, k.wr.loc, NoRow)
           rs == IF append /\ files[p] # NoRow THEN {rt} ELSE {}
<1>1. WriterCall(h, p, append)
  BY WriterCallFacts
<1>2. /\ Alone(h) /\ k.op = (IF append THEN "append" ELSE "create")
      /\ k.path = p /\ k.dest = Root /\ k.wr.path = p /\ Ordered(k.todo)
      /\ T = dt \cup rs \cup {Return}
  BY <1>1 DEF WriterCall, CallRec
<1>3. p \in Paths /\ p # Root
  BY SwiftPlusAssumption DEF Files
<1> HIDE DEF k
<1>4. p \in RegionOf(k)
  <2>1. p \in ClaimsOf(k)
    BY <1>2, <1>3 DEF ClaimsOf
  <2> QED BY <2>1, <1>3, OwnRegion
<1>5. \A t \in dt : TaskShape(k, t)
  BY <1>2, <1>4, DownShape, KindsTable DEF Deleting
<1>6. \A t \in rs : TaskShape(k, t)
  <2>1. \A t \in rs : t.do = "readsegments" /\ t.loc = k.wr.loc /\ append
    BY DEF Task
  <2> QED BY <1>2, <2>1, KindsTable DEF TaskShape, FlushTasks
<1>7. TaskShape(k, Return)
  BY ReturnTask DEF TaskShape, FlushTasks
<1> HIDE DEF dt, rs
<1>8. \A t \in T : TaskShape(k, t)
  BY <1>2, <1>5, <1>6, <1>7
<1> QED BY <1>2, <1>3, <1>8 DEF Shape, T, k

LEMMA UseShape ==
    ASSUME StoreInv, NEW h \in Handlers, NEW op, NEW extra,
           UseCall(h, op, extra),
           op \in {"write", "commit", "close", "cancel"},
           \A t \in extra :
             \/ /\ t.do = "manifest" /\ op \in {"commit", "close"}
                /\ t.loc = handler[h].wr.loc
             \/ /\ t.do = "delete" /\ op = "cancel"
                /\ t.loc = NoLoc /\ t.path = handler[h].wr.path
    PROVE  Alone(h) /\ Shape(handler'[h])
<1> DEFINE k == handler'[h]
           T == TasksOf(k.todo)
           w == handler[h].wr
<1>1. /\ Alone(h) /\ k.op = op /\ k.path = Root /\ k.dest = Root /\ k.wr = w
      /\ Ordered(k.todo)
      /\ T = FlushSet(w) \cup extra \cup {Return}
  BY DEF UseCall, CallRec
<1> HIDE DEF k, T, w
<1>2. \A t \in FlushSet(w) : TaskShape(k, t)
  <2>1. \A t \in FlushSet(w) : t.do \in FlushTasks /\ t.loc = w.loc
    BY DEF FlushSet, PutTask, RecordTask, Task, FlushTasks
  <2> QED BY <2>1, <1>1, KindsTable DEF TaskShape, FlushTasks
<1>3. \A t \in extra : TaskShape(k, t)
  BY <1>1, KindsTable DEF TaskShape, FlushTasks, w
<1>4. TaskShape(k, Return)
  BY ReturnTask DEF TaskShape, FlushTasks
<1>5. \A t \in T : TaskShape(k, t)
  BY <1>1, <1>2, <1>3, <1>4
<1> QED BY <1>1, <1>5 DEF Shape, T, k

LEMMA WriteFacts ==
    ASSUME StoreInv, NEW h \in Handlers, Write(h)
    PROVE  UseCall(h, "write", {})
<1> DEFINE v == <<nextUnit + 1>>
           w == handler[h].wr
<1>1. /\ MayUse(h) /\ Quiet /\ nextLoc' = nextLoc /\ faults' = faults
      /\ handler' = [handler EXCEPT ![h] =
                       Enter(h, "write", Root, Root, v, Flush(w))]
  BY DEF Write, Quiet
<1>2. Flush(w) \o <<>> = Flush(w)
  <2>1. CASE w.buf = NoUnit
    BY <2>1 DEF Flush
  <2>2. CASE w.buf # NoUnit
    <3> DEFINE a == Task("putsegment", Root, w.loc, NoRow)
               b == Task("recordsegment", Root, w.loc, NoRow)
    <3>1. Flush(w) = <<a, b>>
      BY <2>2 DEF Flush
    <3> HIDE DEF a, b
    <3> QED BY <3>1
  <2> QED BY <2>1, <2>2
<1>3. <<>> \in Seq(AnyTask) /\ Ordered(<<>>) /\ TasksOf(<<>>) = {}
  BY EmptyTasks, OrderedOne, TasksOne
<1>4. handler' = [handler EXCEPT ![h] =
                    Enter(h, "write", Root, Root, v, Flush(w) \o <<>>)]
  BY <1>1, <1>2
<1> HIDE DEF v
<1>5. UseCall(h, "write", TasksOf(<<>>))
  BY <1>1, <1>3, <1>4, UseFacts
<1> QED BY <1>3, <1>5

LEMMA CommitFacts ==
    ASSUME StoreInv, NEW h \in Handlers, NEW op \in {"commit", "close"},
           Commit(h, op)
    PROVE  UseCall(h, op, {Task("manifest", handler[h].wr.path,
                                handler[h].wr.loc, NoRow)})
<1> DEFINE w == handler[h].wr
           t == Task("manifest", w.path, w.loc, NoRow)
<1>1. /\ MayUse(h) /\ Quiet /\ nextLoc' = nextLoc /\ faults' = faults
      /\ handler' = [handler EXCEPT ![h] =
                       Enter(h, op, Root, Root, Absent, Flush(w) \o <<t>>)]
  BY DEF Commit, Quiet
<1>2. t.do = "manifest" /\ t \in AnyTask
  <2>1. w.loc # NoLoc
    BY <1>1 DEF MayUse, HasWriter
  <2>2. w.path \in Paths /\ w.loc \in Nat
    BY <2>1, HandlerTypes, SwiftPlusAssumption, BoundsNat DEF Files
  <2> QED BY <2>2 DEF AnyTask, SqlTask, Kinds, Task
<1> HIDE DEF t
<1>3. <<t>> \in Seq(AnyTask) /\ Ordered(<<t>>) /\ TasksOf(<<t>>) = {t}
  BY <1>2, OrderedOne, TasksOne
<1>4. UseCall(h, op, TasksOf(<<t>>))
  BY <1>1, <1>2, <1>3, UseFacts
<1> QED BY <1>3, <1>4 DEF t

LEMMA CancelFacts ==
    ASSUME StoreInv, NEW h \in Handlers, Cancel(h)
    PROVE  UseCall(h, "cancel", {Task("delete", handler[h].wr.path, NoLoc, NoRow)})
<1> DEFINE w == handler[h].wr
           t == Task("delete", w.path, NoLoc, NoRow)
<1>1. /\ MayUse(h) /\ Quiet /\ nextLoc' = nextLoc /\ faults' = faults
      /\ handler' = [handler EXCEPT ![h] =
                       Enter(h, "cancel", Root, Root, Absent, Flush(w) \o <<t>>)]
  BY DEF Cancel, Quiet
<1>2. t.do = "delete" /\ t \in AnyTask
  <2>1. w.loc # NoLoc
    BY <1>1 DEF MayUse, HasWriter
  <2>2. w.path \in Paths
    BY <2>1, HandlerTypes, SwiftPlusAssumption DEF Files
  <2> QED BY <2>2 DEF AnyTask, SqlTask, Kinds, Task, NoLoc
<1> HIDE DEF t
<1>3. <<t>> \in Seq(AnyTask) /\ Ordered(<<t>>) /\ TasksOf(<<t>>) = {t}
  BY <1>2, OrderedOne, TasksOne
<1>4. UseCall(h, "cancel", TasksOf(<<t>>))
  BY <1>1, <1>2, <1>3, UseFacts
<1> QED BY <1>3, <1>4 DEF t

(* The handler becomes idle: after an error, a return or a crash. *)
IdleRec(k) == k.op = "idle" /\ k.path = Root /\ k.dest = Root /\ k.todo = <<>>

LEMMA IdleWith ==
    ASSUME NEW w
    PROVE  /\ IdleRec(IdleHandler) /\ IdleHandler.wr = NoWriter
           /\ IdleRec([IdleHandler EXCEPT !.wr = w])
           /\ [IdleHandler EXCEPT !.wr = w].wr = w
  BY DEF IdleRec, IdleHandler

LEMMA LeaveFacts ==
    ASSUME StoreInv, NEW h \in Handlers, Close(h) \/ GiveUp(h)
    PROVE  /\ Alone(h) /\ Quiet /\ handler'[h] = IdleHandler
           /\ nextLoc' = nextLoc /\ faults' = faults
<1>1. /\ handler' = [handler EXCEPT ![h] = IdleHandler]
      /\ Quiet /\ nextLoc' = nextLoc /\ faults' = faults
  BY DEF Close, GiveUp, Quiet
<1> QED BY <1>1 DEF StoreInv, Alone

ErrorRec(h) ==
    LET m == handler[h]
        k == handler'[h]
    IN  /\ Alone(h)
        /\ IdleRec(k)
        /\ \/ k.wr = NoWriter
           \/ /\ m.wr.loc # NoLoc
              /\ m.op \notin {"create", "append", "cancel"}
              /\ k.wr.loc = m.wr.loc /\ k.wr.path = m.wr.path
              /\ k.wr.segs = m.wr.segs /\ k.wr.committed = m.wr.committed
              /\ k.wr.lost = m.wr.lost
              /\ k.wr.err = (Now(h).do \in FlushTasks)
        /\ m.wr.loc # NoLoc /\ m.op \notin {"create", "append", "cancel"} =>
              k.wr.loc = m.wr.loc

LEMMA ErrorFacts ==
    ASSUME StoreInv, NEW h \in Handlers, ReturnError(h)
    PROVE  ErrorRec(h)
<1> DEFINE m == handler[h]
           flushing == Now(h).do \in {"putsegment", "recordsegment"}
           w == [m.wr EXCEPT !.err = flushing]
<1>1. CASE HasWriter(h) /\ m.op \notin {"create", "append", "cancel"}
  <2>1. handler' = [handler EXCEPT ![h] = [IdleHandler EXCEPT !.wr = w]]
    BY <1>1 DEF ReturnError
  <2>2. handler'[h] = [IdleHandler EXCEPT !.wr = w] /\ Alone(h)
    BY <2>1 DEF StoreInv, Alone
  <2>3. m.wr \in WriterRec /\ m.wr.loc # NoLoc
    BY <1>1, WriterFacts DEF HasWriter
  <2>4. /\ w.loc = m.wr.loc /\ w.path = m.wr.path /\ w.segs = m.wr.segs
        /\ w.committed = m.wr.committed /\ w.err = flushing
        /\ w.lost = m.wr.lost
    BY <2>3 DEF WriterRec
  <2> HIDE DEF w
  <2>5. IdleRec(handler'[h]) /\ handler'[h].wr = w
    BY <2>2, IdleWith
  <2> QED BY <1>1, <2>2, <2>3, <2>4, <2>5 DEF ErrorRec, FlushTasks
<1>2. CASE ~(HasWriter(h) /\ m.op \notin {"create", "append", "cancel"})
  <2>1. handler' = [handler EXCEPT ![h] = IdleHandler]
    BY <1>2 DEF ReturnError
  <2>2. handler'[h] = IdleHandler /\ Alone(h)
    BY <2>1 DEF StoreInv, Alone
  <2> QED BY <1>2, <2>2, IdleWith DEF ErrorRec, HasWriter
<1> QED BY <1>1, <1>2

(* A step within a call: the head of the list is replaced by tasks. *)
StepBy(h, do, tasks) ==
    LET m == handler[h]
        k == handler'[h]
    IN  /\ At(h, do)
        /\ Alone(h)
        /\ SameCall(m, k)
        /\ tasks \in Seq(AnyTask) /\ Ordered(tasks)
        /\ k.val \in {m.val, Unknown}
        /\ k.todo = tasks \o Tail(m.todo)
        /\ nextLoc' = nextLoc

LEMMA StepTodo ==
    ASSUME StoreInv, NEW h \in Handlers, NEW do, NEW tasks, StepBy(h, do, tasks)
    PROVE  LET m == handler[h]
               k == handler'[h]
           IN  /\ m.todo # <<>> /\ m.todo \in Seq(AnyTask)
               /\ Head(m.todo).do = do /\ Now(h) = Head(m.todo)
               /\ k.todo \in Seq(AnyTask)
               /\ Tail(m.todo) \in Seq(AnyTask)
               /\ TasksOf(k.todo) = TasksOf(tasks) \cup TasksOf(Tail(m.todo))
               /\ TasksOf(m.todo) = {Now(h)} \cup TasksOf(Tail(m.todo))
<1>1. handler[h].todo \in Seq(AnyTask)
  BY HandlerTypes
<1>2. /\ handler[h].todo # <<>> /\ Head(handler[h].todo).do = do
      /\ Now(h) = Head(handler[h].todo)
      /\ tasks \in Seq(AnyTask)
      /\ handler'[h].todo = tasks \o Tail(handler[h].todo)
  BY DEF StepBy, At, Now
<1> QED BY <1>1, <1>2, ThenTasks

LEMMA ContinueBy ==
    ASSUME StoreInv, NEW h \in Handlers, NEW tasks \in Seq(AnyTask),
           Ordered(tasks), NEW do, At(h, do), Continue(h, tasks),
           UNCHANGED bounds
    PROVE  StepBy(h, do, tasks) /\ handler'[h].wr = handler[h].wr
<1>1. nextLoc' = nextLoc
  BY DEF bounds
<1>2. StepRec(h, tasks)
  BY <1>1, ContinueFacts
<1> QED BY <1>1, <1>2 DEF StepRec, StepBy

LEMMA WriterBy ==
    ASSUME StoreInv, NEW h \in Handlers, NEW do, At(h, do), nextLoc' = nextLoc,
           handler[h].wr.loc # NoLoc, NEW w,
           handler' = [handler EXCEPT ![h] = [Then(h, <<>>) EXCEPT !.wr = w]],
           w.loc = handler[h].wr.loc, w.path = handler[h].wr.path
    PROVE  StepBy(h, do, <<>>) /\ handler'[h].wr = w
<1> DEFINE q == <<>> \o Tail(handler[h].todo)
           k == [[handler[h] EXCEPT !.todo = q] EXCEPT !.wr = w]
<1>1. handler[h] \in HandlerRec
  BY HandlerTypes
<1>2. handler' = [handler EXCEPT ![h] = k]
  BY DEF Then
<1>3. /\ k.op = handler[h].op /\ k.path = handler[h].path
      /\ k.dest = handler[h].dest /\ k.wr = w /\ k.todo = q
      /\ k.val = handler[h].val
  <2> HIDE DEF q
  <2> QED BY <1>1 DEF HandlerRec
<1> HIDE DEF k
<1>4. handler'[h] = k /\ Alone(h)
  BY <1>2 DEF StoreInv, Alone
<1>5. <<>> \in Seq(AnyTask) /\ Ordered(<<>>)
  BY EmptyTasks, OrderedOne
<1> QED BY <1>3, <1>4, <1>5 DEF StepBy, SameCall

LEMMA ReadSegmentsFacts ==
    ASSUME StoreInv, NEW h \in Handlers, ReadSegments(h)
    PROVE  /\ StepBy(h, "readsegments", <<>>)
           /\ Quiet
           /\ handler[h].wr.loc # NoLoc /\ Now(h).loc = handler[h].wr.loc
           /\ handler'[h].wr = [handler[h].wr EXCEPT !.segs = readSegmentInfo(Now(h).loc)]
<1> DEFINE m == handler[h]
           sg == readSegmentInfo(Now(h).loc)
           w == [m.wr EXCEPT !.segs = sg]
<1>1. /\ At(h, "readsegments") /\ Quiet /\ UNCHANGED bounds
      /\ handler' = [handler EXCEPT ![h] = [Then(h, <<>>) EXCEPT !.wr.segs = sg]]
  BY DEF ReadSegments, Quiet
<1>2. Now(h) \in TaskSet(m.op, m.wr.loc, nextLoc, written) /\ Now(h).do = "readsegments"
  BY <1>1, AtTask DEF At, Now, FlushTasks
<1>3. m.wr.loc # NoLoc /\ Now(h).loc = m.wr.loc
  BY <1>2 DEF TaskSet, WriterTasks
<1>4. m \in HandlerRec /\ m.wr \in WriterRec
  BY <1>3, HandlerTypes, WriterFacts
<1> HIDE DEF sg
<1>5. [Then(h, <<>>) EXCEPT !.wr.segs = sg] = [Then(h, <<>>) EXCEPT !.wr = w]
  BY <1>4 DEF Then, HandlerRec
<1>6. w.loc = m.wr.loc /\ w.path = m.wr.path
  BY <1>4 DEF WriterRec
<1> HIDE DEF w
<1>7. StepBy(h, "readsegments", <<>>) /\ handler'[h].wr = w
  BY <1>1, <1>3, <1>5, <1>6, WriterBy DEF bounds
<1> QED BY <1>1, <1>3, <1>7 DEF w, sg

PutFlush(h) ==
    LET m == handler[h]
        num == IF m.wr.segs = <<>> THEN 1 ELSE Last(m.wr.segs).num + 1
    IN  /\ objects' = PutObject(Plain(m.wr.loc, num, <<m.wr.buf>>))
        /\ UNCHANGED <<files, segments>>
        /\ m.wr.loc # NoLoc /\ m.op \in {"write", "commit", "close", "cancel"}
        /\ handler'[h].wr = [m.wr EXCEPT !.segs =
                               Append(m.wr.segs, [num |-> num, unit |-> m.wr.buf])]
        /\ Len(handler'[h].wr.segs) = Len(m.wr.segs) + 1
        /\ handler'[h].wr.err = m.wr.err
        /\ handler'[h].wr.committed = m.wr.committed
        /\ handler'[h].wr.lost = m.wr.lost

LEMMA PutSegmentFacts ==
    ASSUME StoreInv, NEW h \in Handlers, Shape(handler[h]), PutSegment(h)
    PROVE  StepBy(h, "putsegment", <<>>) /\ PutFlush(h)
<1> DEFINE m == handler[h]
           num == IF m.wr.segs = <<>> THEN 1 ELSE Last(m.wr.segs).num + 1
           sg == Append(m.wr.segs, [num |-> num, unit |-> m.wr.buf])
           w == [m.wr EXCEPT !.segs = sg]
<1>1. /\ At(h, "putsegment") /\ UNCHANGED <<files, segments, bounds>>
      /\ objects' = PutObject(Plain(m.wr.loc, num, <<m.wr.buf>>))
      /\ handler' = [handler EXCEPT ![h] = [Then(h, <<>>) EXCEPT !.wr.segs =
                       Append(@, [num |-> num, unit |-> m.wr.buf])]]
  BY DEF PutSegment
<1>2. m.wr.loc # NoLoc
  <2>1. HandlerOK(m, nextLoc, nextUnit, written, segments)
    BY DEF StoreInv
  <2>2. m.todo # <<>> /\ Head(m.todo).do = "putsegment"
    BY <1>1 DEF At
  <2>3. m.todo \notin Seq(TaskSet(m.op, m.wr.loc, nextLoc, written))
    <3> SUFFICES ASSUME m.todo \in Seq(TaskSet(m.op, m.wr.loc, nextLoc, written))
                 PROVE FALSE
      OBVIOUS
    <3>1. Head(m.todo) \in TaskSet(m.op, m.wr.loc, nextLoc, written)
      BY <2>2
    <3> QED BY <2>2, <3>1 DEF TaskSet, FlushTasks
  <2> QED BY <2>1, <2>3 DEF HandlerOK, Flushing
<1>3. m.op \in {"write", "commit", "close", "cancel"}
  <2>1. Head(m.todo) \in TasksOf(m.todo) /\ Head(m.todo).do = "putsegment"
    BY <1>1, HandlerTypes, TasksHead DEF At
  <2>2. "putsegment" \in KindsOf(m.op) \cup {"return"}
    BY <2>1 DEF Shape, TaskShape
  <2>3. m.op \in Ops
    BY HandlerTypes DEF HandlerRec
  <2> QED BY <2>2, <2>3, KindsTable DEF Ops, Deleting
<1>4. m \in HandlerRec /\ m.wr \in WriterRec /\ m.wr.segs \in Seq(Part)
  BY <1>2, HandlerTypes, WriterFacts DEF WriterRec
<1>5. Len(sg) = Len(m.wr.segs) + 1
  BY <1>4
<1>6. Then(h, <<>>).wr = m.wr
  BY <1>4 DEF Then, HandlerRec
<1> HIDE DEF num
<1>7. [Then(h, <<>>) EXCEPT !.wr.segs = Append(@, [num |-> num, unit |-> m.wr.buf])]
        = [Then(h, <<>>) EXCEPT !.wr = w]
  BY <1>4, <1>6 DEF Then, HandlerRec, WriterRec
<1> HIDE DEF sg
<1>8. /\ w.loc = m.wr.loc /\ w.path = m.wr.path /\ w.segs = sg
      /\ w.err = m.wr.err /\ w.committed = m.wr.committed /\ w.lost = m.wr.lost
  BY <1>4 DEF WriterRec
<1> HIDE DEF w
<1>9. StepBy(h, "putsegment", <<>>) /\ handler'[h].wr = w
  BY <1>1, <1>2, <1>7, <1>8, WriterBy DEF bounds
<1>10. PutFlush(h)
  BY <1>1, <1>2, <1>3, <1>5, <1>8, <1>9 DEF PutFlush, w, sg, num
<1> QED BY <1>9, <1>10

RecordFlush(h) ==
    LET m == handler[h]
        s == Last(m.wr.segs)
    IN  /\ segments' = segments \cup {[loc |-> m.wr.loc, num |-> s.num, unit |-> s.unit]}
        /\ UNCHANGED <<files, objects>>
        /\ m.wr.loc # NoLoc
        /\ handler'[h].wr.segs = m.wr.segs
        /\ handler'[h].wr.err = m.wr.err
        /\ handler'[h].wr.committed = m.wr.committed
        /\ handler'[h].wr.lost = m.wr.lost

LEMMA RecordSegmentFacts ==
    ASSUME StoreInv, NEW h \in Handlers, RecordSegment(h)
    PROVE  StepBy(h, "recordsegment", <<>>) /\ RecordFlush(h)
<1> DEFINE m == handler[h]
           w == [m.wr EXCEPT !.buf = NoUnit]
<1>1. /\ At(h, "recordsegment") /\ UNCHANGED <<files, objects, bounds>>
      /\ segments' = segments \cup {[loc |-> m.wr.loc, num |-> Last(m.wr.segs).num,
                                     unit |-> Last(m.wr.segs).unit]}
      /\ handler' = [handler EXCEPT ![h] = [Then(h, <<>>) EXCEPT !.wr.buf = NoUnit]]
  BY DEF RecordSegment
<1>2. m.wr.loc # NoLoc
  BY <1>1, RecordFacts
<1>3. m \in HandlerRec /\ m.wr \in WriterRec
  BY <1>2, HandlerTypes, WriterFacts
<1>4. [Then(h, <<>>) EXCEPT !.wr.buf = NoUnit] = [Then(h, <<>>) EXCEPT !.wr = w]
  BY <1>3 DEF Then, HandlerRec
<1>5. /\ w.loc = m.wr.loc /\ w.path = m.wr.path /\ w.segs = m.wr.segs
      /\ w.err = m.wr.err /\ w.committed = m.wr.committed /\ w.lost = m.wr.lost
  BY <1>3 DEF WriterRec
<1> HIDE DEF w
<1>6. StepBy(h, "recordsegment", <<>>) /\ handler'[h].wr = w
  BY <1>1, <1>2, <1>4, <1>5, WriterBy DEF bounds
<1> QED BY <1>1, <1>2, <1>5, <1>6 DEF RecordFlush

(* The steps that replace the head of the list by nothing. *)
LEMMA DoneFacts ==
    ASSUME StoreInv, NEW h \in Handlers, NEW do, At(h, do), Continue(h, <<>>),
           UNCHANGED bounds
    PROVE  StepBy(h, do, <<>>) /\ handler'[h].wr = handler[h].wr
  BY ContinueBy, EmptyTasks, OrderedOne

(* The steps that look at one row and may have to delete it. *)
LEMMA RowFacts ==
    ASSUME StoreInv, NEW h \in Handlers, NEW do, At(h, do), NEW p \in Paths,
           Continue(h, IF files[p] = NoRow THEN <<>> ELSE deleteDownwards(p, files[p])),
           UNCHANGED bounds
    PROVE  \E tasks :
             /\ StepBy(h, do, tasks) /\ handler'[h].wr = handler[h].wr
             /\ tasks = IF files[p] = NoRow THEN <<>> ELSE deleteDownwards(p, files[p])
             /\ TasksOf(tasks) = IF files[p] = NoRow THEN {} ELSE DownTasks(p, files[p])
             /\ \A t \in TasksOf(tasks) : t.do \in Deleting
<1>1. CASE files[p] = NoRow
  <2>1. Continue(h, <<>>)
    BY <1>1
  <2>2. StepBy(h, do, <<>>) /\ handler'[h].wr = handler[h].wr
    BY <2>1, DoneFacts
  <2> QED BY <1>1, <2>2, TasksOne
<1>2. CASE files[p] # NoRow
  <2> DEFINE q == deleteDownwards(p, files[p])
  <2>1. Continue(h, q)
    BY <1>2
  <2>2. /\ q \in Seq(AnyTask) /\ Ordered(q) /\ TasksOf(q) = DownTasks(p, files[p])
        /\ \A t \in TasksOf(q) : t.do \in Deleting
    BY <1>2, DownReturn
  <2> HIDE DEF q
  <2>3. StepBy(h, do, q) /\ handler'[h].wr = handler[h].wr
    BY <2>1, <2>2, ContinueBy
  <2> QED BY <1>2, <2>2, <2>3 DEF q
<1> QED BY <1>1, <1>2

(* The tasks q delete the rows in xs one after the other. *)
EachDown(xs, q) ==
    /\ q \in Seq(AnyTask) /\ Ordered(q)
    /\ \A t \in TasksOf(q) : \E x \in xs : t \in DownTasks(x, files[x])
    /\ \A x \in xs : \E i : Block(q, i, deleteDownwards(x, files[x]))
    /\ \A n \in 1..Len(q) : \E x \in xs, i \in Nat :
         /\ Block(q, i, deleteDownwards(x, files[x]))
         /\ n - i \in 1..Len(deleteDownwards(x, files[x]))
    /\ \A t \in TasksOf(q) : t.do \in Deleting

(* Some or all of the rows of the directory d are to be deleted. *)
Children(h, d, xs, tasks) ==
    /\ StepBy(h, "children", tasks) /\ handler'[h].wr = handler[h].wr
    /\ xs \subseteq List(d)
    /\ EachDown(xs, tasks)

LEMMA EachFacts ==
    ASSUME StoreInv, NEW d, NEW xs \in SUBSET List(d), NEW order \in SetToSeqs(xs)
    PROVE  EachDown(xs, deleteEach(order))
<1> DEFINE D(x) == deleteDownwards(x, files[x])
<1>3. /\ order \in Seq(xs) /\ DOMAIN order = 1..Len(order)
      /\ \A x \in xs : \E i \in 1..Len(order) : order[i] = x
  <2>1. xs \in SUBSET Paths
    BY DEF List
  <2>2. IsFiniteSet(xs)
    BY <2>1, SwiftPlusAssumption, FS_Subset
  <2> QED BY <2>2, Enumeration
<1>4. ASSUME NEW x \in xs
      PROVE  /\ D(x) \in Seq(AnyTask) /\ TasksOf(D(x)) = DownTasks(x, files[x])
             /\ \A t \in TasksOf(D(x)) : t.do \in Deleting
             /\ DOMAIN D(x) = 1..Len(D(x))
  <2>1. x \in Paths /\ files[x] # NoRow
    BY DEF List
  <2>2. D(x) \in Seq(AnyTask)
    BY <2>1, DownReturn
  <2> QED BY <2>1, <2>2, DownReturn
<1> HIDE DEF D
<1> DEFINE ss == [i \in 1..Len(order) |-> D(order[i])]
           q == FlattenSeq(ss)
<1>5. deleteEach(order) = q
  BY <1>3 DEF deleteEach, D
<1>6. /\ ss \in Seq(Seq(AnyTask)) /\ Len(ss) = Len(order)
      /\ \A i \in 1..Len(order) : ss[i] = D(order[i]) /\ order[i] \in xs
  <2>1. \A i \in 1..Len(order) : order[i] \in xs /\ D(order[i]) \in Seq(AnyTask)
    BY <1>3, <1>4
  <2>2. Len(order) \in Nat
    BY <1>3
  <2> QED BY <2>1, <2>2
<1> HIDE DEF ss
<1>7. /\ q \in Seq(AnyTask)
      /\ \A k \in 1..Len(ss) : \E i : Block(q, i, ss[k])
      /\ \A n \in 1..Len(q) : \E k \in 1..Len(ss), i \in Nat :
           Block(q, i, ss[k]) /\ n - i \in 1..Len(ss[k])
  BY <1>6, FlattenBlocks
<1> HIDE DEF q
<1>8. \A x \in xs : \E i : Block(q, i, D(x))
  <2> TAKE x \in xs
  <2>1. PICK k \in 1..Len(order) : order[k] = x
    BY <1>3
  <2>2. \E i : Block(q, i, ss[k])
    BY <1>6, <1>7
  <2> QED BY <2>1, <2>2, <1>6
<1>9. \A n \in 1..Len(q) : \E x \in xs, i \in Nat :
         Block(q, i, D(x)) /\ n - i \in 1..Len(D(x))
  <2> TAKE n \in 1..Len(q)
  <2>1. PICK k \in 1..Len(ss), i \in Nat : Block(q, i, ss[k]) /\ n - i \in 1..Len(ss[k])
    BY <1>7
  <2>2. ss[k] = D(order[k]) /\ order[k] \in xs
    BY <1>6
  <2> QED BY <2>1, <2>2
<1>10. \A t \in TasksOf(q) : \E x \in xs : t \in TasksOf(D(x))
  <2> TAKE t \in TasksOf(q)
  <2>1. PICK n \in 1..Len(q) : t = q[n]
    BY <1>7 DEF TasksOf
  <2>2. PICK x \in xs, i \in Nat : Block(q, i, D(x)) /\ n - i \in 1..Len(D(x))
    BY <1>9
  <2>3. i + (n - i) = n
    BY <2>1, <2>2, <1>7
  <2>4. q[i + (n - i)] = D(x)[n - i]
    BY <2>2 DEF Block
  <2>5. t = D(x)[n - i] /\ n - i \in DOMAIN D(x)
    BY <2>1, <2>2, <2>3, <2>4, <1>4
  <2>6. t \in TasksOf(D(x))
    BY <2>5 DEF TasksOf
  <2> QED BY <2>6
<1>11. /\ \A t \in TasksOf(q) : \E x \in xs : t \in DownTasks(x, files[x])
       /\ \A t \in TasksOf(q) : t.do \in Deleting
  BY <1>4, <1>10
<1>12. Ordered(q)
  <2>1. \A i, j \in DOMAIN q : q[i] \in TasksOf(q) /\ q[j] \in TasksOf(q)
    BY DEF TasksOf
  <2>2. \A i, j \in DOMAIN q : q[j].do \in After(q[i].do)
    BY <2>1, <1>11, AfterTable
  <2> QED BY <2>2 DEF Ordered
<1> QED BY <1>5, <1>7, <1>8, <1>9, <1>11, <1>12 DEF EachDown, D

LEMMA ChildrenFacts ==
    ASSUME StoreInv, NEW h \in Handlers, DeleteChildren(h)
    PROVE  Quiet /\ \E tasks : Children(h, Now(h).path, List(Now(h).path), tasks)
<1> DEFINE d == Now(h).path
<1>1. /\ At(h, "children") /\ Quiet /\ UNCHANGED bounds
  BY DEF DeleteChildren, Quiet
<1>2. PICK order \in SetToSeqs(List(d)) : Continue(h, deleteEach(order))
  BY DEF DeleteChildren
<1> DEFINE q == deleteEach(order)
<1>3. EachDown(List(d), q)
  BY EachFacts
<1>4. Continue(h, q)
  BY <1>2
<1> HIDE DEF q
<1>5. StepBy(h, "children", q) /\ handler'[h].wr = handler[h].wr
  BY <1>1, <1>3, <1>4, ContinueBy DEF EachDown
<1> QED BY <1>1, <1>3, <1>5 DEF Children

(* The loop over the rows of a directory is cut short. *)
LEMMA CutChildrenFacts ==
    ASSUME StoreInv, NEW h \in Handlers, CutShort(h), CutChildren(h)
    PROVE  /\ Quiet /\ handler[h].op = "delete" /\ handler'[h].val = Unknown
           /\ \E xs, tasks : Children(h, Now(h).path, xs, tasks)
<1> DEFINE d == Now(h).path
           m == handler[h]
<1>1. /\ At(h, "children") /\ Quiet /\ nextLoc' = nextLoc /\ m.op = "delete"
  BY DEF CutShort, CutChildren, Quiet
<1>2. PICK xs \in SUBSET List(d) : \E order \in SetToSeqs(xs) :
        handler' = [handler EXCEPT ![h] =
                      [Then(h, deleteEach(order)) EXCEPT !.val = Unknown]]
  BY DEF CutChildren
<1>3. PICK order \in SetToSeqs(xs) :
        handler' = [handler EXCEPT ![h] =
                      [Then(h, deleteEach(order)) EXCEPT !.val = Unknown]]
  BY <1>2
<1> DEFINE q == deleteEach(order)
           r == q \o Tail(m.todo)
           k == [[m EXCEPT !.todo = r] EXCEPT !.val = Unknown]
<1>4. EachDown(xs, q)
  BY EachFacts
<1>5. handler' = [handler EXCEPT ![h] = k]
  BY <1>3 DEF Then
<1> HIDE DEF q
<1>6. /\ k.op = m.op /\ k.path = m.path /\ k.dest = m.dest /\ k.wr = m.wr
      /\ k.todo = r /\ k.val = Unknown
  <2> HIDE DEF r
  <2> QED BY HandlerTypes DEF HandlerRec
<1> HIDE DEF k
<1>7. handler'[h] = k /\ Alone(h)
  BY <1>5 DEF StoreInv, Alone
<1>8. StepBy(h, "children", q)
  BY <1>1, <1>4, <1>6, <1>7 DEF StepBy, SameCall, EachDown
<1> QED BY <1>1, <1>4, <1>6, <1>7, <1>8 DEF Children

(* The loop over the rows of a location is cut short. *)
LEMMA CutSegmentsFacts ==
    ASSUME StoreInv, NEW h \in Handlers, CutShort(h), CutSegments(h)
    PROVE  /\ StepBy(h, "readsegments", <<>>)
           /\ Quiet
           /\ handler[h].wr.loc # NoLoc
           /\ handler'[h].wr.lost
           /\ handler'[h].wr.path = handler[h].wr.path
           /\ handler'[h].wr.base = Unknown
           /\ handler'[h].wr.committed = handler[h].wr.committed
           /\ handler'[h].val = handler[h].val
<1> DEFINE m == handler[h]
           rows == readSegmentInfo(Now(h).loc)
<1>1. At(h, "readsegments") /\ Quiet /\ nextLoc' = nextLoc
  BY DEF CutShort, CutSegments, Quiet
<1>2. PICK n \in 0..Len(rows) - 1 :
        handler' = [handler EXCEPT ![h] = [Then(h, <<>>) EXCEPT
           !.wr.segs = SubSeq(rows, 1, n), !.wr.lost = TRUE, !.wr.base = Unknown]]
  BY DEF CutSegments
<1> DEFINE sg == SubSeq(rows, 1, n)
           w == [m.wr EXCEPT !.segs = sg, !.lost = TRUE, !.base = Unknown]
<1>3. handler' = [handler EXCEPT ![h] = [Then(h, <<>>) EXCEPT
           !.wr.segs = sg, !.wr.lost = TRUE, !.wr.base = Unknown]]
  BY <1>2
<1>4. Now(h) \in TaskSet(m.op, m.wr.loc, nextLoc, written) /\ Now(h).do = "readsegments"
  BY <1>1, AtTask DEF At, Now, FlushTasks
<1>5. m.wr.loc # NoLoc
  BY <1>4 DEF TaskSet, WriterTasks
<1>6. m \in HandlerRec /\ m.wr \in WriterRec
  BY <1>5, HandlerTypes, WriterFacts
<1> HIDE DEF sg
<1>7. [Then(h, <<>>) EXCEPT !.wr.segs = sg, !.wr.lost = TRUE, !.wr.base = Unknown]
        = [Then(h, <<>>) EXCEPT !.wr = w]
  BY <1>6 DEF Then, HandlerRec, WriterRec
<1>8. /\ w.loc = m.wr.loc /\ w.path = m.wr.path /\ w.lost /\ w.base = Unknown
      /\ w.committed = m.wr.committed
  BY <1>6 DEF WriterRec
<1>9. handler' = [handler EXCEPT ![h] = [Then(h, <<>>) EXCEPT !.wr = w]]
  BY <1>3, <1>7
<1> HIDE DEF w
<1>10. StepBy(h, "readsegments", <<>>) /\ handler'[h].wr = w
  BY <1>1, <1>5, <1>8, <1>9, WriterBy
<1>11. handler'[h].val = m.val
  BY <1>6, <1>9 DEF Then, HandlerRec, StoreInv
<1> QED BY <1>1, <1>5, <1>8, <1>10, <1>11

ManifestRow(w) == [size |-> Len(w.segs), data |-> <<>>, loc |-> w.loc]

LEMMA WriteSLOFacts ==
    ASSUME StoreInv, NEW h \in Handlers, WriteSLO(h)
    PROVE  LET w == handler[h].wr
           IN  /\ objects' = PutObject(Manifest(w.loc, w.segs))
               /\ UNCHANGED <<files, segments>>
               /\ w.loc # NoLoc
               /\ handler'[h].wr = w
               /\ StepBy(h, "manifest", writeFileInfo(w.path, ManifestRow(w)))
               /\ TasksOf(writeFileInfo(w.path, ManifestRow(w)))
                    = RowTasks(w.path, ManifestRow(w))
<1> DEFINE w == handler[h].wr
           n == Len(w.segs)
           row == [size |-> n, data |-> <<>>, loc |-> w.loc]
           tasks == writeFileInfo(w.path, row)
<1>1. /\ At(h, "manifest") /\ Continue(h, tasks)
      /\ objects' = PutObject(Manifest(w.loc, w.segs))
      /\ written' = written \cup {Contents(w)}
      /\ UNCHANGED <<files, segments, bounds>>
  BY DEF WriteSLO
<1>2. w.loc # NoLoc
  <2>1. Now(h).do = "manifest" /\ handler[h].todo # <<>> /\ Now(h).do \notin FlushTasks
    BY <1>1 DEF At, Now, FlushTasks
  <2> QED BY <2>1, AtTask DEF TaskSet, WriterTasks
<1>3. /\ w \in WriterRec /\ w.loc \in 1..nextLoc /\ n \in 0..MaxUnits
      /\ Contents(w) \in Contentses
      /\ Contents(w) \in [1..n -> 1..nextUnit]
  BY <1>2, WriterFacts, ContentsFacts, BoundsNat
<1>4. row \in FileRow(nextLoc, written')
  <2>1. row \in Row
    BY <1>3, EmptyContents, BoundsNat DEF Row
  <2>2. n = 0 => Contents(w) = <<>>
    BY <1>3
  <2> QED BY <1>1, <1>3, <2>1, <2>2, BoundsNat DEF FileRow
<1>5. w.path \in Files
  BY <1>3 DEF WriterRec, Files
<1> HIDE DEF row
<1>6. /\ tasks \in Seq(AnyTask) /\ TasksOf(tasks) = RowTasks(w.path, row)
      /\ Ordered(tasks)
  BY <1>4, <1>5, BoundsNat, WriteTasks
<1> HIDE DEF tasks
<1>7. StepBy(h, "manifest", tasks) /\ handler'[h].wr = w
  BY <1>1, <1>6, ContinueBy
<1> QED BY <1>1, <1>2, <1>6, <1>7 DEF tasks, row, ManifestRow

LEMMA ListFacts ==
    ASSUME StoreInv, NEW h \in Handlers, ListObjects(h)
    PROVE  \E b, tasks :
             /\ StepBy(h, "list", tasks) /\ handler'[h].wr = handler[h].wr
             /\ TasksOf(tasks) = {b} /\ tasks = <<b>>
             /\ b.do = "bulkdelete" /\ b.loc = Now(h).loc
             /\ \A o \in objects : o.loc = b.loc => o.num \in b.nums
             /\ Quiet
<1> DEFINE l == Now(h).loc
           ns == {o.num : o \in {x \in objects : x.loc = l}}
           b == [do |-> "bulkdelete", loc |-> l, nums |-> ns]
<1>1. At(h, "list") /\ Continue(h, <<b>>) /\ Quiet /\ UNCHANGED bounds
  BY DEF ListObjects, Quiet
<1>2. l \in Nat
  BY <1>1, AtTask, BoundsNat DEF TaskSet, FlushTasks, At, Now
<1>3. ns \in SUBSET Nat
  BY SwiftPlusAssumption DEF StoreInv, ObjectsOK, ObjectRec
<1>4. \A o \in objects : o.loc = l => o.num \in ns
  OBVIOUS
<1> HIDE DEF l, ns
<1>5. b \in AnyTask /\ b.do = "bulkdelete" /\ b.loc = l /\ b.nums = ns
  BY <1>2, <1>3 DEF AnyTask, BulkTask
<1> HIDE DEF b
<1>6. <<b>> \in Seq(AnyTask) /\ Ordered(<<b>>) /\ TasksOf(<<b>>) = {b}
  BY <1>5, OrderedOne, TasksOne
<1>7. StepBy(h, "list", <<b>>) /\ handler'[h].wr = handler[h].wr
  BY <1>1, <1>6, ContinueBy
<1> QED BY <1>1, <1>4, <1>5, <1>6, <1>7 DEF l

LEMMA MakeDirFacts ==
    ASSUME StoreInv, NEW h \in Handlers, MakeDir(h)
    PROVE  LET d == Now(h).path
           IN  /\ d \in Dirs /\ d \in Paths
               /\ StepBy(h, "mkdir", mkdirAll(Parent[d]))
               /\ handler'[h].wr = handler[h].wr
               /\ TasksOf(mkdirAll(Parent[d])) = DirTasks(Parent[d])
               /\ UNCHANGED <<segments, objects>>
               /\ files' = [files EXCEPT ![d] = IF files[d] = NoRow THEN DirRow
                                                ELSE files[d]]
<1> DEFINE d == Now(h).path
<1>1. /\ At(h, "mkdir") /\ Continue(h, mkdirAll(Parent[d])) /\ UNCHANGED bounds
      /\ UNCHANGED <<segments, objects>>
      /\ files' = [files EXCEPT ![d] = IF files[d] = NoRow THEN DirRow ELSE files[d]]
  BY DEF MakeDir
<1>2. d \in Dirs /\ d \in Paths
  BY <1>1, AtTask DEF TaskSet, FlushTasks, At, Now, Dirs
<1>3. Parent[d] \in Dirs \cup {Root}
  BY <1>2, SwiftPlusAssumption
<1> QED BY <1>1, <1>2, <1>3, MakeTasks, ContinueBy

(* The end of a call that succeeds. *)
FinishRec(h) ==
    LET m == handler[h]
        k == handler'[h]
    IN  /\ At(h, "return")
        /\ Alone(h) /\ Quiet /\ nextLoc' = nextLoc /\ faults' = faults
        /\ IdleRec(k)
        /\ cancelled' = IF m.op = "cancel" THEN cancelled \cup {m.wr.loc}
                        ELSE cancelled
        /\ m.op \in {"create", "append", "write", "commit"} =>
             /\ m.wr.loc # NoLoc
             /\ k.wr.loc = m.wr.loc /\ k.wr.path = m.wr.path
             /\ k.wr.segs = m.wr.segs /\ k.wr.err = m.wr.err
             /\ k.wr.committed = (m.wr.committed \/ m.op = "commit")
             /\ k.wr.lost = m.wr.lost
        /\ m.op \notin {"create", "append", "write", "commit"} =>
             k.wr = NoWriter

LEMMA FinishFacts ==
    ASSUME StoreInv, NEW h \in Handlers, Finish(h)
    PROVE  FinishRec(h)
<1> DEFINE m == handler[h]
           w == IF m.op = "write" THEN [m.wr EXCEPT !.buf = m.val[1]]
                ELSE IF m.op = "commit" THEN [m.wr EXCEPT !.committed = TRUE]
                ELSE m.wr
           keep == m.op \in {"create", "append", "write", "commit"}
           k == IF keep THEN [IdleHandler EXCEPT !.wr = w] ELSE IdleHandler
<1>1. /\ At(h, "return")
      /\ handler' = [handler EXCEPT ![h] = k]
      /\ cancelled' = IF m.op = "cancel" THEN cancelled \cup {m.wr.loc}
                      ELSE cancelled
      /\ Quiet /\ nextLoc' = nextLoc /\ faults' = faults
  BY DEF Finish, Quiet, bounds
<1>2. handler'[h] = k /\ Alone(h)
  BY <1>1 DEF StoreInv, Alone
<1>3. keep => m.wr.loc # NoLoc
  BY DEF StoreInv, HandlerOK, WriterOps, NoLoc
<1>4. keep => /\ w.loc = m.wr.loc /\ w.path = m.wr.path
              /\ w.segs = m.wr.segs /\ w.err = m.wr.err
              /\ w.committed = (m.wr.committed \/ m.op = "commit")
              /\ w.lost = m.wr.lost
  BY <1>3, WriterFacts DEF WriterRec
<1> HIDE DEF w
<1>5. IdleRec(k) /\ (keep => k.wr = w) /\ (~keep => k.wr = NoWriter)
  BY IdleWith
<1> HIDE DEF k
<1> QED BY <1>1, <1>2, <1>3, <1>4, <1>5 DEF FinishRec

LEMMA KindsFacts ==
    ASSUME NEW op \in Ops
    PROVE  /\ "list" \in KindsOf(op) => "bulkdelete" \in KindsOf(op)
           /\ {"children", "target", "delete"} \cap KindsOf(op) # {} =>
                Deleting \subseteq KindsOf(op)
           /\ "manifest" \in KindsOf(op) =>
                op \in {"commit", "close"} /\ {"upsert", "mkdir"} \subseteq KindsOf(op)
           /\ KindsOf(op) \cap {"target", "rename"} # {} => op = "move"
           /\ "delete" \in KindsOf(op) => op = "cancel"
           /\ "upload" \in KindsOf(op) => op = "put"
           /\ "upsert" \in KindsOf(op) => op \in {"put", "commit", "close"}
           /\ "unlink" \in KindsOf(op) => op \in {"move", "delete", "create", "cancel"}
           /\ "readsegments" \in KindsOf(op) => op = "append"
           /\ KindsOf(op) \cap FlushTasks # {} =>
                op \in {"write", "commit", "close", "cancel"}
           /\ "mkdir" \in KindsOf(op) => op \in {"put", "move", "commit", "close"}
  BY KindsTable DEF Ops, Deleting, FlushTasks

(* A step whose new tasks fit the call keeps its shape. *)
LEMMA StepShape ==
    ASSUME StoreInv, NEW h \in Handlers, Shape(handler[h]), NEW do, NEW tasks,
           StepBy(h, do, tasks),
           \A a \in TasksOf(tasks) :
             /\ a.do # "upload"
             /\ After(do) \subseteq After(a.do)
             /\ TaskShape(handler'[h], a)
    PROVE  Alone(h) /\ Shape(handler'[h])
<1> DEFINE m == handler[h]
           k == handler'[h]
<1>1. /\ m.todo # <<>> /\ m.todo \in Seq(AnyTask) /\ Head(m.todo).do = do
  BY StepTodo
<1>2. /\ Alone(h) /\ SameCall(m, k) /\ tasks \in Seq(AnyTask) /\ Ordered(tasks)
      /\ k.todo = tasks \o Tail(m.todo)
  BY DEF StepBy
<1>3. Shape(m)
  OBVIOUS
<1> HIDE DEF m, k
<1>4. \A a \in TasksOf(tasks) :
        /\ a.do # "upload"
        /\ After(Head(m.todo).do) \subseteq After(a.do)
        /\ TaskShape(k, a)
  BY <1>1 DEF k
<1>5. Shape(k)
  BY <1>1, <1>2, <1>3, <1>4, ShapeThen
<1> QED BY <1>2, <1>5 DEF k

LEMMA DoneShape ==
    ASSUME StoreInv, NEW h \in Handlers, Shape(handler[h]), NEW do,
           StepBy(h, do, <<>>)
    PROVE  Alone(h) /\ Shape(handler'[h])
  BY StepShape, TasksOne

(* The head of the list fits the call. *)
LEMMA NowShape ==
    ASSUME StoreInv, NEW h \in Handlers, Shape(handler[h]), NEW do, NEW tasks,
           StepBy(h, do, tasks)
    PROVE  /\ TaskShape(handler[h], Now(h)) /\ Now(h).do = do
           /\ do \in KindsOf(handler[h].op) \cup {"return"}
           /\ handler[h].op \in Ops
           /\ SameCall(handler[h], handler'[h])
           /\ ClaimsOf(handler'[h]) = ClaimsOf(handler[h])
           /\ RegionOf(handler'[h]) = RegionOf(handler[h])
<1>1. Now(h).do = do /\ Now(h) \in TasksOf(handler[h].todo)
  BY StepTodo
<1>2. TaskShape(handler[h], Now(h))
  BY <1>1 DEF Shape
<1>3. handler[h].op \in Ops
  BY HandlerTypes DEF HandlerRec
<1>4. SameCall(handler[h], handler'[h])
  BY DEF StepBy
<1> QED BY <1>1, <1>2, <1>3, <1>4, SameClaims DEF TaskShape

LEMMA ListShape ==
    ASSUME StoreInv, NEW h \in Handlers, Shape(handler[h]), ListObjects(h)
    PROVE  Alone(h) /\ Shape(handler'[h])
<1>1. PICK b, tasks :
        /\ StepBy(h, "list", tasks) /\ TasksOf(tasks) = {b}
        /\ b.do = "bulkdelete"
  BY ListFacts
<1>2. "bulkdelete" \in KindsOf(handler'[h].op)
  BY <1>1, NowShape, KindsFacts DEF SameCall
<1>3. TaskShape(handler'[h], b)
  BY <1>1, <1>2 DEF TaskShape, FlushTasks
<1>4. After("list") \subseteq After("bulkdelete")
  BY AfterTable DEF Deleting
<1> QED BY <1>1, <1>3, <1>4, StepShape

(* New tasks that delete what is in the region. *)
LEMMA DownStepShape ==
    ASSUME StoreInv, NEW h \in Handlers, Shape(handler[h]), NEW do, NEW tasks,
           StepBy(h, do, tasks), do \in {"children", "target", "delete"},
           \A t \in TasksOf(tasks) :
             /\ t.do \in Deleting
             /\ \E x \in RegionOf(handler[h]) : t \in DownTasks(x, files[x])
    PROVE  Alone(h) /\ Shape(handler'[h])
<1>1. Deleting \subseteq KindsOf(handler'[h].op)
        /\ RegionOf(handler'[h]) = RegionOf(handler[h])
  BY NowShape, KindsFacts DEF SameCall
<1>2. ASSUME NEW t \in TasksOf(tasks) PROVE TaskShape(handler'[h], t)
  <2>1. PICK x \in RegionOf(handler'[h]) : t \in DownTasks(x, files[x])
    BY <1>1
  <2>2. {"list", "children", "unlink"} \subseteq KindsOf(handler'[h].op)
    BY <1>1 DEF Deleting
  <2> QED BY <2>1, <2>2, DownShape
<1>3. \A t \in TasksOf(tasks) : t.do # "upload" /\ After(do) \subseteq After(t.do)
  BY AfterTable DEF Deleting
<1> QED BY <1>2, <1>3, StepShape

LEMMA RegionDown ==
    ASSUME NEW k, NEW d \in RegionOf(k), NEW x \in Paths, Parent[x] = d
    PROVE  x \in RegionOf(k)
  BY AboveParent DEF RegionOf

LEMMA ChildrenShape ==
    ASSUME StoreInv, NEW h \in Handlers, Shape(handler[h]), NEW xs, NEW tasks,
           Children(h, Now(h).path, xs, tasks)
    PROVE  Alone(h) /\ Shape(handler'[h])
<1>2. /\ StepBy(h, "children", tasks)
      /\ \A t \in TasksOf(tasks) :
           /\ t.do \in Deleting
           /\ \E x \in List(Now(h).path) : t \in DownTasks(x, files[x])
  BY DEF Children, EachDown
<1>3. Now(h).path \in RegionOf(handler[h])
  BY <1>2, NowShape DEF TaskShape
<1>4. \A x \in List(Now(h).path) : x \in RegionOf(handler[h])
  BY <1>3, RegionDown DEF List
<1> QED BY <1>2, <1>4, DownStepShape

(* The paths that target and delete are about are claimed. *)
LEMMA NowClaimed ==
    ASSUME StoreInv, NEW h \in Handlers, Shape(handler[h]),
           At(h, "target") \/ At(h, "delete")
    PROVE  /\ Now(h).path \in ClaimsOf(handler[h]) /\ Now(h).path \in Paths
           /\ Now(h).path \in RegionOf(handler[h])
           /\ Now(h).path \in Files
<1>1. Now(h) \in TaskSet(handler[h].op, handler[h].wr.loc, nextLoc, written)
      /\ Now(h).do \in {"target", "delete"}
  BY AtTask DEF At, Now, FlushTasks
<1>2. Now(h).path \in Paths /\ Now(h).path # Root /\ Now(h).path \in Files
  BY <1>1, SwiftPlusAssumption DEF TaskSet, Files
<1>3. Now(h) \in TasksOf(handler[h].todo)
  BY HandlerTypes, TasksHead DEF At, Now
<1>4. TaskShape(handler[h], Now(h))
  BY <1>3 DEF Shape
<1>5. Now(h).path \in ClaimsOf(handler[h])
  BY <1>1, <1>2, <1>4 DEF TaskShape, ClaimsOf, TaskSet, WriterTasks
<1> QED BY <1>2, <1>5, OwnRegion

LEMMA ReadRowShape ==
    ASSUME StoreInv, NEW h \in Handlers, Shape(handler[h]),
           ReadTarget(h) \/ ReadForDelete(h)
    PROVE  Alone(h) /\ Shape(handler'[h])
<1> DEFINE p == Now(h).path
<1>1. PICK do \in {"target", "delete"} :
        /\ At(h, do) /\ UNCHANGED bounds
        /\ Continue(h, IF files[p] = NoRow THEN <<>> ELSE deleteDownwards(p, files[p]))
  BY DEF ReadTarget, ReadForDelete
<1>2. p \in RegionOf(handler[h]) /\ p \in Paths
  BY <1>1, NowClaimed
<1> HIDE DEF p
<1>3. PICK tasks :
        /\ StepBy(h, do, tasks)
        /\ TasksOf(tasks) = IF files[p] = NoRow THEN {} ELSE DownTasks(p, files[p])
        /\ \A t \in TasksOf(tasks) : t.do \in Deleting
  BY <1>1, <1>2, RowFacts
<1> QED BY <1>2, <1>3, DownStepShape

LEMMA MakeDirShape ==
    ASSUME StoreInv, NEW h \in Handlers, Shape(handler[h]), MakeDir(h)
    PROVE  Alone(h) /\ Shape(handler'[h])
<1> DEFINE d == Now(h).path
           tasks == mkdirAll(Parent[d])
<1>1. /\ d \in Paths /\ StepBy(h, "mkdir", tasks)
      /\ TasksOf(tasks) = DirTasks(Parent[d])
  BY MakeDirFacts
<1> HIDE DEF tasks
<1>2. /\ TaskShape(handler[h], Now(h)) /\ Now(h).do = "mkdir"
      /\ "mkdir" \in KindsOf(handler'[h].op)
      /\ ClaimsOf(handler'[h]) = ClaimsOf(handler[h])
  BY <1>1, NowShape DEF SameCall
<1>3. PICK c \in ClaimsOf(handler[h]) : d \in Above[c]
  BY <1>2 DEF TaskShape
<1>4. c \in Paths \cup {Root}
  BY HandlerTypes, SwiftPlusAssumption DEF ClaimsOf, Files
<1>5. Parent[d] \in Above[c] \cup {Root}
  BY <1>1, <1>3, <1>4, AboveClosed, SwiftPlusAssumption DEF Closed
<1>6. ASSUME NEW t \in TasksOf(tasks)
      PROVE  t.do = "mkdir" /\ TaskShape(handler'[h], t)
  <2>1. /\ t.do = "mkdir" /\ t.path = Parent[d] /\ Parent[d] # Root /\ t.loc = NoLoc
    BY <1>1 DEF DirTasks, Task
  <2>2. \E e \in ClaimsOf(handler'[h]) : t.path \in Above[e]
    BY <2>1, <1>2, <1>5
  <2> QED BY <2>1, <2>2, <1>2 DEF TaskShape, FlushTasks
<1> QED BY <1>1, <1>6, StepShape

LEMMA ManifestShape ==
    ASSUME StoreInv, NEW h \in Handlers, Shape(handler[h]), WriteSLO(h)
    PROVE  Alone(h) /\ Shape(handler'[h])
<1> DEFINE w == handler[h].wr
           k == handler'[h]
           row == ManifestRow(w)
           tasks == writeFileInfo(w.path, row)
           u == Task("upsert", w.path, NoLoc, row)
<1>1. /\ w.loc # NoLoc /\ k.wr = w /\ StepBy(h, "manifest", tasks)
      /\ TasksOf(tasks) = RowTasks(w.path, row)
  BY WriteSLOFacts
<1>2. row.loc = w.loc
  BY DEF ManifestRow
<1> HIDE DEF tasks, row
<1>3. w.path \in Paths /\ w.path # Root
  BY <1>1, HandlerTypes, SwiftPlusAssumption DEF Files
<1>4. k.op \in {"commit", "close"} /\ {"upsert", "mkdir"} \subseteq KindsOf(k.op)
  BY <1>1, NowShape, KindsFacts DEF SameCall
<1>5. TasksOf(tasks) \subseteq TasksOf(k.todo)
  BY <1>1, StepTodo
<1>6. w.path \in ClaimsOf(k)
  BY <1>1, <1>3 DEF ClaimsOf
<1>7. \A t \in TasksOf(tasks) : t = u \/ t \in DirTasks(Parent[w.path])
  BY <1>1 DEF RowTasks
<1>8. TaskShape(k, u)
  <2>1. /\ u.do = "upsert" /\ u.path = w.path /\ u.row = row /\ u.loc = NoLoc
    BY DEF Task
  <2>2. Parent[w.path] = Root \/ HasTask(k, "mkdir", Parent[w.path])
    <3>1. CASE Parent[w.path] # Root
      <4>1. Task("mkdir", Parent[w.path], NoLoc, NoRow) \in TasksOf(k.todo)
        BY <3>1, <1>1, <1>5 DEF RowTasks, DirTasks
      <4> QED BY <4>1 DEF HasTask, Task
    <3> QED BY <3>1
  <2> HIDE DEF u
  <2> QED BY <1>1, <1>2, <1>4, <2>1, <2>2 DEF TaskShape, FlushTasks
<1>9. ASSUME NEW t \in DirTasks(Parent[w.path]) PROVE TaskShape(k, t) /\ t.do = "mkdir"
  <2>1. /\ t.do = "mkdir" /\ t.path = Parent[w.path] /\ t.loc = NoLoc
        /\ Parent[w.path] # Root
    BY DEF DirTasks, Task
  <2>2. t.path \in Above[w.path]
    BY <1>3, <2>1, AboveUp
  <2> QED BY <1>4, <1>6, <2>1, <2>2 DEF TaskShape, FlushTasks
<1>10. After("manifest") \subseteq After("upsert") /\ After("manifest") \subseteq After("mkdir")
  BY AfterTable
<1>11. u.do = "upsert"
  BY DEF Task
<1> QED BY <1>1, <1>7, <1>8, <1>9, <1>10, <1>11, StepShape

LEMMA StepsShape ==
    ASSUME StoreInv, NEW h \in Handlers, Shape(handler[h]), Step(h)
    PROVE  Alone(h) /\ Shape(handler'[h])
<1>1. CASE ListObjects(h)
  BY <1>1, ListShape
<1>2. CASE BulkDelete(h) \/ DeleteRow(h) \/ UpsertRow(h) \/ Upload(h) \/ Rename(h)
  <2>1. PICK do : At(h, do) /\ Continue(h, <<>>) /\ UNCHANGED bounds
    BY <1>2 DEF BulkDelete, DeleteRow, UpsertRow, Upload, Rename
  <2> QED BY <2>1, DoneFacts, DoneShape
<1>3. CASE DeleteChildren(h)
  BY <1>3, ChildrenFacts, ChildrenShape
<1>4. CASE MakeDir(h)
  BY <1>4, MakeDirShape
<1>5. CASE ReadTarget(h) \/ ReadForDelete(h)
  BY <1>5, ReadRowShape
<1>6. CASE ReadSegments(h)
  BY <1>6, ReadSegmentsFacts, DoneShape
<1>7. CASE PutSegment(h)
  BY <1>7, PutSegmentFacts, DoneShape
<1>8. CASE RecordSegment(h)
  BY <1>8, RecordSegmentFacts, DoneShape
<1>9. CASE WriteSLO(h)
  BY <1>9, ManifestShape
<1>10. CASE Finish(h)
  BY <1>10, FinishFacts, ShapeIdle DEF FinishRec, IdleRec
<1> QED BY <1>1, <1>2, <1>3, <1>4, <1>5, <1>6, <1>7, <1>8, <1>9, <1>10 DEF Step

LEMMA CutShape ==
    ASSUME StoreInv, NEW h \in Handlers, Shape(handler[h]), CutShort(h)
    PROVE  Alone(h) /\ Shape(handler'[h])
<1>1. CASE CutSegments(h)
  BY <1>1, CutSegmentsFacts, DoneShape
<1>2. CASE CutChildren(h)
  BY <1>2, CutChildrenFacts, ChildrenShape
<1> QED BY <1>1, <1>2 DEF CutShort

LEMMA CallsShape ==
    ASSUME StoreInv, NEW h \in Handlers, Call(h)
    PROVE  Alone(h) /\ Shape(handler'[h])
<1>1. CASE \E p \in Blobs, large \in BOOLEAN : PutContent(h, p, large)
  BY <1>1, PutShape
<1>2. CASE \E s \in Uploads, d \in Blobs : Move(h, s, d)
  BY <1>2, MoveShape
<1>3. CASE \E p \in Files \cup UploadDirs : Delete(h, p)
  BY <1>3, DeleteShape
<1>4. CASE \E p \in Uploads, append \in BOOLEAN : Writer(h, p, append)
  BY <1>4, WriterShape
<1>5. CASE Write(h)
  BY <1>5, WriteFacts, UseShape
<1>6. ASSUME NEW op \in {"commit", "close"}, Commit(h, op)
      PROVE  Alone(h) /\ Shape(handler'[h])
  <2> DEFINE t == Task("manifest", handler[h].wr.path, handler[h].wr.loc, NoRow)
  <2>1. t.do = "manifest" /\ t.loc = handler[h].wr.loc
    BY DEF Task
  <2>2. UseCall(h, op, {t})
    BY <1>6, CommitFacts
  <2> QED BY <2>1, <2>2, UseShape
<1>7. CASE Cancel(h)
  <2> DEFINE t == Task("delete", handler[h].wr.path, NoLoc, NoRow)
  <2>1. t.do = "delete" /\ t.loc = NoLoc /\ t.path = handler[h].wr.path
    BY DEF Task
  <2>2. UseCall(h, "cancel", {t})
    BY <1>7, CancelFacts
  <2> QED BY <2>1, <2>2, UseShape
<1>8. CASE Close(h) \/ GiveUp(h)
  BY <1>8, LeaveFacts, IdleWith, ShapeIdle DEF IdleRec
<1> QED BY <1>1, <1>2, <1>3, <1>4, <1>5, <1>6, <1>7, <1>8 DEF Call

LEMMA ErrorsShape ==
    ASSUME StoreInv, NEW h \in Handlers, Conflict(h) \/ Fault(h)
    PROVE  Alone(h) /\ Shape(handler'[h])
<1>1. ErrorRec(h)
  BY ErrorFacts DEF Conflict, Fault
<1>2. Alone(h) /\ IdleRec(handler'[h])
  BY <1>1 DEF ErrorRec
<1> QED BY <1>2, ShapeIdle DEF IdleRec

(* After a crash, and in the beginning, all handlers are idle. *)
LEMMA IdleHandlers ==
    ASSUME NEW hs, hs = [h \in Handlers |-> IdleHandler], NEW h \in Handlers
    PROVE  /\ IdleRec(hs[h]) /\ hs[h].wr = NoWriter /\ hs[h].wr.loc = NoLoc
           /\ Shape(hs[h])
<1>1. IdleRec(hs[h]) /\ hs[h].wr = NoWriter
  BY IdleWith
<1>2. Shape(hs[h])
  BY <1>1, ShapeIdle DEF IdleRec
<1> QED BY <1>1, <1>2 DEF NoWriter

LEMMA NextShapeInv ==
    ASSUME StoreInv, ShapeInv, [Next]_vars
    PROVE  ShapeInv'
<1>1. ASSUME NEW h \in Handlers, Call(h) \/ Step(h) \/ Conflict(h) \/ Fault(h) \/ CutShort(h)
      PROVE  ShapeInv'
  <2>1. Shape(handler[h])
    BY DEF ShapeInv
  <2>2. Alone(h) /\ Shape(handler'[h])
    BY <1>1, <2>1, CallsShape, StepsShape, ErrorsShape, CutShape
  <2> QED BY <2>2, ShapeOne
<1>2. CASE Crash
  BY <1>2, IdleHandlers DEF Crash, ShapeInv
<1>3. CASE UNCHANGED vars
  BY <1>3 DEF vars, ShapeInv
<1> QED BY <1>1, <1>2, <1>3 DEF Next

-----------------------------------------------------------------------------
(* Steps of other handlers do no harm. *)

(* What h changes is in its region, a directory above it, or at a location  *)
(* that it uses.                                                            *)
Confined(h) ==
    LET m == handler[h]
    IN  /\ Alone(h)
        /\ \A x \in Paths : files'[x] # files[x] =>
             /\ x \in RegionOf(m) \/ \E c \in ClaimsOf(m) : x \in Above[c]
             /\ files'[x] # NoRow /\ files'[x].loc # NoLoc =>
                  \/ files'[x].loc \in UsesOf(m)
                  \/ \E y \in RegionOf(m) : HasLoc(files, y, files'[x].loc)
        /\ \A o : o.loc \notin UsesOf(m) => (o \in objects' <=> o \in objects)
        /\ \A s : s.loc \notin UsesOf(m) => (s \in segments' <=> s \in segments)

LEMMA QuietConfined ==
    ASSUME NEW h \in Handlers, Alone(h), Quiet
    PROVE  Confined(h)
  BY DEF Quiet, Confined

LEMMA ClaimsArePaths ==
    ASSUME StoreInv, NEW h \in Handlers
    PROVE  ClaimsOf(handler[h]) \subseteq Paths
           /\ RegionOf(handler[h]) \subseteq Paths
           /\ ClaimsOf(handler[h]) \subseteq RegionOf(handler[h])
<1>1. ClaimsOf(handler[h]) \subseteq Paths
  BY HandlerTypes, SwiftPlusAssumption DEF ClaimsOf, Files
<1> QED BY <1>1, AboveSelf DEF RegionOf

LEMMA RegionsApart ==
    ASSUME NEW m, NEW n, ClaimsOf(m) \subseteq Paths,
           \A p \in ClaimsOf(n), q \in ClaimsOf(m) : ~Related(p, q)
    PROVE  \A x \in RegionOf(n) :
             x \notin RegionOf(m) /\ \A c \in ClaimsOf(m) : x \notin Above[c]
<1> TAKE x \in RegionOf(n)
<1>1. PICK b \in ClaimsOf(n) : b \in Above[x]
  BY DEF RegionOf
<1>2. x \in Paths
  BY DEF RegionOf
<1>3. ASSUME NEW c \in ClaimsOf(m), c \in Above[x] PROVE FALSE
  BY <1>1, <1>2, <1>3, AboveRelated
<1>4. ASSUME NEW c \in ClaimsOf(m), x \in Above[c] PROVE FALSE
  <2>1. b \in Above[c]
    BY <1>1, <1>4, AboveTrans
  <2> QED BY <2>1 DEF Related
<1> QED BY <1>3, <1>4 DEF RegionOf

(* What n works on is as it was. *)
Undisturbed(n) ==
    /\ \A x \in RegionOf(n) : files'[x] = files[x]
    /\ \A l \in UsesOf(n), p \in Paths :
         HasLoc(files', p, l) => HasLoc(files, p, l)
    /\ \A o : o.loc \in UsesOf(n) => (o \in objects' <=> o \in objects)
    /\ \A s : s.loc \in UsesOf(n) => (s \in segments' <=> s \in segments)
    /\ \A x \in RegionOf(n) : files[x] # NoRow /\ files[x].loc # NoLoc =>
         \A o : o.loc = files[x].loc => (o \in objects' <=> o \in objects)

LEMMA ApartUndisturbed ==
    ASSUME StoreInv, NEW g \in Handlers, NEW h \in Handlers, g # h, Confined(h),
           Apart(handler[g], handler[h]),
           OwnLocs(handler[g], files), OwnLocs(handler[h], files)
    PROVE  Undisturbed(handler[g])
<1> DEFINE m == handler[h]
           n == handler[g]
<1>1. \A x \in RegionOf(n) :
        x \notin RegionOf(m) /\ \A c \in ClaimsOf(m) : x \notin Above[c]
  BY RegionsApart, ClaimsArePaths DEF Apart
<1>2. UsesOf(n) \cap UsesOf(m) = {} /\ NoLoc \notin UsesOf(n)
  BY DEF Apart, UsesOf
<1>3. RegionOf(m) \subseteq Paths /\ RegionOf(n) \subseteq Paths
  BY ClaimsArePaths
<1>4. OwnLocs(m, files) /\ OwnLocs(n, files) /\ Confined(h)
  OBVIOUS
<1> HIDE DEF n
<1>5. \A x \in RegionOf(n) : files'[x] = files[x]
  BY <1>1, <1>3, <1>4 DEF Confined
<1>6. ASSUME NEW l \in UsesOf(n), NEW p \in Paths, HasLoc(files', p, l)
      PROVE  HasLoc(files, p, l)
  <2>1. CASE files'[p] = files[p]
    BY <1>6, <2>1 DEF HasLoc
  <2>2. CASE files'[p] # files[p]
    <3>1. l # NoLoc /\ l \notin UsesOf(m) /\ files'[p] # NoRow /\ files'[p].loc = l
      BY <1>2, <1>6 DEF HasLoc
    <3>2. PICK y \in RegionOf(m) : HasLoc(files, y, l)
      BY <1>4, <2>2, <3>1 DEF Confined
    <3>3. y \in RegionOf(n)
      BY <1>3, <1>4, <3>2 DEF OwnLocs
    <3> QED BY <1>1, <3>3
  <2> QED BY <2>1, <2>2
<1>7. /\ \A o : o.loc \in UsesOf(n) => (o \in objects' <=> o \in objects)
      /\ \A s : s.loc \in UsesOf(n) => (s \in segments' <=> s \in segments)
  BY <1>2, <1>4 DEF Confined
<1>8. ASSUME NEW x \in RegionOf(n), files[x] # NoRow, files[x].loc # NoLoc
      PROVE  \A o : o.loc = files[x].loc => (o \in objects' <=> o \in objects)
  <2>1. files[x].loc \notin UsesOf(m)
    BY <1>1, <1>3, <1>4, <1>8 DEF OwnLocs, HasLoc
  <2> QED BY <1>4, <2>1 DEF Confined
<1> QED BY <1>5, <1>6, <1>7, <1>8 DEF Undisturbed, n

(* The tasks of a call have their types. *)
LEMMA TaskTypes ==
    ASSUME StoreInv, NEW h \in Handlers, NEW t \in TasksOf(handler[h].todo)
    PROVE  \/ t \in TaskSet(handler[h].op, handler[h].wr.loc, nextLoc, written)
           \/ /\ handler[h].wr.loc # NoLoc
              /\ t.do \in FlushTasks /\ t.loc = handler[h].wr.loc
<1> DEFINE m == handler[h]
           S == TaskSet(m.op, m.wr.loc, nextLoc, written)
           q == m.todo
<1>1. q \in Seq(S) \/ Flushing(q, m.wr.loc, S)
  BY DEF StoreInv, HandlerOK
<1>2. q \in Seq(AnyTask) /\ t \in TasksOf(q)
  BY HandlerTypes
<1> HIDE DEF S, q
<1>3. CASE q \in Seq(S)
  BY <1>2, <1>3, TasksIn DEF S
<1>4. CASE Flushing(q, m.wr.loc, S)
  <2>1. q # <<>> /\ m.wr.loc # NoLoc
    BY <1>4 DEF Flushing
  <2>2. /\ TasksOf(q) = {Head(q)} \cup TasksOf(Tail(q)) /\ Tail(q) \in Seq(AnyTask)
    BY <1>2, <2>1, TasksHead
  <2>3. CASE Tail(q) \in Seq(S) /\ Head(q) = RecordTask(m.wr.loc)
    <3>1. TasksOf(Tail(q)) \subseteq S
      BY <2>3, TasksIn
    <3> QED BY <1>2, <2>1, <2>2, <2>3, <3>1 DEF RecordTask, Task, FlushTasks, S
  <2>4. CASE /\ Head(q) = PutTask(m.wr.loc) /\ Tail(q) # <<>>
             /\ Head(Tail(q)) = RecordTask(m.wr.loc) /\ Tail(Tail(q)) \in Seq(S)
    <3>1. TasksOf(Tail(q)) = {Head(Tail(q))} \cup TasksOf(Tail(Tail(q)))
      BY <2>2, <2>4, TasksHead
    <3>2. TasksOf(Tail(Tail(q))) \subseteq S
      BY <2>4, TasksIn
    <3>3. t = PutTask(m.wr.loc) \/ t = RecordTask(m.wr.loc) \/ t \in S
      BY <1>2, <2>2, <2>4, <3>1, <3>2
    <3> QED BY <2>1, <3>3 DEF RecordTask, PutTask, Task, FlushTasks, S
  <2> QED BY <1>4, <2>3, <2>4 DEF Flushing
<1> QED BY <1>1, <1>3, <1>4

LEMMA TaskFacts ==
    ASSUME StoreInv, NEW h \in Handlers, NEW t \in TasksOf(handler[h].todo)
    PROVE  /\ t.loc \in 0..nextLoc
           /\ t.do \in {"list", "bulkdelete", "upload"} => t.loc # NoLoc
           /\ t.do \in {"children", "mkdir"} => t.path \in Dirs
           /\ t.do = "unlink" => t.path \in Paths
           /\ t.do = "upsert" => t.path \in Files /\ t.row.loc \in 0..nextLoc
                                 /\ t.row \in FileRow(nextLoc, written)
  BY TaskTypes, HandlerTypes DEF TaskSet, FlushTasks, FileRow

LEMMA UsesBound ==
    ASSUME StoreInv, NEW h \in Handlers
    PROVE  UsesOf(handler[h]) \subseteq 1..nextLoc
<1>1. \A t \in TasksOf(handler[h].todo) : TaskLocs(t) \subseteq 0..nextLoc
  BY TaskFacts DEF TaskLocs
<1>2. handler[h].wr.loc \in 0..nextLoc
  BY HandlerTypes
<1> QED BY <1>1, <1>2, BoundsNat DEF UsesOf, NoLoc

LEMMA KeptLocs ==
    ASSUME StoreInv, NEW g \in Handlers, Undisturbed(handler[g]),
           LocsOK(handler[g], files)
    PROVE  LocsOK(handler[g], files')
<1> DEFINE n == handler[g]
<1>1. OwnLocs(n, files')
  BY DEF LocsOK, OwnLocs, Undisturbed
<1>2. WriterOnly(n, files')
  <2>1. n.wr.loc # NoLoc => n.wr.loc \in UsesOf(n)
    BY DEF UsesOf
  <2> QED BY <2>1 DEF LocsOK, WriterOnly, Undisturbed
<1>3. UploadOnly(n, files')
  <2>1. \A t \in TasksOf(n.todo) : t.loc # NoLoc => t.loc \in UsesOf(n)
    BY DEF UsesOf, TaskLocs
  <2>2. \A t \in TasksOf(n.todo) : t.do = "upload" => t.loc # NoLoc
    BY TaskFacts
  <2> QED BY <2>1, <2>2 DEF LocsOK, UploadOnly, Undisturbed
<1> QED BY <1>1, <1>2, <1>3 DEF LocsOK

(* Paths that tasks and writers are about lie in the region. *)
LEMMA RegionPaths ==
    ASSUME StoreInv, NEW g \in Handlers, Shape(handler[g])
    PROVE  LET n == handler[g]
           IN  /\ n.wr.loc # NoLoc => n.wr.path \in RegionOf(n)
               /\ n.path \in Paths => n.path \in RegionOf(n)
               /\ n.dest \in Paths => n.dest \in RegionOf(n)
               /\ \A t \in TasksOf(n.todo) :
                    t.do \in {"unlink", "upsert", "children"} => t.path \in RegionOf(n)
<1> DEFINE n == handler[g]
<1>1. /\ n.wr.loc # NoLoc => n.wr.path \in ClaimsOf(n)
      /\ n.path \in Paths => n.path \in ClaimsOf(n)
      /\ n.dest \in Paths => n.dest \in ClaimsOf(n)
  BY HandlerTypes, SwiftPlusAssumption DEF ClaimsOf, Files
<1>2. /\ n.wr.loc # NoLoc => n.wr.path \in RegionOf(n)
      /\ n.path \in Paths => n.path \in RegionOf(n)
      /\ n.dest \in Paths => n.dest \in RegionOf(n)
  BY <1>1, ClaimsArePaths
<1>3. ASSUME NEW t \in TasksOf(n.todo), t.do \in {"unlink", "upsert", "children"}
      PROVE  t.path \in RegionOf(n)
  <2>1. TaskShape(n, t)
    BY DEF Shape
  <2>2. CASE t.do # "upsert"
    BY <1>3, <2>1, <2>2 DEF TaskShape
  <2>3. CASE t.do = "upsert"
    <3>1. t.path \in Files /\ t.path \in Paths
      BY <2>3, TaskFacts, SwiftPlusAssumption
    <3>2. n.op = "put" \/ n.op \in {"commit", "close"}
      <4>1. n.op \in Ops
        BY HandlerTypes DEF HandlerRec
      <4> QED BY <4>1, <2>1, <2>3, KindsFacts DEF TaskShape
    <3>3. n.op # "put" => n.wr.loc # NoLoc
      BY <3>2 DEF StoreInv, HandlerOK, WriterOps, NoLoc
    <3> QED BY <1>2, <2>1, <2>3, <3>1, <3>3 DEF TaskShape
  <2> QED BY <2>2, <2>3
<1> QED BY <1>2, <1>3

LEMMA KeptData ==
    ASSUME StoreInv, NEW g \in Handlers, Undisturbed(handler[g]),
           Shape(handler[g]), DataOK(handler[g], files, objects, segments)
    PROVE  DataOK(handler[g], files', objects', segments')
<1> DEFINE n == handler[g]
<1>1. /\ n.wr.loc # NoLoc => n.wr.path \in RegionOf(n) /\ n.wr.loc \in UsesOf(n)
      /\ n.path \in Paths => n.path \in RegionOf(n)
      /\ \A t \in TasksOf(n.todo) :
           t.do \in {"unlink", "upsert"} => t.path \in RegionOf(n)
  BY RegionPaths DEF UsesOf
<1>2. n.wr.loc # NoLoc => files'[n.wr.path] = files[n.wr.path]
  BY <1>1 DEF Undisturbed
<1>3. WriterRow(n, files')
  BY <1>2 DEF DataOK, WriterRow
<1>4. UploadRow(n, files')
  <2>1. ASSUME NEW t \in TasksOf(n.todo), t.do = "upload"
        PROVE  n.path \in Paths
    <3>1. TaskShape(n, t) /\ n.op \in Ops
      BY HandlerTypes DEF Shape, HandlerRec
    <3>2. n.op = "put"
      BY <3>1, <2>1, KindsFacts DEF TaskShape
    <3> QED BY <3>2 DEF Shape
  <2>2. ASSUME NEW t \in TasksOf(n.todo), t.do = "upload"
        PROVE  files'[n.path] = files[n.path]
    BY <2>1, <2>2, <1>1 DEF Undisturbed
  <2> QED BY <2>2 DEF DataOK, UploadRow, HasLoc
<1>5. RowsEmptied(n, files', objects')
  <2> SUFFICES ASSUME NEW t \in TasksOf(n.todo), t.do \in {"unlink", "upsert"},
                      files'[t.path] # NoRow, files'[t.path].loc # NoLoc,
                      t.do = "upsert" => files'[t.path].loc # t.row.loc
               PROVE  Emptying(n, objects', files'[t.path].loc)
    BY DEF RowsEmptied
  <2>1. t.path \in RegionOf(n) /\ files'[t.path] = files[t.path]
    BY <1>1 DEF Undisturbed
  <2>2. Emptying(n, objects, files[t.path].loc)
    BY <2>1 DEF DataOK, RowsEmptied
  <2>3. \A o : o.loc = files[t.path].loc => (o \in objects' <=> o \in objects)
    BY <2>1 DEF Undisturbed
  <2> QED BY <2>1, <2>2, <2>3 DEF Emptying
<1>6. BulkComplete(n, objects')
  <2> SUFFICES ASSUME NEW t \in TasksOf(n.todo), t.do = "bulkdelete",
                      NEW o \in objects', o.loc = t.loc
               PROVE  o.num \in t.nums
    BY DEF BulkComplete
  <2>1. t.loc \in UsesOf(n)
    BY TaskFacts DEF UsesOf, TaskLocs
  <2>2. o \in objects
    BY <2>1 DEF Undisturbed
  <2> QED BY <2>2 DEF DataOK, BulkComplete
<1>7. RowWritten(n, files')
  <2>1. n.op \in {"commit", "close"} => n.wr.loc # NoLoc
    BY DEF StoreInv, HandlerOK, WriterOps, NoLoc
  <2> QED BY <2>1, <1>2 DEF DataOK, RowWritten, HasLoc
<1>8. KnowsSegments(n, segments')
  BY <1>1 DEF DataOK, KnowsSegments, Undisturbed
<1> QED BY <1>3, <1>4, <1>5, <1>6, <1>7, <1>8 DEF DataOK

LEMMA KeptTree ==
    ASSUME StoreInv, NEW g \in Handlers, Undisturbed(handler[g]),
           Shape(handler[g]), TreeOK(handler[g], files)
    PROVE  TreeOK(handler[g], files')
<1> DEFINE n == handler[g]
           q == n.todo
<1>1. Incomplete(n) \/ Covered(q, files')
  <2> SUFFICES ASSUME ~Incomplete(n), NEW i \in DOMAIN q, q[i].do = "unlink", NEW x \in Paths,
                      Parent[x] = q[i].path, files'[x] # NoRow
               PROVE  \E j \in DOMAIN q :
                         /\ j < i
                         /\ \/ q[j].do = "unlink" /\ q[j].path = x
                            \/ q[j].do = "children" /\ q[j].path = q[i].path
    BY DEF Covered, TreeOK
  <2>1. q[i] \in TasksOf(q)
    BY DEF TasksOf
  <2>2. q[i].path \in RegionOf(n)
    BY <2>1, RegionPaths
  <2>3. files[x] # NoRow
    BY <2>2, RegionDown DEF Undisturbed
  <2> QED BY <2>3 DEF TreeOK, Covered
<1>2. TargetFree(n, files')
  <2> SUFFICES ASSUME NEW t \in TasksOf(n.todo), t.do = "rename"
               PROVE  files'[n.dest] = files[n.dest]
    BY DEF TargetFree, TreeOK
  <2>1. n.op = "move"
    <3>1. TaskShape(n, t) /\ n.op \in Ops
      BY HandlerTypes DEF Shape, HandlerRec
    <3> QED BY <3>1, KindsFacts DEF TaskShape
  <2>2. n.dest \in Paths
    BY <2>1, SwiftPlusAssumption DEF StoreInv, HandlerOK, Files
  <2> QED BY <2>2, RegionPaths DEF Undisturbed
<1> QED BY <1>1, <1>2 DEF TreeOK

LEMMA KeptUnharmed ==
    ASSUME StoreInv, NEW g \in Handlers, Undisturbed(handler[g]),
           Shape(handler[g]), Unharmed(handler[g], files)
    PROVE  Unharmed(handler[g], files')
  BY RegionPaths DEF Undisturbed, Unharmed, HasLoc

(* Every step is confined. *)
LEMMA NowUsed ==
    ASSUME StoreInv, NEW h \in Handlers, NEW do, At(h, do)
    PROVE  /\ Now(h) \in TasksOf(handler[h].todo) /\ Now(h).do = do
           /\ Now(h).loc # NoLoc => Now(h).loc \in UsesOf(handler[h])
           /\ do = "upsert" /\ Now(h).row.loc # NoLoc =>
                Now(h).row.loc \in UsesOf(handler[h])
<1>1. Now(h) \in TasksOf(handler[h].todo) /\ Now(h).do = do
  BY HandlerTypes, TasksHead DEF At, Now
<1> QED BY <1>1 DEF UsesOf, TaskLocs

LEMMA PutElsewhere ==
    ASSUME NEW o, NEW x, x.loc # o.loc
    PROVE  x \in PutObject(o) <=> x \in objects
  BY DEF PutObject

(* Only objects or segments change, at a location that h uses. *)
LEMMA UseConfined ==
    ASSUME NEW h \in Handlers, Alone(h), files' = files,
           NEW l \in UsesOf(handler[h]),
           \A o : o.loc # l => (o \in objects' <=> o \in objects),
           \A s : s.loc # l => (s \in segments' <=> s \in segments)
    PROVE  Confined(h)
<1>1. \A o : o.loc \notin UsesOf(handler[h]) => (o \in objects' <=> o \in objects)
  OBVIOUS
<1>2. \A s : s.loc \notin UsesOf(handler[h]) => (s \in segments' <=> s \in segments)
  OBVIOUS
<1> QED BY <1>1, <1>2 DEF Confined

LEMMA ObjectConfined ==
    ASSUME StoreInv, NEW h \in Handlers, Shape(handler[h]),
           BulkDelete(h) \/ Upload(h) \/ PutSegment(h) \/ WriteSLO(h)
             \/ RecordSegment(h)
    PROVE  Confined(h)
<1> DEFINE w == handler[h].wr
<1>0. w.loc # NoLoc => w.loc \in UsesOf(handler[h])
  BY DEF UsesOf
<1>1. CASE BulkDelete(h)
  <2>1. /\ At(h, "bulkdelete") /\ Alone(h) /\ files' = files /\ segments' = segments
        /\ objects' = {o \in objects : o.loc # Now(h).loc \/ o.num \notin Now(h).nums}
    BY <1>1, DoneFacts DEF BulkDelete, StepBy
  <2>2. Now(h).loc \in UsesOf(handler[h])
    BY <2>1, NowUsed, TaskFacts
  <2>3. \A o : o.loc # Now(h).loc => (o \in objects' <=> o \in objects)
    BY <2>1
  <2> QED BY <2>1, <2>2, <2>3, UseConfined
<1>2. CASE Upload(h)
  <2> DEFINE o == Plain(Now(h).loc, 0, handler[h].val)
  <2>1. /\ At(h, "upload") /\ Alone(h) /\ files' = files /\ segments' = segments
        /\ objects' = PutObject(o)
    BY <1>2, DoneFacts DEF Upload, StepBy
  <2>2. Now(h).loc \in UsesOf(handler[h])
    BY <2>1, NowUsed, TaskFacts
  <2>3. o.loc = Now(h).loc
    BY DEF Plain
  <2> HIDE DEF o
  <2> QED BY <2>1, <2>2, <2>3, PutElsewhere, UseConfined
<1>3. CASE PutSegment(h)
  <2> DEFINE num == IF w.segs = <<>> THEN 1 ELSE Last(w.segs).num + 1
             o == Plain(w.loc, num, <<w.buf>>)
  <2>1. /\ Alone(h) /\ files' = files /\ segments' = segments
        /\ objects' = PutObject(o) /\ w.loc # NoLoc
    BY <1>3, PutSegmentFacts DEF PutFlush, StepBy
  <2>2. o.loc = w.loc
    BY DEF Plain
  <2> HIDE DEF o
  <2> QED BY <1>0, <2>1, <2>2, PutElsewhere, UseConfined
<1>4. CASE WriteSLO(h)
  <2> DEFINE o == Manifest(w.loc, w.segs)
  <2>1. /\ Alone(h) /\ files' = files /\ segments' = segments
        /\ objects' = PutObject(o) /\ w.loc # NoLoc
    BY <1>4, WriteSLOFacts DEF StepBy
  <2>2. o.loc = w.loc
    BY DEF Manifest
  <2> HIDE DEF o
  <2> QED BY <1>0, <2>1, <2>2, PutElsewhere, UseConfined
<1>5. CASE RecordSegment(h)
  <2> DEFINE s == [loc |-> w.loc, num |-> Last(w.segs).num, unit |-> Last(w.segs).unit]
  <2>1. /\ Alone(h) /\ files' = files /\ objects' = objects
        /\ segments' = segments \cup {s} /\ w.loc # NoLoc
    BY <1>5, RecordSegmentFacts DEF RecordFlush, StepBy
  <2>2. s.loc = w.loc
    OBVIOUS
  <2> HIDE DEF s
  <2>3. \A x : x.loc # w.loc => (x \in segments' <=> x \in segments)
    BY <2>1, <2>2
  <2> QED BY <1>0, <2>1, <2>3, UseConfined
<1> QED BY <1>1, <1>2, <1>3, <1>4, <1>5

(* Only rows change. *)
LEMMA RowConfined ==
    ASSUME StoreInv, NEW h \in Handlers, Shape(handler[h]),
           DeleteRow(h) \/ UpsertRow(h) \/ MakeDir(h) \/ Rename(h)
    PROVE  Confined(h)
<1> DEFINE m == handler[h]
           p == Now(h).path
<1>0. files \in [Paths -> Row \cup {NoRow}]
  BY DEF StoreInv, RowsOK
<1>1. CASE DeleteRow(h)
  <2>1. /\ At(h, "unlink") /\ Alone(h) /\ UNCHANGED <<objects, segments>>
        /\ files' = [files EXCEPT ![p] = NoRow]
    BY <1>1, DoneFacts DEF DeleteRow, StepBy
  <2>2. p \in RegionOf(m)
    BY <2>1, NowUsed, RegionPaths
  <2> QED BY <1>0, <2>1, <2>2 DEF Confined
<1>2. CASE UpsertRow(h)
  <2>1. /\ At(h, "upsert") /\ Alone(h) /\ UNCHANGED <<objects, segments>>
        /\ files' = [files EXCEPT ![p] = Now(h).row]
    BY <1>2, DoneFacts DEF UpsertRow, StepBy
  <2>2. p \in RegionOf(m)
    BY <2>1, NowUsed, RegionPaths
  <2>3. Now(h).row.loc # NoLoc => Now(h).row.loc \in UsesOf(m)
    BY <2>1, NowUsed
  <2> QED BY <1>0, <2>1, <2>2, <2>3 DEF Confined
<1>3. CASE MakeDir(h)
  <2>1. /\ StepBy(h, "mkdir", mkdirAll(Parent[p])) /\ p \in Paths
        /\ UNCHANGED <<objects, segments>>
        /\ files' = [files EXCEPT ![p] = IF files[p] = NoRow THEN DirRow ELSE files[p]]
    BY <1>3, MakeDirFacts
  <2>2. Alone(h)
    BY <2>1 DEF StepBy
  <2>3. \E c \in ClaimsOf(m) : p \in Above[c]
    BY <2>1, NowShape DEF TaskShape
  <2>4. \A x \in Paths : files'[x] # files[x] => x = p /\ files'[x] = DirRow
    BY <1>0, <2>1
  <2> QED BY <2>1, <2>2, <2>3, <2>4 DEF Confined, DirRow
<1>4. CASE Rename(h)
  <2>1. /\ At(h, "rename") /\ Alone(h) /\ UNCHANGED <<objects, segments>>
        /\ files' = IF files[p] = NoRow THEN files
                    ELSE [files EXCEPT ![p] = NoRow, ![m.dest] = files[p]]
    BY <1>4, DoneFacts DEF Rename, StepBy
  <2>2. p = m.path /\ p \in Paths /\ m.dest \in Paths
    <3>1. StepBy(h, "rename", <<>>)
      BY <1>4, DoneFacts DEF Rename
    <3>2. m.op = "move" /\ p = m.path
      BY <3>1, NowShape, KindsFacts DEF TaskShape
    <3> QED BY <3>2, SwiftPlusAssumption DEF StoreInv, HandlerOK, Files
  <2>3. p \in RegionOf(m) /\ m.dest \in RegionOf(m)
    BY <2>2, RegionPaths
  <2>4. \A x \in Paths : files'[x] # files[x] =>
          /\ x \in RegionOf(m)
          /\ files'[x] # NoRow => HasLoc(files, p, files'[x].loc)
    BY <1>0, <2>1, <2>2, <2>3 DEF HasLoc
  <2> QED BY <2>1, <2>3, <2>4 DEF Confined
<1> QED BY <1>1, <1>2, <1>3, <1>4

LEMMA ErrorConfined ==
    ASSUME StoreInv, NEW h \in Handlers, Conflict(h) \/ Fault(h)
    PROVE  Confined(h)
<1>1. ErrorRec(h)
  BY ErrorFacts DEF Conflict, Fault
<1>2. Alone(h)
  BY <1>1 DEF ErrorRec
<1>3. CASE UNCHANGED <<files, segments, objects>>
  BY <1>2, <1>3, QuietConfined DEF Quiet
<1>4. CASE /\ At(h, "bulkdelete") /\ UNCHANGED <<files, segments>>
           /\ \E gone \in SUBSET {o \in objects : /\ o.loc = Now(h).loc
                                                  /\ o.num \in Now(h).nums} :
                objects' = objects \ gone
  <2>1. Now(h).loc \in UsesOf(handler[h])
    BY <1>4, NowUsed, TaskFacts
  <2>2. \A o : o.loc # Now(h).loc => (o \in objects' <=> o \in objects)
    BY <1>4
  <2> QED BY <1>2, <1>4, <2>1, <2>2, UseConfined
<1> QED BY <1>3, <1>4 DEF Conflict, Fault

-----------------------------------------------------------------------------
(* Handlers are apart, and locations belong to one row: LocInv. *)

LEMMA RelatedSym == \A p, q : Related(p, q) <=> Related(q, p)
  BY DEF Related

(* The claims and locations of the handler after a step fit the others. *)
Fits(h) ==
    LET m == handler[h]
        k == handler'[h]
    IN  /\ ClaimsOf(k) \subseteq Paths
        /\ \A g \in Handlers \ {h} :
             \A p \in ClaimsOf(handler[g]), q \in ClaimsOf(k) : ~Related(p, q)
        /\ \A l \in UsesOf(k) :
             \/ l \in UsesOf(m)
             \/ l > nextLoc
             \/ \E y \in RegionOf(k) : HasLoc(files, y, l)

LEMMA FitsApart ==
    ASSUME StoreInv, LocInv, NEW h \in Handlers, Fits(h), NEW g \in Handlers \ {h}
    PROVE  Apart(handler[g], handler'[h]) /\ Apart(handler'[h], handler[g])
<1> DEFINE k == handler'[h]
           n == handler[g]
<1>1. /\ ClaimsOf(k) \subseteq Paths
      /\ \A p \in ClaimsOf(n), q \in ClaimsOf(k) : ~Related(p, q)
  BY DEF Fits
<1>2. UsesOf(n) \subseteq 1..nextLoc /\ nextLoc \in Nat
  BY UsesBound, BoundsNat
<1>3. UsesOf(n) \cap UsesOf(handler[h]) = {} /\ OwnLocs(n, files)
  BY DEF LocInv, Apart, LocsOK
<1>4. ASSUME NEW l \in UsesOf(k), l \in UsesOf(n) PROVE FALSE
  <2>1. PICK y \in RegionOf(k) : HasLoc(files, y, l)
    BY <1>2, <1>3, <1>4 DEF Fits
  <2>2. y \in RegionOf(n)
    BY <1>3, <1>4, <2>1 DEF OwnLocs, RegionOf
  <2>3. y \notin RegionOf(k)
    BY <1>1, <2>2, RegionsApart
  <2> QED BY <2>1, <2>3
<1> HIDE DEF k, n
<1>5. UsesOf(k) \cap UsesOf(n) = {}
  BY <1>4
<1>6. Apart(n, k) /\ Apart(k, n)
  BY <1>1, <1>5, RelatedSym DEF Apart
<1> QED BY <1>6 DEF k, n

LEMMA LocNext ==
    ASSUME StoreInv, ShapeInv, LocInv, NEW h \in Handlers, Confined(h), Fits(h),
           LocsOK(handler'[h], files'), UniqueLocs(files')
    PROVE  LocInv'
<1>1. Alone(h)
  BY DEF Confined
<1>2. ASSUME NEW g \in Handlers \ {h} PROVE LocsOK(handler'[g], files')
  <2>1. Undisturbed(handler[g])
    BY ApartUndisturbed DEF LocInv, LocsOK
  <2> QED BY <1>1, <2>1, KeptLocs DEF LocInv, Alone
<1>3. \A g \in Handlers \ {h} :
        Apart(handler'[g], handler'[h]) /\ Apart(handler'[h], handler'[g])
  BY <1>1, FitsApart DEF Alone
<1>4. \A g, f \in Handlers \ {h} : g # f => Apart(handler'[g], handler'[f])
  BY <1>1 DEF Alone, LocInv
<1>5. \A g \in Handlers : LocsOK(handler'[g], files')
  BY <1>2
<1>6. \A g, f \in Handlers : g # f => Apart(handler'[g], handler'[f])
  BY <1>3, <1>4
<1> QED BY <1>5, <1>6 DEF LocInv

(* The handler becomes idle, with or without its writer. *)
LEMMA IdleLoc ==
    ASSUME StoreInv, ShapeInv, LocInv, NEW h \in Handlers, Confined(h),
           files' = files, IdleRec(handler'[h]),
           \/ handler'[h].wr = NoWriter
           \/ /\ handler[h].wr.loc # NoLoc
              /\ handler'[h].wr.loc = handler[h].wr.loc
              /\ handler'[h].wr.path = handler[h].wr.path
    PROVE  LocInv'
<1> DEFINE m == handler[h]
           k == handler'[h]
<1>1. /\ k.path = Root /\ k.dest = Root /\ TasksOf(k.todo) = {}
      /\ (k.wr.loc = NoLoc
           \/ (m.wr.loc # NoLoc /\ k.wr.loc = m.wr.loc /\ k.wr.path = m.wr.path))
  <2>1. k.path = Root /\ k.dest = Root /\ k.todo = <<>>
    BY DEF IdleRec
  <2>2. TasksOf(k.todo) = {}
    BY <2>1, TasksOne
  <2>3. k.wr = NoWriter => k.wr.loc = NoLoc
    BY DEF NoWriter
  <2> QED BY <2>1, <2>2, <2>3
<1> HIDE DEF k
<1>2. ClaimsOf(k) \subseteq ClaimsOf(m)
  BY <1>1 DEF ClaimsOf
<1>3. \A l \in UsesOf(k) : l = m.wr.loc /\ l = k.wr.loc /\ l # NoLoc
  BY <1>1 DEF UsesOf
<1>4. UsesOf(k) \subseteq UsesOf(m)
  BY <1>3 DEF UsesOf
<1>5. Fits(h)
  <2>1. ClaimsOf(k) \subseteq Paths
    BY <1>2, ClaimsArePaths
  <2>2. \A g \in Handlers \ {h} :
          \A p \in ClaimsOf(handler[g]), q \in ClaimsOf(k) : ~Related(p, q)
    BY <1>2 DEF LocInv, Apart
  <2> QED BY <1>4, <2>1, <2>2 DEF Fits, k
<1>6. WriterOnly(m, files)
  BY DEF LocInv, LocsOK
<1>7. OwnLocs(k, files')
  <2> SUFFICES ASSUME NEW l \in UsesOf(k), NEW p \in Paths, HasLoc(files, p, l)
               PROVE  p \in RegionOf(k)
    BY DEF OwnLocs
  <2>1. p = k.wr.path /\ k.wr.loc # NoLoc
    BY <1>1, <1>3, <1>6 DEF WriterOnly
  <2>2. p \in ClaimsOf(k)
    BY <2>1, SwiftPlusAssumption DEF ClaimsOf
  <2> QED BY <2>2, OwnRegion
<1>8. WriterOnly(k, files') /\ UploadOnly(k, files')
  BY <1>1, <1>6 DEF WriterOnly, UploadOnly
<1> QED BY <1>5, <1>7, <1>8, LocNext DEF LocInv, LocsOK, k

(* A call begins: no rows, objects or segments change. *)
LEMMA CallLoc ==
    ASSUME StoreInv, ShapeInv, LocInv, NEW h \in Handlers, Alone(h), Quiet, Fits(h),
           \A l \in UsesOf(handler'[h]) :
             l \in UsesOf(handler[h]) => RegionOf(handler[h]) \subseteq RegionOf(handler'[h]),
           WriterOnly(handler'[h], files), UploadOnly(handler'[h], files)
    PROVE  LocInv'
<1> DEFINE k == handler'[h]
<1>1. files' = files
  BY DEF Quiet
<1>2. OwnLocs(k, files)
  <2> SUFFICES ASSUME NEW l \in UsesOf(k), NEW p \in Paths, HasLoc(files, p, l)
               PROVE  p \in RegionOf(k)
    BY DEF OwnLocs
  <2>1. l # NoLoc
    BY DEF UsesOf
  <2>2. CASE l \in UsesOf(handler[h])
    BY <2>2 DEF LocInv, LocsOK, OwnLocs
  <2>3. CASE l > nextLoc
    BY <2>3, RowForPath, BoundsNat DEF HasLoc
  <2>4. CASE \E y \in RegionOf(k) : HasLoc(files, y, l)
    <3>1. PICK y \in RegionOf(k) : HasLoc(files, y, l)
      BY <2>4
    <3>2. y \in Paths
      BY DEF RegionOf
    <3>3. y = p
      BY <2>1, <3>1, <3>2 DEF LocInv, UniqueLocs, HasLoc
    <3> QED BY <3>1, <3>3
  <2> QED BY <2>2, <2>3, <2>4 DEF Fits
<1>3. LocsOK(k, files') /\ UniqueLocs(files')
  BY <1>1, <1>2 DEF LocsOK, LocInv
<1> QED BY <1>3, LocNext, QuietConfined

(* A step of a call that changes no rows. *)
LEMMA StepFits ==
    ASSUME StoreInv, LocInv, NEW h \in Handlers, SameCall(handler[h], handler'[h]),
           \A l \in UsesOf(handler'[h]) :
             l \in UsesOf(handler[h]) \/ \E y \in RegionOf(handler[h]) : HasLoc(files, y, l)
    PROVE  Fits(h)
<1>1. /\ ClaimsOf(handler'[h]) = ClaimsOf(handler[h])
      /\ RegionOf(handler'[h]) = RegionOf(handler[h])
  BY SameClaims
<1>2. ClaimsOf(handler[h]) \subseteq Paths
  BY ClaimsArePaths
<1>3. \A g \in Handlers \ {h} :
         \A p \in ClaimsOf(handler[g]), q \in ClaimsOf(handler[h]) : ~Related(p, q)
  BY DEF LocInv, Apart
<1> QED BY <1>1, <1>2, <1>3 DEF Fits

LEMMA StepLoc ==
    ASSUME StoreInv, ShapeInv, LocInv, NEW h \in Handlers, Confined(h), files' = files,
           SameCall(handler[h], handler'[h]),
           \A l \in UsesOf(handler'[h]) :
             l \in UsesOf(handler[h]) \/ \E y \in RegionOf(handler[h]) : HasLoc(files, y, l),
           \A t \in TasksOf(handler'[h].todo) : t.do = "upload" =>
             t \in TasksOf(handler[h].todo)
    PROVE  LocInv'
<1> DEFINE m == handler[h]
           k == handler'[h]
<1>1. RegionOf(k) = RegionOf(m)
  BY SameClaims
<1>2. Fits(h)
  BY StepFits
<1>3. LocsOK(m, files) /\ UniqueLocs(files)
  BY DEF LocInv
<1>4. WriterOnly(k, files) /\ UploadOnly(k, files)
  BY <1>3 DEF LocsOK, WriterOnly, UploadOnly, SameCall
<1>5. OwnLocs(k, files)
  <2> SUFFICES ASSUME NEW l \in UsesOf(k), NEW p \in Paths, HasLoc(files, p, l)
               PROVE  p \in RegionOf(m)
    BY <1>1 DEF OwnLocs
  <2>1. CASE l \in UsesOf(m)
    BY <1>3, <2>1 DEF LocsOK, OwnLocs
  <2>2. CASE \E y \in RegionOf(m) : HasLoc(files, y, l)
    <3>1. l # NoLoc
      BY DEF UsesOf
    <3> QED BY <1>3, <2>2, <3>1, ClaimsArePaths DEF UniqueLocs, HasLoc
  <2> QED BY <2>1, <2>2
<1> QED BY <1>2, <1>3, <1>4, <1>5, LocNext DEF LocsOK

(* The rows change, and no location comes to a path where it was not. *)
LEMMA FewerLocs ==
    ASSUME StoreInv, ShapeInv, LocInv, NEW h \in Handlers, Confined(h),
           SameCall(handler[h], handler'[h]),
           TasksOf(handler'[h].todo) \subseteq TasksOf(handler[h].todo)
             \cup {t \in AnyTask : t.do = "mkdir" /\ t.loc = NoLoc},
           \A p \in Paths : \A l :
             l # NoLoc /\ HasLoc(files', p, l) => HasLoc(files, p, l)
    PROVE  LocInv'
<1> DEFINE m == handler[h]
           k == handler'[h]
<1>1. RegionOf(k) = RegionOf(m) /\ k.wr.loc = m.wr.loc /\ k.wr.path = m.wr.path
      /\ k.path = m.path
  BY SameClaims DEF SameCall
<1>2. UsesOf(k) \subseteq UsesOf(m)
  BY <1>1 DEF UsesOf, TaskLocs
<1>3. Fits(h)
  BY <1>2, StepFits
<1>4. LocsOK(m, files) /\ UniqueLocs(files)
  BY DEF LocInv
<1>5. NoLoc \notin UsesOf(m)
      /\ \A t \in TasksOf(m.todo) : t.do = "upload" => t.loc # NoLoc
  BY TaskFacts DEF UsesOf
<1>6. OwnLocs(k, files')
  BY <1>1, <1>2, <1>4, <1>5 DEF OwnLocs, LocsOK
<1>7. WriterOnly(k, files') /\ UploadOnly(k, files')
  <2>1. WriterOnly(k, files')
    BY <1>1, <1>4, <1>5 DEF WriterOnly, LocsOK
  <2>2. \A t \in TasksOf(k.todo) : t.do = "upload" => t \in TasksOf(m.todo)
    OBVIOUS
  <2>3. UploadOnly(k, files')
    BY <1>1, <1>4, <1>5, <2>2 DEF UploadOnly, LocsOK
  <2> QED BY <2>1, <2>3
<1>8. UniqueLocs(files')
  <2> SUFFICES ASSUME NEW p \in Paths, NEW q \in Paths, files'[p] # NoRow,
                      files'[q] # NoRow, files'[p].loc = files'[q].loc,
                      files'[p].loc # NoLoc
               PROVE  p = q
    BY DEF UniqueLocs
  <2>1. HasLoc(files, p, files'[p].loc) /\ HasLoc(files, q, files'[p].loc)
    BY DEF HasLoc
  <2> QED BY <1>4, <2>1 DEF UniqueLocs, HasLoc
<1> QED BY <1>3, <1>6, <1>7, <1>8, LocNext DEF LocsOK

(* The tasks that a step leaves. *)
LEMMA DoneTasks ==
    ASSUME StoreInv, NEW h \in Handlers, NEW do, StepBy(h, do, <<>>)
    PROVE  TasksOf(handler'[h].todo) \subseteq TasksOf(handler[h].todo)
           /\ TasksOf(handler'[h].todo) = TasksOf(Tail(handler[h].todo))
           /\ SameCall(handler[h], handler'[h])
           /\ UsesOf(handler'[h]) \subseteq UsesOf(handler[h])
           /\ Alone(h) /\ nextLoc' = nextLoc
<1>1. /\ TasksOf(handler'[h].todo) = TasksOf(<<>>) \cup TasksOf(Tail(handler[h].todo))
      /\ TasksOf(handler[h].todo) = {Now(h)} \cup TasksOf(Tail(handler[h].todo))
  BY StepTodo
<1>2. /\ SameCall(handler[h], handler'[h])
      /\ Alone(h) /\ nextLoc' = nextLoc
  BY DEF StepBy
<1>3. TasksOf(<<>>) = {}
  BY TasksOne
<1> QED BY <1>1, <1>2, <1>3 DEF UsesOf, SameCall

(* Steps that only replace the head of the list, or change objects. *)
LEMMA PlainStepsLoc ==
    ASSUME StoreInv, ShapeInv, LocInv, NEW h \in Handlers,
           \/ ListObjects(h) \/ BulkDelete(h) \/ Upload(h) \/ ReadSegments(h)
           \/ PutSegment(h) \/ RecordSegment(h) \/ (CutShort(h) /\ CutSegments(h))
    PROVE  LocInv'
<1> DEFINE m == handler[h]
           k == handler'[h]
<1>0. Shape(m)
  BY DEF ShapeInv
<1>1. CASE ListObjects(h)
  <2>1. PICK b, tasks :
          /\ StepBy(h, "list", tasks) /\ TasksOf(tasks) = {b} /\ b.do = "bulkdelete"
          /\ b.loc = Now(h).loc /\ Quiet
    BY <1>1, ListFacts
  <2>2. Alone(h) /\ SameCall(m, k) /\ At(h, "list") /\ files' = files
    BY <2>1 DEF StepBy, Quiet
  <2>3. TasksOf(k.todo) \subseteq TasksOf(m.todo) \cup {b}
    <3>1. /\ TasksOf(k.todo) = TasksOf(tasks) \cup TasksOf(Tail(m.todo))
          /\ TasksOf(m.todo) = {Now(h)} \cup TasksOf(Tail(m.todo))
      BY <2>1, StepTodo
    <3> QED BY <2>1, <3>1
  <2>4. Now(h).loc # NoLoc => Now(h).loc \in UsesOf(m)
    BY <2>2, NowUsed
  <2>5. TaskLocs(b) = {Now(h).loc}
    BY <2>1 DEF TaskLocs
  <2>6. UsesOf(k) \subseteq UsesOf(m)
    BY <2>2, <2>3, <2>4, <2>5 DEF UsesOf, SameCall
  <2>7. \A t \in TasksOf(k.todo) : t.do = "upload" => t \in TasksOf(m.todo)
    BY <2>1, <2>3
  <2>8. Confined(h)
    BY <2>1, <2>2, QuietConfined
  <2> QED BY <2>2, <2>6, <2>7, <2>8, StepLoc
<1>2. ASSUME NEW do, StepBy(h, do, <<>>), Confined(h), files' = files
      PROVE  LocInv'
  BY <1>2, DoneTasks, StepLoc
<1>3. CASE BulkDelete(h) \/ Upload(h)
  <2>1. PICK do : StepBy(h, do, <<>>)
    BY <1>3, DoneFacts DEF BulkDelete, Upload
  <2>2. files' = files /\ Confined(h)
    BY <1>0, <1>3, ObjectConfined DEF BulkDelete, Upload
  <2> QED BY <1>2, <2>1, <2>2
<1>4. CASE ReadSegments(h) \/ (CutShort(h) /\ CutSegments(h))
  <2>1. StepBy(h, "readsegments", <<>>) /\ Quiet /\ files' = files
    BY <1>4, ReadSegmentsFacts, CutSegmentsFacts DEF Quiet
  <2>2. Confined(h)
    BY <2>1, QuietConfined DEF StepBy
  <2> QED BY <1>2, <2>1, <2>2
<1>5. CASE PutSegment(h)
  BY <1>0, <1>2, <1>5, PutSegmentFacts, ObjectConfined DEF PutFlush
<1>6. CASE RecordSegment(h)
  BY <1>0, <1>2, <1>6, RecordSegmentFacts, ObjectConfined DEF RecordFlush
<1> QED BY <1>1, <1>3, <1>4, <1>5, <1>6

(* Steps that add tasks for rows in the region. *)
LEMMA DownStepLoc ==
    ASSUME StoreInv, ShapeInv, LocInv, NEW h \in Handlers, NEW do, NEW tasks,
           StepBy(h, do, tasks), Quiet,
           \A t \in TasksOf(tasks) :
             \E x \in RegionOf(handler[h]) :
               files[x] # NoRow /\ t \in DownTasks(x, files[x])
    PROVE  LocInv'
<1> DEFINE m == handler[h]
           k == handler'[h]
<1>1. Alone(h) /\ SameCall(m, k) /\ files' = files
  BY DEF StepBy, Quiet
<1>2. TasksOf(k.todo) \subseteq TasksOf(m.todo) \cup TasksOf(tasks)
  BY StepTodo
<1>3. ASSUME NEW t \in TasksOf(tasks)
      PROVE  /\ t.do # "upload"
             /\ \A l \in TaskLocs(t) : l = NoLoc \/
                  \E x \in RegionOf(m) : HasLoc(files, x, l)
  <2>1. PICK x \in RegionOf(m) : files[x] # NoRow /\ t \in DownTasks(x, files[x])
    OBVIOUS
  <2>2. /\ t.do \in {"list", "children", "unlink"}
        /\ t.loc = NoLoc \/ t.loc = files[x].loc
    BY <2>1 DEF DownTasks, ListTasks, Task
  <2> QED BY <2>1, <2>2 DEF TaskLocs, HasLoc
<1>4. ASSUME NEW l \in UsesOf(k)
      PROVE  l \in UsesOf(m) \/ \E y \in RegionOf(m) : HasLoc(files, y, l)
  <2>1. l # NoLoc /\ (l = m.wr.loc \/ \E t \in TasksOf(k.todo) : l \in TaskLocs(t))
    BY <1>1 DEF UsesOf, SameCall
  <2>2. CASE l = m.wr.loc
    BY <2>1, <2>2 DEF UsesOf
  <2>3. CASE \E t \in TasksOf(k.todo) : l \in TaskLocs(t)
    <3>1. PICK t \in TasksOf(k.todo) : l \in TaskLocs(t)
      BY <2>3
    <3>2. CASE t \in TasksOf(m.todo)
      BY <2>1, <3>1, <3>2 DEF UsesOf
    <3>3. CASE t \in TasksOf(tasks)
      BY <1>3, <2>1, <3>1, <3>3
    <3> QED BY <1>2, <3>2, <3>3
  <2> QED BY <2>1, <2>2, <2>3
<1>5. \A t \in TasksOf(k.todo) : t.do = "upload" => t \in TasksOf(m.todo)
  BY <1>2, <1>3
<1> QED BY <1>1, <1>4, <1>5, StepLoc, QuietConfined

(* What the steps children, target and delete do. *)
DownStep(h, do, tasks) ==
    /\ StepBy(h, do, tasks) /\ Quiet /\ handler'[h].wr = handler[h].wr
    /\ \A t \in TasksOf(tasks) :
         \E x \in RegionOf(handler[h]) :
           /\ files[x] # NoRow /\ t \in DownTasks(x, files[x])
           /\ DownTasks(x, files[x]) \subseteq TasksOf(tasks)

LEMMA SomeChildrenDown ==
    ASSUME StoreInv, NEW h \in Handlers, Shape(handler[h]), Quiet, NEW xs, NEW tasks,
           Children(h, Now(h).path, xs, tasks)
    PROVE  DownStep(h, "children", tasks)
<1> DEFINE D(x) == deleteDownwards(x, files[x])
<1>2. /\ StepBy(h, "children", tasks) /\ handler'[h].wr = handler[h].wr
      /\ \A t \in TasksOf(tasks) :
           \E x \in xs : t \in DownTasks(x, files[x])
      /\ \A x \in xs : \E i : Block(tasks, i, D(x))
      /\ xs \subseteq List(Now(h).path)
  BY DEF Children, EachDown
<1>3. Now(h).path \in RegionOf(handler[h])
  BY <1>2, NowShape DEF TaskShape
<1>4. \A x \in xs :
        x \in RegionOf(handler[h]) /\ files[x] # NoRow /\ x \in Paths
  BY <1>2, <1>3, RegionDown DEF List
<1>5. ASSUME NEW x \in xs
      PROVE  DownTasks(x, files[x]) \subseteq TasksOf(tasks)
  <2>1. TasksOf(D(x)) = DownTasks(x, files[x]) /\ D(x) \in Seq(AnyTask)
    BY <1>4, DownReturn
  <2>2. PICK i : Block(tasks, i, D(x))
    BY <1>2
  <2> HIDE DEF D
  <2>3. TasksOf(D(x)) \subseteq TasksOf(tasks)
    <3>1. tasks \in Seq(AnyTask)
      BY <1>2 DEF StepBy
    <3>2. /\ i \in Nat /\ Len(D(x)) \in Nat /\ i + Len(D(x)) <= Len(tasks)
          /\ DOMAIN tasks = 1..Len(tasks) /\ DOMAIN D(x) = 1..Len(D(x))
          /\ Len(tasks) \in Nat
          /\ \A j \in 1..Len(D(x)) : tasks[i + j] = D(x)[j]
      BY <2>1, <2>2, <3>1 DEF Block
    <3>3. \A j \in 1..Len(D(x)) : i + j \in 1..Len(tasks)
      BY <3>2
    <3> QED BY <3>2, <3>3 DEF TasksOf
  <2> QED BY <2>1, <2>3
<1> QED BY <1>2, <1>4, <1>5 DEF DownStep

LEMMA ChildrenDown ==
    ASSUME StoreInv, NEW h \in Handlers, Shape(handler[h]), DeleteChildren(h)
    PROVE  \E tasks : /\ DownStep(h, "children", tasks)
                      /\ Children(h, Now(h).path, List(Now(h).path), tasks)
<1>1. PICK tasks : Children(h, Now(h).path, List(Now(h).path), tasks) /\ Quiet
  BY ChildrenFacts
<1>2. DownStep(h, "children", tasks)
  BY <1>1, SomeChildrenDown
<1> QED BY <1>1, <1>2

LEMMA CutChildrenDown ==
    ASSUME StoreInv, NEW h \in Handlers, Shape(handler[h]), CutShort(h), CutChildren(h)
    PROVE  \E tasks : DownStep(h, "children", tasks)
<1>1. Quiet /\ \E xs, tasks : Children(h, Now(h).path, xs, tasks)
  BY CutChildrenFacts
<1> QED BY <1>1, SomeChildrenDown

LEMMA ReadRowDown ==
    ASSUME StoreInv, NEW h \in Handlers, Shape(handler[h]),
           ReadTarget(h) \/ ReadForDelete(h)
    PROVE  \E do \in {"target", "delete"} : \E tasks :
             /\ DownStep(h, do, tasks)
             /\ do = (IF ReadTarget(h) THEN "target" ELSE "delete")
             /\ LET p == Now(h).path
                IN  tasks = IF files[p] = NoRow THEN <<>>
                            ELSE deleteDownwards(p, files[p])
             /\ Now(h).path \in Files /\ Now(h).path \in RegionOf(handler[h])
<1> DEFINE p == Now(h).path
<1>1. PICK do \in {"target", "delete"} :
        /\ At(h, do) /\ UNCHANGED bounds /\ Quiet
        /\ Continue(h, IF files[p] = NoRow THEN <<>> ELSE deleteDownwards(p, files[p]))
        /\ do = (IF ReadTarget(h) THEN "target" ELSE "delete")
  BY DEF ReadTarget, ReadForDelete, Quiet
<1>2. p \in RegionOf(handler[h]) /\ p \in Paths /\ p \in Files
  BY <1>1, NowClaimed
<1> HIDE DEF p
<1>3. PICK tasks :
        /\ StepBy(h, do, tasks) /\ handler'[h].wr = handler[h].wr
        /\ tasks = IF files[p] = NoRow THEN <<>> ELSE deleteDownwards(p, files[p])
        /\ TasksOf(tasks) = IF files[p] = NoRow THEN {} ELSE DownTasks(p, files[p])
  BY <1>1, <1>2, RowFacts
<1>4. DownStep(h, do, tasks)
  BY <1>1, <1>2, <1>3 DEF DownStep
<1> QED BY <1>1, <1>2, <1>3, <1>4 DEF p

LEMMA DownStepsLoc ==
    ASSUME StoreInv, ShapeInv, LocInv, NEW h \in Handlers,
           \/ DeleteChildren(h) \/ ReadTarget(h) \/ ReadForDelete(h)
           \/ (CutShort(h) /\ CutChildren(h))
    PROVE  LocInv'
<1>1. Shape(handler[h])
  BY DEF ShapeInv
<1>2. \E do, tasks : DownStep(h, do, tasks)
  BY <1>1, ChildrenDown, ReadRowDown, CutChildrenDown
<1>3. PICK do, tasks : DownStep(h, do, tasks)
  BY <1>2
<1> QED BY <1>3, DownStepLoc DEF DownStep

LEMMA ManifestLoc ==
    ASSUME StoreInv, ShapeInv, LocInv, NEW h \in Handlers, WriteSLO(h)
    PROVE  LocInv'
<1> DEFINE m == handler[h]
           k == handler'[h]
           w == m.wr
           row == ManifestRow(w)
           tasks == writeFileInfo(w.path, row)
<1>1. /\ w.loc # NoLoc /\ StepBy(h, "manifest", tasks) /\ files' = files
      /\ TasksOf(tasks) = RowTasks(w.path, row)
  BY WriteSLOFacts
<1>2. row.loc = w.loc
  BY DEF ManifestRow
<1> HIDE DEF tasks, row
<1>3. Shape(m) /\ SameCall(m, k)
  BY <1>1 DEF ShapeInv, StepBy
<1>4. Confined(h)
  BY <1>3, ObjectConfined
<1>5. \A t \in TasksOf(tasks) : TaskLocs(t) \subseteq {NoLoc, w.loc} /\ t.do # "upload"
  BY <1>1, <1>2 DEF RowTasks, DirTasks, Task, TaskLocs
<1>6. TasksOf(k.todo) \subseteq TasksOf(m.todo) \cup TasksOf(tasks)
  BY <1>1, StepTodo
<1>7. UsesOf(k) \subseteq UsesOf(m)
  BY <1>1, <1>3, <1>5, <1>6 DEF UsesOf, SameCall
<1>8. \A t \in TasksOf(k.todo) : t.do = "upload" => t \in TasksOf(m.todo)
  BY <1>5, <1>6
<1> QED BY <1>1, <1>3, <1>4, <1>7, <1>8, StepLoc

LEMMA UnlinkLoc ==
    ASSUME StoreInv, ShapeInv, LocInv, NEW h \in Handlers, DeleteRow(h)
    PROVE  LocInv'
<1>1. /\ StepBy(h, "unlink", <<>>)
      /\ files' = [files EXCEPT ![Now(h).path] = NoRow]
  BY DoneFacts DEF DeleteRow
<1>2. Confined(h)
  BY RowConfined DEF ShapeInv
<1>3. files \in [Paths -> Row \cup {NoRow}]
  BY DEF StoreInv, RowsOK
<1>4. \A p \in Paths : \A l :
        l # NoLoc /\ HasLoc(files', p, l) => HasLoc(files, p, l)
  BY <1>1, <1>3 DEF HasLoc
<1> QED BY <1>1, <1>2, <1>4, DoneTasks, FewerLocs

LEMMA MakeDirLoc ==
    ASSUME StoreInv, ShapeInv, LocInv, NEW h \in Handlers, MakeDir(h)
    PROVE  LocInv'
<1> DEFINE d == Now(h).path
           tasks == mkdirAll(Parent[d])
<1>1. /\ StepBy(h, "mkdir", tasks) /\ d \in Paths
      /\ TasksOf(tasks) = DirTasks(Parent[d])
      /\ files' = [files EXCEPT ![d] = IF files[d] = NoRow THEN DirRow ELSE files[d]]
  BY MakeDirFacts
<1> HIDE DEF tasks
<1>2. Confined(h)
  BY RowConfined DEF ShapeInv
<1>3. files \in [Paths -> Row \cup {NoRow}]
  BY DEF StoreInv, RowsOK
<1>4. \A p \in Paths : \A l :
        l # NoLoc /\ HasLoc(files', p, l) => HasLoc(files, p, l)
  BY <1>1, <1>3 DEF HasLoc, DirRow
<1>5. TasksOf(handler'[h].todo) \subseteq TasksOf(handler[h].todo) \cup TasksOf(tasks)
  BY <1>1, StepTodo
<1>6. \A t \in TasksOf(tasks) : t \in AnyTask /\ t.do = "mkdir" /\ t.loc = NoLoc
  <2>1. TasksOf(tasks) \subseteq AnyTask
    BY <1>1, TasksIn DEF StepBy
  <2> QED BY <1>1, <2>1 DEF DirTasks, Task
<1>7. SameCall(handler[h], handler'[h])
  BY <1>1 DEF StepBy
<1> QED BY <1>2, <1>4, <1>5, <1>6, <1>7, FewerLocs

LEMMA RenameFacts ==
    ASSUME StoreInv, NEW h \in Handlers, Shape(handler[h]), Rename(h)
    PROVE  LET m == handler[h]
           IN  /\ StepBy(h, "rename", <<>>) /\ handler'[h].wr = m.wr
               /\ m.op = "move" /\ m.wr.loc = NoLoc
               /\ m.path \in Uploads /\ m.dest \in Blobs /\ m.path # m.dest
               /\ m.path \in Paths /\ m.dest \in Paths
               /\ UNCHANGED <<segments, objects>>
               /\ files' = IF files[m.path] = NoRow THEN files
                           ELSE [files EXCEPT ![m.path] = NoRow,
                                              ![m.dest] = files[m.path]]
<1> DEFINE m == handler[h]
<1>1. StepBy(h, "rename", <<>>) /\ handler'[h].wr = m.wr
  BY DoneFacts DEF Rename
<1>2. m.op = "move" /\ Now(h).path = m.path
  BY <1>1, NowShape, KindsFacts DEF TaskShape
<1>3. m.path \in Uploads /\ m.dest \in Blobs /\ m.wr.loc = NoLoc
  BY <1>2 DEF StoreInv, HandlerOK, Shape
<1>4. m.path # m.dest /\ m.path \in Paths /\ m.dest \in Paths
  BY <1>3, SwiftPlusAssumption DEF Files
<1> QED BY <1>1, <1>2, <1>3, <1>4 DEF Rename

LEMMA RenameLoc ==
    ASSUME StoreInv, ShapeInv, LocInv, NEW h \in Handlers, Rename(h)
    PROVE  LocInv'
<1> DEFINE m == handler[h]
           k == handler'[h]
<1>1. Shape(m)
  BY DEF ShapeInv
<1>2. /\ StepBy(h, "rename", <<>>)
      /\ m.op = "move" /\ m.wr.loc = NoLoc
      /\ m.path # m.dest /\ m.path \in Paths /\ m.dest \in Paths
      /\ files' = IF files[m.path] = NoRow THEN files
                  ELSE [files EXCEPT ![m.path] = NoRow,
                                     ![m.dest] = files[m.path]]
  BY <1>1, RenameFacts
<1>3. Confined(h)
  BY <1>1, RowConfined
<1>4. /\ TasksOf(k.todo) \subseteq TasksOf(m.todo) /\ SameCall(m, k)
      /\ UsesOf(k) \subseteq UsesOf(m)
  BY <1>2, DoneTasks
<1>5. files \in [Paths -> Row \cup {NoRow}]
  BY DEF StoreInv, RowsOK
<1>6. CASE files[m.path] = NoRow
  BY <1>2, <1>3, <1>4, <1>6, FewerLocs
<1>7. CASE files[m.path] # NoRow
  <2>1. \A p \in Paths : \A l : HasLoc(files', p, l) =>
          \/ p = m.dest /\ HasLoc(files, m.path, l)
          \/ p \notin {m.path, m.dest} /\ HasLoc(files, p, l)
    BY <1>2, <1>5, <1>7 DEF HasLoc
  <2>2. LocsOK(m, files) /\ UniqueLocs(files)
    BY DEF LocInv
  <2>3. RegionOf(k) = RegionOf(m) /\ m.dest \in RegionOf(m)
    BY <1>1, <1>2, <1>4, SameClaims, RegionPaths
  <2>4. OwnLocs(k, files')
    BY <1>4, <2>1, <2>2, <2>3 DEF OwnLocs, LocsOK
  <2>5. WriterOnly(k, files')
    BY <1>2, <1>4 DEF WriterOnly, SameCall
  <2>6. UploadOnly(k, files')
    <3>1. \A t \in TasksOf(k.todo) : t.do # "upload"
      <4>1. \A t \in TasksOf(m.todo) : t.do \in KindsOf("move") \cup {"return"}
        BY <1>1, <1>2 DEF Shape, TaskShape
      <4> QED BY <1>4, <4>1, KindsTable DEF Deleting
    <3> QED BY <3>1 DEF UploadOnly
  <2>7. UniqueLocs(files')
    <3> SUFFICES ASSUME NEW p \in Paths, NEW q \in Paths, files'[p] # NoRow,
                        files'[q] # NoRow, files'[p].loc = files'[q].loc,
                        files'[p].loc # NoLoc
                 PROVE  p = q
      BY DEF UniqueLocs
    <3>1. HasLoc(files', p, files'[p].loc) /\ HasLoc(files', q, files'[p].loc)
      BY DEF HasLoc
    <3>2. \A x, y \in Paths : HasLoc(files, x, files'[p].loc)
            /\ HasLoc(files, y, files'[p].loc) => x = y
      BY <2>2 DEF UniqueLocs, HasLoc
    <3> QED BY <1>2, <2>1, <3>1, <3>2
  <2>8. Fits(h)
    BY <1>4, StepFits
  <2> QED BY <1>3, <2>4, <2>5, <2>6, <2>7, <2>8, LocNext DEF LocsOK
<1> QED BY <1>6, <1>7

(* The row that is written, and the location in it. *)
LEMMA UpsertFacts ==
    ASSUME StoreInv, NEW h \in Handlers, Shape(handler[h]), UpsertRow(h)
    PROVE  LET m == handler[h]
               p == Now(h).path
               row == Now(h).row
           IN  /\ StepBy(h, "upsert", <<>>) /\ handler'[h].wr = m.wr
               /\ UNCHANGED <<segments, objects>>
               /\ files' = [files EXCEPT ![p] = row]
               /\ p \in Files /\ p \in Paths /\ p \in RegionOf(m)
               /\ row \in FileRow(nextLoc, written)
               /\ TaskShape(m, Now(h))
               /\ \/ /\ m.op = "put" /\ p = m.path /\ m.wr.loc = NoLoc
                     /\ \A s \in TasksOf(m.todo) : s.do = "upload" => s.loc = row.loc
                     /\ row.loc # NoLoc => \E s \in TasksOf(m.todo) :
                          s.do = "upload" /\ s.loc = row.loc
                  \/ /\ m.op \in {"commit", "close"} /\ p = m.wr.path
                     /\ row.loc = m.wr.loc /\ m.wr.loc # NoLoc
               /\ Parent[p] = Root \/ HasTask(m, "mkdir", Parent[p])
               /\ \A t \in TasksOf(handler'[h].todo) : t.do \in {"mkdir", "upload", "return"}
<1> DEFINE m == handler[h]
           p == Now(h).path
           row == Now(h).row
<1>1. /\ StepBy(h, "upsert", <<>>) /\ handler'[h].wr = m.wr
      /\ UNCHANGED <<segments, objects>>
      /\ files' = [files EXCEPT ![p] = row]
  BY DoneFacts DEF UpsertRow
<1>2. Now(h) \in TasksOf(m.todo) /\ Now(h).do = "upsert"
  BY <1>1, StepTodo
<1>3. p \in Files /\ p \in Paths /\ row \in FileRow(nextLoc, written)
  BY <1>2, TaskFacts, SwiftPlusAssumption
<1>4. p \in RegionOf(m)
  BY <1>2, RegionPaths
<1>5. TaskShape(m, Now(h)) /\ m.op \in Ops /\ "upsert" \in KindsOf(m.op)
  BY <1>1, NowShape
<1>6. m.op \in {"put", "commit", "close"}
  BY <1>5, KindsFacts
<1>7. m.op \in {"commit", "close"} => m.wr.loc # NoLoc
  BY DEF StoreInv, HandlerOK, WriterOps, NoLoc
<1>8. m.op = "put" => m.wr.loc = NoLoc
  BY DEF Shape
<1>9. \/ /\ m.op = "put" /\ p = m.path /\ m.wr.loc = NoLoc
         /\ \A s \in TasksOf(m.todo) : s.do = "upload" => s.loc = row.loc
         /\ row.loc # NoLoc => \E s \in TasksOf(m.todo) :
              s.do = "upload" /\ s.loc = row.loc
      \/ /\ m.op \in {"commit", "close"} /\ p = m.wr.path
         /\ row.loc = m.wr.loc /\ m.wr.loc # NoLoc
  BY <1>2, <1>5, <1>6, <1>7, <1>8 DEF TaskShape
<1>10. Parent[p] = Root \/ HasTask(m, "mkdir", Parent[p])
  BY <1>2, <1>5 DEF TaskShape
<1>11. \A t \in TasksOf(handler'[h].todo) : t.do \in {"mkdir", "upload", "return"}
  <2>1. TasksOf(handler'[h].todo) = TasksOf(Tail(m.todo))
    BY <1>1, DoneTasks
  <2>2. m.todo \in Seq(AnyTask) /\ m.todo # <<>> /\ Head(m.todo).do = "upsert"
    BY <1>1, StepTodo
  <2>3. \A y \in TasksOf(Tail(m.todo)) : y.do \in After("upsert")
    BY <2>2, OrderedTail DEF Shape
  <2> QED BY <2>1, <2>3, AfterTable
<1> QED BY <1>1, <1>3, <1>4, <1>5, <1>9, <1>10, <1>11

LEMMA UpsertLoc ==
    ASSUME StoreInv, ShapeInv, LocInv, NEW h \in Handlers, UpsertRow(h)
    PROVE  LocInv'
<1> DEFINE m == handler[h]
           k == handler'[h]
           p == Now(h).path
           row == Now(h).row
<1>1. Shape(m)
  BY DEF ShapeInv
<1>2. /\ StepBy(h, "upsert", <<>>) /\ files' = [files EXCEPT ![p] = row]
      /\ p \in Paths /\ p \in RegionOf(m)
      /\ \/ /\ m.op = "put" /\ p = m.path /\ m.wr.loc = NoLoc
            /\ \A s \in TasksOf(m.todo) : s.do = "upload" => s.loc = row.loc
            /\ row.loc # NoLoc => \E s \in TasksOf(m.todo) :
                 s.do = "upload" /\ s.loc = row.loc
         \/ /\ m.op \in {"commit", "close"} /\ p = m.wr.path
            /\ row.loc = m.wr.loc /\ m.wr.loc # NoLoc
  BY <1>1, UpsertFacts
<1>3. Confined(h)
  BY <1>1, RowConfined
<1>4. /\ TasksOf(k.todo) \subseteq TasksOf(m.todo) /\ SameCall(m, k)
      /\ UsesOf(k) \subseteq UsesOf(m)
  BY <1>2, DoneTasks
<1>5. LocsOK(m, files) /\ UniqueLocs(files)
  BY DEF LocInv
<1>6. files \in [Paths -> Row \cup {NoRow}]
  BY DEF StoreInv, RowsOK
<1>7. \A x \in Paths : \A l : HasLoc(files', x, l) =>
        (x = p /\ l = row.loc) \/ (x # p /\ HasLoc(files, x, l))
  BY <1>2, <1>6 DEF HasLoc
<1>8. row.loc # NoLoc => \A x \in Paths : HasLoc(files, x, row.loc) => x = p
  BY <1>2, <1>5 DEF LocsOK, WriterOnly, UploadOnly
<1> HIDE DEF p, row
<1>9. OwnLocs(k, files')
  <2>1. RegionOf(k) = RegionOf(m)
    BY <1>4, SameClaims
  <2> QED BY <1>2, <1>4, <1>5, <1>7, <2>1 DEF OwnLocs, LocsOK
<1>10. k.wr.loc = m.wr.loc /\ k.wr.path = m.wr.path /\ k.path = m.path
  BY <1>4 DEF SameCall
<1>11. WriterOnly(k, files')
  BY <1>2, <1>5, <1>7, <1>10 DEF WriterOnly, LocsOK
<1>12. UploadOnly(k, files')
  <2>1. CASE m.op = "put"
    <3>1. p = m.path
      BY <1>2, <2>1
    <3> QED BY <1>4, <1>5, <1>7, <1>10, <3>1 DEF UploadOnly, LocsOK
  <2>2. CASE m.op # "put"
    <3>1. \A t \in TasksOf(m.todo) : t.do \in KindsOf(m.op) \cup {"return"}
      BY <1>1 DEF Shape, TaskShape
    <3>2. m.op \in Ops
      BY HandlerTypes DEF HandlerRec
    <3>3. \A t \in TasksOf(m.todo) : t.do # "upload"
      BY <2>2, <3>1, <3>2, KindsFacts
    <3> QED BY <1>4, <3>3 DEF UploadOnly
  <2> QED BY <2>1, <2>2
<1>13. UniqueLocs(files')
  <2> SUFFICES ASSUME NEW x \in Paths, NEW y \in Paths, files'[x] # NoRow,
                      files'[y] # NoRow, files'[x].loc = files'[y].loc,
                      files'[x].loc # NoLoc
               PROVE  x = y
    BY DEF UniqueLocs
  <2> DEFINE l == files'[x].loc
  <2>1. HasLoc(files', x, l) /\ HasLoc(files', y, l)
    BY DEF HasLoc
  <2>2. HasLoc(files, x, l) /\ HasLoc(files, y, l) => x = y
    BY <1>5 DEF UniqueLocs, HasLoc
  <2>3. (x = p /\ l = row.loc) \/ (x # p /\ HasLoc(files, x, l))
    BY <1>7, <2>1
  <2>4. (y = p /\ l = row.loc) \/ (y # p /\ HasLoc(files, y, l))
    BY <1>7, <2>1
  <2>5. l # NoLoc
    OBVIOUS
  <2> HIDE DEF l
  <2> QED BY <1>8, <2>2, <2>3, <2>4, <2>5
<1>14. Fits(h)
  BY <1>4, StepFits
<1> QED BY <1>3, <1>9, <1>11, <1>12, <1>13, <1>14, LocNext DEF LocsOK

LEMMA StepsLoc ==
    ASSUME StoreInv, ShapeInv, LocInv, NEW h \in Handlers,
           Step(h) \/ Conflict(h) \/ Fault(h) \/ CutShort(h)
    PROVE  LocInv'
<1>1. CASE \/ ListObjects(h) \/ BulkDelete(h) \/ Upload(h) \/ ReadSegments(h)
           \/ PutSegment(h) \/ RecordSegment(h) \/ (CutShort(h) /\ CutSegments(h))
  BY <1>1, PlainStepsLoc
<1>2. CASE \/ DeleteChildren(h) \/ ReadTarget(h) \/ ReadForDelete(h)
           \/ (CutShort(h) /\ CutChildren(h))
  BY <1>2, DownStepsLoc
<1>3. CASE DeleteRow(h) \/ UpsertRow(h) \/ MakeDir(h) \/ Rename(h) \/ WriteSLO(h)
  BY <1>3, UnlinkLoc, UpsertLoc, MakeDirLoc, RenameLoc, ManifestLoc
<1>4. CASE Finish(h)
  <2>1. FinishRec(h)
    BY <1>4, FinishFacts
  <2>2. /\ Alone(h) /\ Quiet /\ IdleRec(handler'[h])
        /\ \/ handler'[h].wr = NoWriter
           \/ /\ handler[h].wr.loc # NoLoc
              /\ handler'[h].wr.loc = handler[h].wr.loc
              /\ handler'[h].wr.path = handler[h].wr.path
    BY <2>1 DEF FinishRec
  <2>3. Confined(h) /\ files' = files
    BY <2>2, QuietConfined DEF Quiet
  <2> QED BY <2>2, <2>3, IdleLoc
<1>5. CASE Conflict(h) \/ Fault(h)
  <2>1. ErrorRec(h) /\ files' = files
    BY <1>5, ErrorFacts DEF Conflict, Fault
  <2>2. /\ IdleRec(handler'[h])
        /\ \/ handler'[h].wr = NoWriter
           \/ /\ handler[h].wr.loc # NoLoc
              /\ handler'[h].wr.loc = handler[h].wr.loc
              /\ handler'[h].wr.path = handler[h].wr.path
    BY <2>1 DEF ErrorRec
  <2>3. Confined(h)
    BY <1>5, ErrorConfined
  <2> QED BY <2>1, <2>2, <2>3, IdleLoc
<1> QED BY <1>1, <1>2, <1>3, <1>4, <1>5 DEF Step, CutShort

(* A call on the paths ps that nobody else works on. *)
LEMMA MayCallApart ==
    ASSUME Exclusive, StoreInv, NEW h \in Handlers, NEW ps, MayCall(h, ps),
           NEW g \in Handlers \ {h}
    PROVE  \A p \in ClaimsOf(handler[g]), q \in ps : ~Related(p, q)
<1>1. Claims(g) = ClaimsOf(handler[g])
  BY DEF Claims, ClaimsOf, HasWriter
<1> QED BY <1>1, RelatedSym DEF MayCall

LEMMA NewCallLoc ==
    ASSUME Exclusive, StoreInv, ShapeInv, LocInv, NEW h \in Handlers, Alone(h), Quiet,
           NEW ps \in SUBSET Paths, MayCall(h, ps), ClaimsOf(handler'[h]) \subseteq ps,
           \A l \in UsesOf(handler'[h]) :
             l > nextLoc \/ \E y \in ClaimsOf(handler'[h]) : HasLoc(files, y, l),
           WriterOnly(handler'[h], files), UploadOnly(handler'[h], files)
    PROVE  LocInv'
<1> DEFINE k == handler'[h]
<1>1. ClaimsOf(k) \subseteq RegionOf(k)
  BY OwnRegion
<1>2. Fits(h)
  <2>1. \A g \in Handlers \ {h} :
          \A p \in ClaimsOf(handler[g]), q \in ClaimsOf(k) : ~Related(p, q)
    BY MayCallApart
  <2>2. ClaimsOf(k) \subseteq Paths
    OBVIOUS
  <2> QED BY <1>1, <2>1, <2>2 DEF Fits
<1>3. UsesOf(handler[h]) = {}
  <2>1. handler[h].wr.loc = NoLoc /\ handler[h].todo = <<>>
    BY DEF MayCall, HasWriter, StoreInv, HandlerOK
  <2>2. TasksOf(handler[h].todo) = {}
    BY <2>1, TasksOne
  <2> QED BY <2>1, <2>2 DEF UsesOf
<1> QED BY <1>2, <1>3, CallLoc

(* No row has a location that is yet to be chosen. *)
LEMMA FreshLoc ==
    ASSUME StoreInv, NEW p \in Paths
    PROVE  ~HasLoc(files, p, nextLoc + 1)
  BY RowForPath, BoundsNat DEF HasLoc

LEMMA PutLoc ==
    ASSUME Exclusive, StoreInv, ShapeInv, LocInv, NEW h \in Handlers,
           NEW p \in Blobs, NEW large \in BOOLEAN, PutContent(h, p, large)
    PROVE  LocInv'
<1> DEFINE k == handler'[h]
           ls == IF files[p] = NoRow THEN {} ELSE ListTasks(files[p].loc)
<1>1. PICK row : PutCall(h, p, large, row)
  BY PutFacts
<1> DEFINE up == IF large THEN {Task("upload", Root, nextLoc + 1, row)} ELSE {}
<1>2. /\ MayCall(h, {p}) /\ Alone(h) /\ Quiet
      /\ k.path = p /\ k.dest = Root /\ k.wr = handler[h].wr
      /\ row.loc = (IF large THEN nextLoc + 1 ELSE NoLoc)
      /\ TasksOf(k.todo) = ls \cup RowTasks(p, row) \cup up \cup {Return}
  BY <1>1 DEF PutCall, CallRec
<1>3. k.wr.loc = NoLoc /\ p \in Paths /\ p # Root
  BY <1>2, SwiftPlusAssumption DEF MayCall, HasWriter, Files
<1>4. ClaimsOf(k) = {p}
  BY <1>2, <1>3 DEF ClaimsOf
<1>5. ASSUME NEW t \in TasksOf(k.todo), NEW l \in TaskLocs(t), l # NoLoc
      PROVE  l = nextLoc + 1 \/ HasLoc(files, p, l)
  <2>1. CASE t \in ls
    BY <1>5, <2>1 DEF ListTasks, Task, TaskLocs, HasLoc
  <2>2. CASE t \in RowTasks(p, row)
    BY <1>2, <1>5, <2>2 DEF RowTasks, DirTasks, Task, TaskLocs
  <2>3. CASE t \in up
    BY <1>5, <2>3 DEF Task, TaskLocs
  <2>4. CASE t = Return
    BY <1>5, <2>4 DEF Return, Task, TaskLocs
  <2> QED BY <1>2, <2>1, <2>2, <2>3, <2>4
<1>6. \A t \in TasksOf(k.todo) : t.do = "upload" => t.loc = nextLoc + 1
  BY <1>2 DEF ListTasks, RowTasks, DirTasks, Task, Return
<1> HIDE DEF k
<1>7. \A l \in UsesOf(k) : l > nextLoc \/ \E y \in ClaimsOf(k) : HasLoc(files, y, l)
  BY <1>3, <1>4, <1>5, BoundsNat DEF UsesOf
<1>8. WriterOnly(k, files) /\ UploadOnly(k, files)
  BY <1>3, <1>6, FreshLoc DEF WriterOnly, UploadOnly
<1> QED BY <1>2, <1>3, <1>4, <1>7, <1>8, NewCallLoc DEF k

LEMMA MoveLoc ==
    ASSUME Exclusive, StoreInv, ShapeInv, LocInv, NEW h \in Handlers,
           NEW s \in Uploads, NEW d \in Blobs, Move(h, s, d)
    PROVE  LocInv'
<1> DEFINE k == handler'[h]
<1>1. /\ MayCall(h, {s, d}) /\ Alone(h) /\ Quiet
      /\ k.path = s /\ k.dest = d /\ k.wr = handler[h].wr
      /\ TasksOf(k.todo) = {Task("target", d, NoLoc, NoRow),
                              Task("rename", s, NoLoc, NoRow)}
                             \cup DirTasks(Parent[d]) \cup {Return}
  BY MoveFacts DEF MoveCall, CallRec
<1>2. k.wr.loc = NoLoc /\ {s, d} \in SUBSET Paths
  BY <1>1, SwiftPlusAssumption DEF MayCall, HasWriter, Files
<1>3. ClaimsOf(k) \subseteq {s, d}
  BY <1>1, <1>2 DEF ClaimsOf
<1>4. \A t \in TasksOf(k.todo) : t.do # "upload" /\ TaskLocs(t) = {NoLoc}
  BY <1>1 DEF DirTasks, Task, TaskLocs, Return
<1> HIDE DEF k
<1>5. UsesOf(k) = {}
  BY <1>2, <1>4 DEF UsesOf
<1>6. WriterOnly(k, files) /\ UploadOnly(k, files)
  BY <1>2, <1>4 DEF WriterOnly, UploadOnly
<1> QED BY <1>1, <1>2, <1>3, <1>5, <1>6, NewCallLoc DEF k

LEMMA DeleteLoc ==
    ASSUME Exclusive, StoreInv, ShapeInv, LocInv, NEW h \in Handlers,
           NEW p \in Files \cup UploadDirs, Delete(h, p)
    PROVE  LocInv'
<1> DEFINE k == handler'[h]
<1>1. /\ MayCall(h, {p}) /\ Alone(h) /\ Quiet /\ files[p] # NoRow
      /\ k.path = p /\ k.dest = Root /\ k.wr = handler[h].wr
      /\ TasksOf(k.todo) = DownTasks(p, files[p]) \cup {Return}
  BY DeleteFacts DEF DeleteCall, CallRec
<1>2. k.wr.loc = NoLoc /\ p \in Paths /\ p # Root
  BY <1>1, SwiftPlusAssumption DEF MayCall, HasWriter, Files, Dirs
<1>3. ClaimsOf(k) = {p}
  BY <1>1, <1>2 DEF ClaimsOf
<1>4. \A t \in TasksOf(k.todo) :
        t.do # "upload" /\ TaskLocs(t) \subseteq {NoLoc, files[p].loc}
  BY <1>1 DEF DownTasks, ListTasks, Task, TaskLocs, Return
<1> HIDE DEF k
<1>5. \A l \in UsesOf(k) : \E y \in ClaimsOf(k) : HasLoc(files, y, l)
  BY <1>1, <1>2, <1>3, <1>4 DEF UsesOf, HasLoc
<1>6. WriterOnly(k, files) /\ UploadOnly(k, files)
  BY <1>2, <1>4 DEF WriterOnly, UploadOnly
<1> QED BY <1>1, <1>2, <1>3, <1>5, <1>6, NewCallLoc DEF k

LEMMA WriterLoc ==
    ASSUME Exclusive, StoreInv, ShapeInv, LocInv, NEW h \in Handlers,
           NEW p \in Uploads, NEW append \in BOOLEAN, Writer(h, p, append)
    PROVE  LocInv'
<1> DEFINE k == handler'[h]
           fi == files[p]
           fresh == ~(append /\ fi # NoRow) \/ fi.loc = NoLoc
           dt == IF ~append /\ fi # NoRow THEN DownTasks(p, fi) ELSE {}
           rs == IF append /\ fi # NoRow
                 THEN {Task("readsegments", Root, k.wr.loc, NoRow)} ELSE {}
<1>0. WriterCall(h, p, append)
  BY WriterCallFacts
<1>1. /\ MayCall(h, {p}) /\ Alone(h) /\ Quiet
      /\ k.path = p /\ k.dest = Root /\ k.wr.path = p
      /\ k.wr.loc = (IF fresh THEN nextLoc + 1 ELSE fi.loc)
      /\ TasksOf(k.todo) = dt \cup rs \cup {Return}
  BY <1>0 DEF WriterCall, CallRec
<1>2. p \in Paths /\ p # Root
  BY SwiftPlusAssumption DEF Files
<1>3. ClaimsOf(k) = {p}
  BY <1>1, <1>2 DEF ClaimsOf
<1>4. \A t \in TasksOf(k.todo) :
        /\ t.do # "upload"
        /\ \A l \in TaskLocs(t) : l \in {NoLoc, k.wr.loc} \/ HasLoc(files, p, l)
  <2>1. \A t \in dt : /\ t.do # "upload"
                      /\ \A l \in TaskLocs(t) : l = NoLoc \/ HasLoc(files, p, l)
    BY DEF DownTasks, ListTasks, Task, TaskLocs, HasLoc
  <2>2. \A t \in rs : t.do # "upload" /\ TaskLocs(t) = {k.wr.loc}
    BY DEF Task, TaskLocs
  <2>3. Return.do # "upload" /\ TaskLocs(Return) = {NoLoc}
    BY DEF Return, Task, TaskLocs
  <2> QED BY <1>1, <2>1, <2>2, <2>3
<1>5. k.wr.loc > nextLoc \/ HasLoc(files, p, k.wr.loc)
  BY <1>1, BoundsNat DEF HasLoc
<1>6. \A x \in Paths : HasLoc(files, x, k.wr.loc) /\ k.wr.loc # NoLoc => x = p
  <2>1. CASE fresh
    BY <1>1, <2>1, FreshLoc
  <2>2. CASE ~fresh
    BY <1>1, <1>2, <2>2 DEF LocInv, UniqueLocs, HasLoc
  <2> QED BY <2>1, <2>2
<1> HIDE DEF k, dt, rs
<1>7. \A l \in UsesOf(k) : l > nextLoc \/ \E y \in ClaimsOf(k) : HasLoc(files, y, l)
  BY <1>3, <1>4, <1>5 DEF UsesOf
<1>8. WriterOnly(k, files) /\ UploadOnly(k, files)
  BY <1>1, <1>4, <1>6 DEF WriterOnly, UploadOnly
<1> QED BY <1>1, <1>2, <1>3, <1>7, <1>8, NewCallLoc DEF k

(* A call on the writer of h. *)
LEMMA UseLoc ==
    ASSUME StoreInv, ShapeInv, LocInv, NEW h \in Handlers, NEW op, NEW extra,
           UseCall(h, op, extra),
           \A t \in extra : t.do \in {"manifest", "delete"}
                            /\ t.loc \in {NoLoc, handler[h].wr.loc}
    PROVE  LocInv'
<1> DEFINE m == handler[h]
           k == handler'[h]
<1>1. /\ m.op = "idle" /\ m.wr.loc # NoLoc /\ Alone(h) /\ Quiet
      /\ k.path = Root /\ k.dest = Root /\ k.wr = m.wr
      /\ TasksOf(k.todo) = FlushSet(m.wr) \cup extra \cup {Return}
  BY DEF UseCall, CallRec, MayUse, HasWriter
<1>2. m.path = Root /\ m.dest = Root
  BY <1>1 DEF ShapeInv, Shape
<1>3. ClaimsOf(k) = ClaimsOf(m) /\ RegionOf(k) = RegionOf(m)
  BY <1>1, <1>2 DEF ClaimsOf, RegionOf
<1>4. \A t \in TasksOf(k.todo) :
        t.do # "upload" /\ TaskLocs(t) \subseteq {NoLoc, m.wr.loc}
  <2>1. \A t \in FlushSet(m.wr) : t.do \in FlushTasks /\ t.loc = m.wr.loc
    BY DEF FlushSet, PutTask, RecordTask, Task, FlushTasks
  <2>2. Return.do = "return" /\ Return.loc = NoLoc
    BY ReturnTask
  <2> QED BY <1>1, <2>1, <2>2 DEF TaskLocs, FlushTasks
<1>5. UsesOf(k) \subseteq UsesOf(m)
  BY <1>1, <1>4 DEF UsesOf
<1>6. Fits(h)
  <2>1. ClaimsOf(m) \subseteq Paths
    BY ClaimsArePaths
  <2>2. \A g \in Handlers \ {h} :
          \A p \in ClaimsOf(handler[g]), q \in ClaimsOf(m) : ~Related(p, q)
    BY DEF LocInv, Apart
  <2> QED BY <1>3, <1>5, <2>1, <2>2 DEF Fits
<1>7. WriterOnly(k, files) /\ UploadOnly(k, files)
  BY <1>1, <1>4 DEF LocInv, LocsOK, WriterOnly, UploadOnly
<1> QED BY <1>1, <1>3, <1>6, <1>7, CallLoc

LEMMA CallsLoc ==
    ASSUME Exclusive, StoreInv, ShapeInv, LocInv, NEW h \in Handlers, Call(h)
    PROVE  LocInv'
<1>1. CASE \E p \in Blobs, large \in BOOLEAN : PutContent(h, p, large)
  BY <1>1, PutLoc
<1>2. CASE \E s \in Uploads, d \in Blobs : Move(h, s, d)
  BY <1>2, MoveLoc
<1>3. CASE \E p \in Files \cup UploadDirs : Delete(h, p)
  BY <1>3, DeleteLoc
<1>4. CASE \E p \in Uploads, append \in BOOLEAN : Writer(h, p, append)
  BY <1>4, WriterLoc
<1>5. CASE Write(h)
  BY <1>5, WriteFacts, UseLoc
<1>6. ASSUME NEW op \in {"commit", "close"}, Commit(h, op)
      PROVE  LocInv'
  <2> DEFINE t == Task("manifest", handler[h].wr.path, handler[h].wr.loc, NoRow)
  <2>1. t.do = "manifest" /\ t.loc = handler[h].wr.loc
    BY DEF Task
  <2>2. UseCall(h, op, {t})
    BY <1>6, CommitFacts
  <2> QED BY <2>1, <2>2, UseLoc
<1>7. CASE Cancel(h)
  <2> DEFINE t == Task("delete", handler[h].wr.path, NoLoc, NoRow)
  <2>1. t.do = "delete" /\ t.loc = NoLoc
    BY DEF Task
  <2>2. UseCall(h, "cancel", {t})
    BY <1>7, CancelFacts
  <2> QED BY <2>1, <2>2, UseLoc
<1>8. CASE Close(h) \/ GiveUp(h)
  <2>1. Alone(h) /\ Quiet /\ IdleRec(handler'[h]) /\ handler'[h].wr = NoWriter
    BY <1>8, LeaveFacts, IdleWith
  <2>2. Confined(h) /\ files' = files
    BY <2>1, QuietConfined DEF Quiet
  <2> QED BY <2>1, <2>2, IdleLoc
<1> QED BY <1>1, <1>2, <1>3, <1>4, <1>5, <1>6, <1>7, <1>8 DEF Call

(* A handler without tasks and writer claims and uses nothing. *)
LEMMA NothingClaimed ==
    ASSUME NEW k, IdleRec(k), k.wr.loc = NoLoc
    PROVE  ClaimsOf(k) = {} /\ UsesOf(k) = {} /\ TasksOf(k.todo) = {}
<1>1. TasksOf(k.todo) = {}
  BY TasksOne DEF IdleRec
<1> QED BY <1>1 DEF IdleRec, ClaimsOf, UsesOf

LEMMA AllIdleLoc ==
    ASSUME NEW hs, hs = [h \in Handlers |-> IdleHandler], NEW fs, UniqueLocs(fs)
    PROVE  /\ \A h \in Handlers : LocsOK(hs[h], fs)
           /\ \A g, h \in Handlers : g # h => Apart(hs[g], hs[h])
<1>1. \A h \in Handlers :
        /\ ClaimsOf(hs[h]) = {} /\ UsesOf(hs[h]) = {} /\ TasksOf(hs[h].todo) = {}
        /\ hs[h].wr.loc = NoLoc
  BY IdleHandlers, NothingClaimed
<1>2. \A h \in Handlers : LocsOK(hs[h], fs)
  BY <1>1 DEF LocsOK, OwnLocs, WriterOnly, UploadOnly
<1>3. \A g, h \in Handlers : Apart(hs[g], hs[h])
  BY <1>1 DEF Apart
<1> QED BY <1>2, <1>3

LEMMA NextLocInv ==
    ASSUME Exclusive, StoreInv, ShapeInv, LocInv, [Next]_vars
    PROVE  LocInv'
<1>1. ASSUME NEW h \in Handlers, Call(h) \/ Step(h) \/ Conflict(h) \/ Fault(h) \/ CutShort(h)
      PROVE  LocInv'
  BY <1>1, CallsLoc, StepsLoc
<1>2. CASE Crash
  <2>1. files' = files /\ UniqueLocs(files')
        /\ handler' = [h \in Handlers |-> IdleHandler]
    BY <1>2 DEF Crash, LocInv
  <2> QED BY <2>1, AllIdleLoc DEF LocInv
<1>3. CASE UNCHANGED vars
  BY <1>3 DEF vars, LocInv
<1> QED BY <1>1, <1>2, <1>3 DEF Next

-----------------------------------------------------------------------------
(* Nothing that is in use is lost sight of: DataInv. *)

LEMMA DataNext ==
    ASSUME StoreInv, ShapeInv, LocInv, DataInv, NEW h \in Handlers, Confined(h),
           DataOK(handler'[h], files', objects', segments')
    PROVE  DataInv'
<1>1. ASSUME NEW g \in Handlers \ {h}
      PROVE  DataOK(handler'[g], files', objects', segments')
  <2>1. Undisturbed(handler[g])
    BY ApartUndisturbed DEF LocInv, LocsOK
  <2>2. handler'[g] = handler[g]
    BY DEF Confined, Alone
  <2> QED BY <2>1, <2>2, KeptData DEF DataInv, ShapeInv
<1> QED BY <1>1 DEF DataInv

LEMMA CalmData ==
    ASSUME NEW k, NEW fs, NEW os,
           \A t \in TasksOf(k.todo) :
             t.do \notin {"unlink", "upsert", "bulkdelete", "upload"}
    PROVE  UploadRow(k, fs) /\ RowsEmptied(k, fs, os) /\ BulkComplete(k, os)
  BY DEF UploadRow, RowsEmptied, BulkComplete

LEMMA IdleData ==
    ASSUME NEW k, NEW fs, NEW os, NEW sg, IdleRec(k),
           \/ k.wr.loc = NoLoc
           \/ /\ WriterRow(k, fs)
              /\ k.wr.lost \/ \A s \in sg :
                   s.loc = k.wr.loc => s.num <= Len(k.wr.segs)
    PROVE  DataOK(k, fs, os, sg)
<1>1. TasksOf(k.todo) = {} /\ ~Pending(k)
  BY TasksOne DEF IdleRec, Pending
<1>2. UploadRow(k, fs) /\ RowsEmptied(k, fs, os) /\ BulkComplete(k, os)
  BY <1>1, CalmData
<1>3. WriterRow(k, fs) /\ KnowsSegments(k, sg) /\ RowWritten(k, fs)
  BY <1>1 DEF WriterRow, KnowsSegments, RowWritten, IdleRec
<1> QED BY <1>2, <1>3 DEF DataOK

LEMMA AfterFacts ==
    ASSUME NEW do
    PROVE  /\ "recordsegment" \in After(do) => do = "putsegment"
           /\ After(do) \cap {"unlink", "upsert", "bulkdelete", "children", "list"} # {} =>
                do \in Deleting
           /\ "upload" \in After(do) => do \in Deleting \cup {"upsert", "mkdir"}
           /\ "manifest" \in After(do) => do \in FlushTasks
           /\ "mkdir" \in After(do) => do \in Deleting \cup {"target", "upsert", "rename"}
           /\ "target" \notin After(do) /\ "putsegment" \notin After(do)
           /\ "rename" \in After(do) => do \in Deleting \cup {"target"}
           /\ "readsegments" \notin After(do)
  BY DEF After, Deleting, FlushTasks

(* The rest of the list after a step. *)
LEMMA RestAfter ==
    ASSUME StoreInv, NEW h \in Handlers, Shape(handler[h]), NEW do, NEW tasks,
           StepBy(h, do, tasks)
    PROVE  \A t \in TasksOf(Tail(handler[h].todo)) : t.do \in After(do)
<1>1. handler[h].todo \in Seq(AnyTask) /\ handler[h].todo # <<>>
      /\ Head(handler[h].todo).do = do
  BY StepTodo
<1> QED BY <1>1, OrderedTail DEF Shape

LEMMA HeadIn ==
    ASSUME NEW q \in Seq(AnyTask), q # <<>>
    PROVE  Head(q) \in TasksOf(q)
  BY TasksHead

LEMMA NotPending ==
    ASSUME NEW k, k.todo \in Seq(AnyTask),
           \A t \in TasksOf(k.todo) : t.do # "recordsegment"
    PROVE  ~Pending(k)
  BY HeadIn DEF Pending, RecordTask, Task

(* A step other than of a flush leaves what the writer knows. *)
LEMMA KnowsStep ==
    ASSUME StoreInv, NEW h \in Handlers, Shape(handler[h]), NEW do, NEW tasks,
           StepBy(h, do, tasks), handler'[h].wr = handler[h].wr,
           do \notin {"putsegment", "readsegments"}, segments' = segments,
           \A t \in TasksOf(tasks) : t.do # "recordsegment",
           KnowsSegments(handler[h], segments)
    PROVE  KnowsSegments(handler'[h], segments')
<1> DEFINE m == handler[h]
           k == handler'[h]
<1>1. /\ k.todo \in Seq(AnyTask)
      /\ TasksOf(k.todo) = TasksOf(tasks) \cup TasksOf(Tail(m.todo))
      /\ TasksOf(m.todo) = {Now(h)} \cup TasksOf(Tail(m.todo))
      /\ Now(h).do = do
  BY StepTodo
<1>2. \A t \in TasksOf(Tail(m.todo)) : t.do \in After(do)
  BY RestAfter
<1>3. \A t \in TasksOf(k.todo) : t.do # "recordsegment"
  BY <1>1, <1>2, AfterFacts
<1>4. ~Pending(k)
  BY <1>1, <1>3, NotPending
<1>5. (\A t \in TasksOf(k.todo) : t.do # "readsegments") =>
        \A t \in TasksOf(m.todo) : t.do # "readsegments"
  BY <1>1
<1> QED BY <1>4, <1>5 DEF KnowsSegments

(* A row that is about to be deleted with deleteDownwards. *)
LEMMA DownEmptied ==
    ASSUME NEW k, NEW fs, NEW os, NEW x,
           DownTasks(x, fs[x]) \subseteq TasksOf(k.todo),
           NEW t \in DownTasks(x, fs[x])
    PROVE  /\ t.do \notin {"upsert", "bulkdelete", "upload"}
           /\ t.do = "unlink" /\ fs[t.path].loc # NoLoc =>
                Emptying(k, os, fs[t.path].loc)
<1>1. /\ t.do \in {"list", "children", "unlink"}
      /\ t.do = "unlink" => t.path = x
  BY DEF DownTasks, ListTasks, Task
<1>2. ASSUME fs[x].loc # NoLoc
      PROVE  \E s \in TasksOf(k.todo) : s.do = "list" /\ s.loc = fs[x].loc
  <2>1. Task("list", Root, fs[x].loc, NoRow) \in TasksOf(k.todo)
    BY <1>2 DEF DownTasks, ListTasks
  <2> QED BY <2>1 DEF Task
<1> QED BY <1>1, <1>2 DEF Emptying

LEMMA PutData ==
    ASSUME StoreInv, NEW h \in Handlers,
           NEW p \in Blobs, NEW large \in BOOLEAN, PutContent(h, p, large)
    PROVE  DataOK(handler'[h], files, objects, segments)
<1> DEFINE k == handler'[h]
           ls == IF files[p] = NoRow THEN {} ELSE ListTasks(files[p].loc)
<1>1. PICK row : PutCall(h, p, large, row)
  BY PutFacts
<1> DEFINE up == IF large THEN {Task("upload", Root, nextLoc + 1, row)} ELSE {}
           u == Task("upsert", p, NoLoc, row)
<1>2. /\ MayCall(h, {p}) /\ k.op = "put" /\ k.path = p /\ k.wr = handler[h].wr
      /\ TasksOf(k.todo) = ls \cup RowTasks(p, row) \cup up \cup {Return}
  BY <1>1 DEF PutCall, CallRec
<1>3. k.wr.loc = NoLoc
  BY <1>2 DEF MayCall, HasWriter
<1>4. /\ u \in TasksOf(k.todo) /\ u.do = "upsert" /\ u.path = p
      /\ \A t \in TasksOf(k.todo) : t.do \notin {"unlink", "bulkdelete"}
                                    /\ (t.do = "upsert" => t = u)
  BY <1>2 DEF ListTasks, RowTasks, DirTasks, Task, Return
<1>5. files[p] # NoRow /\ files[p].loc # NoLoc =>
        \E s \in TasksOf(k.todo) : s.do = "list" /\ s.loc = files[p].loc
  <2>1. files[p] # NoRow /\ files[p].loc # NoLoc =>
          Task("list", Root, files[p].loc, NoRow) \in TasksOf(k.todo)
    BY <1>2 DEF ListTasks
  <2> QED BY <2>1 DEF Task
<1> HIDE DEF k, u
<1>6. WriterRow(k, files) /\ RowWritten(k, files) /\ KnowsSegments(k, segments)
  BY <1>2, <1>3 DEF WriterRow, RowWritten, KnowsSegments
<1>7. UploadRow(k, files) /\ BulkComplete(k, objects)
  BY <1>2, <1>4 DEF UploadRow, BulkComplete, HasTask
<1>8. RowsEmptied(k, files, objects)
  BY <1>4, <1>5 DEF RowsEmptied, Emptying
<1> QED BY <1>6, <1>7, <1>8 DEF DataOK, k

LEMMA MoveData ==
    ASSUME StoreInv, NEW h \in Handlers, NEW s \in Uploads, NEW d \in Blobs,
           Move(h, s, d)
    PROVE  DataOK(handler'[h], files, objects, segments)
<1> DEFINE k == handler'[h]
<1>1. /\ MayCall(h, {s, d}) /\ k.op = "move" /\ k.wr = handler[h].wr
      /\ TasksOf(k.todo) = {Task("target", d, NoLoc, NoRow),
                              Task("rename", s, NoLoc, NoRow)}
                             \cup DirTasks(Parent[d]) \cup {Return}
  BY MoveFacts DEF MoveCall, CallRec
<1>2. k.wr.loc = NoLoc
  BY <1>1 DEF MayCall, HasWriter
<1>3. \A t \in TasksOf(k.todo) : t.do \notin {"unlink", "upsert", "bulkdelete", "upload"}
  BY <1>1 DEF DirTasks, Task, Return
<1> HIDE DEF k
<1>4. WriterRow(k, files) /\ RowWritten(k, files) /\ KnowsSegments(k, segments)
  BY <1>1, <1>2 DEF WriterRow, RowWritten, KnowsSegments
<1> QED BY <1>3, <1>4, CalmData DEF DataOK, k

LEMMA DeleteData ==
    ASSUME StoreInv, NEW h \in Handlers, NEW p \in Files \cup UploadDirs,
           Delete(h, p)
    PROVE  DataOK(handler'[h], files, objects, segments)
<1> DEFINE k == handler'[h]
<1>1. /\ MayCall(h, {p}) /\ k.op = "delete" /\ k.wr = handler[h].wr
      /\ TasksOf(k.todo) = DownTasks(p, files[p]) \cup {Return}
  BY DeleteFacts DEF DeleteCall, CallRec
<1>2. k.wr.loc = NoLoc
  BY <1>1 DEF MayCall, HasWriter
<1> HIDE DEF k
<1>3. \A t \in DownTasks(p, files[p]) :
        /\ t.do \notin {"upsert", "bulkdelete", "upload"}
        /\ t.do = "unlink" /\ files[t.path].loc # NoLoc =>
             Emptying(k, objects, files[t.path].loc)
  BY <1>1, DownEmptied
<1>4. Return.do = "return"
  BY ReturnTask
<1>5. WriterRow(k, files) /\ RowWritten(k, files) /\ KnowsSegments(k, segments)
  BY <1>1, <1>2 DEF WriterRow, RowWritten, KnowsSegments
<1>6. UploadRow(k, files) /\ RowsEmptied(k, files, objects) /\ BulkComplete(k, objects)
  BY <1>1, <1>3, <1>4 DEF UploadRow, RowsEmptied, BulkComplete
<1> QED BY <1>5, <1>6 DEF DataOK, k

LEMMA WriterData ==
    ASSUME StoreInv, NEW h \in Handlers, NEW p \in Uploads,
           NEW append \in BOOLEAN, Writer(h, p, append)
    PROVE  DataOK(handler'[h], files, objects, segments)
<1> DEFINE k == handler'[h]
           fi == files[p]
           fresh == ~(append /\ fi # NoRow) \/ fi.loc = NoLoc
           dt == IF ~append /\ fi # NoRow THEN DownTasks(p, fi) ELSE {}
           rt == Task("readsegments", Root, k.wr.loc, NoRow)
           rs == IF append /\ fi # NoRow THEN {rt} ELSE {}
<1>0. WriterCall(h, p, append)
  BY WriterCallFacts
<1>1. /\ k.op = (IF append THEN "append" ELSE "create") /\ k.wr.path = p
      /\ k.wr.loc = (IF fresh THEN nextLoc + 1 ELSE fi.loc)
      /\ TasksOf(k.todo) = dt \cup rs \cup {Return}
  BY <1>0 DEF WriterCall, CallRec
<1>2. rt.do = "readsegments" /\ Return.do = "return"
  BY ReturnTask DEF Task
<1> HIDE DEF k, rt
<1>3. \A t \in dt :
        /\ t.do \notin {"upsert", "bulkdelete", "upload"}
        /\ t.do = "unlink" /\ files[t.path].loc # NoLoc =>
             Emptying(k, objects, files[t.path].loc)
  BY <1>1, DownEmptied
<1>4. dt # {} => HasTask(k, "unlink", p)
  <2>1. dt # {} => Task("unlink", p, NoLoc, NoRow) \in TasksOf(k.todo)
    BY <1>1 DEF DownTasks
  <2> QED BY <2>1 DEF HasTask, Task
<1>5. WriterRow(k, files)
  <2>1. CASE files[p] = NoRow \/ append
    BY <1>1, <2>1 DEF WriterRow
  <2>2. CASE files[p] # NoRow /\ ~append
    <3>1. dt # {}
      BY <2>2 DEF DownTasks
    <3> QED BY <1>1, <1>4, <2>2, <3>1 DEF WriterRow
  <2> QED BY <2>1, <2>2
<1>6. UploadRow(k, files) /\ RowsEmptied(k, files, objects) /\ BulkComplete(k, objects)
  <2>1. \A t \in TasksOf(k.todo) :
          /\ t.do \notin {"upsert", "bulkdelete", "upload"}
          /\ t.do = "unlink" /\ files[t.path].loc # NoLoc =>
               Emptying(k, objects, files[t.path].loc)
    BY <1>1, <1>2, <1>3
  <2> QED BY <2>1 DEF UploadRow, RowsEmptied, BulkComplete
<1>7. RowWritten(k, files)
  BY <1>1 DEF RowWritten
<1>8. KnowsSegments(k, segments)
  <2>1. CASE append /\ fi # NoRow
    BY <1>1, <1>2, <2>1 DEF KnowsSegments
  <2>2. CASE ~(append /\ fi # NoRow)
    <3>1. \A s \in segments : s.loc \in 1..nextLoc
      BY DEF StoreInv, TableOK
    <3>2. \A s \in segments : s.loc # k.wr.loc
      BY <1>1, <2>2, <3>1, BoundsNat
    <3> QED BY <3>2 DEF KnowsSegments
  <2> QED BY <2>1, <2>2
<1> QED BY <1>5, <1>6, <1>7, <1>8 DEF DataOK, k

LEMMA RealRows ==
    ASSUME NEW nl, NEW wn, NEW row \in FileRow(nl, wn)
    PROVE  row # NoRow /\ DirRow # NoRow
<1>1. \A s \in Contentses : s \in Seq(Nat)
  <2>1. ASSUME NEW s \in Contentses PROVE s \in Seq(Nat)
    <3>1. PICK n \in 0..MaxUnits : s \in [1..n -> Unit]
      BY DEF Contentses
    <3>2. n \in Nat /\ Unit \subseteq Nat
      BY SwiftPlusAssumption DEF Unit
    <3>3. s \in [1..n -> Nat]
      BY <3>1, <3>2
    <3> QED BY <3>2, <3>3, SeqDef
  <2> QED BY <2>1
<1>2. row \in [size : Int, data : Seq(Nat), loc : Nat]
  BY <1>1 DEF FileRow, Row
<1>3. DirRow \in [size : Int, data : Seq(Nat), loc : Nat]
  BY DEF DirRow, NoLoc
<1> QED BY <1>2, <1>3, SwiftPlusAssumption

LEMMA UseData ==
    ASSUME StoreInv, NEW h \in Handlers, DataOK(handler[h], files, objects, segments),
           NEW op \in {"write", "commit", "close", "cancel"}, NEW extra,
           UseCall(h, op, extra),
           \A t \in extra : t.do \in {"manifest", "delete"},
           op \in {"commit", "close"} => \E t \in extra : t.do = "manifest"
    PROVE  DataOK(handler'[h], files, objects, segments)
<1> DEFINE m == handler[h]
           k == handler'[h]
<1>1. /\ k.op = op /\ k.wr = m.wr /\ m.op = "idle" /\ m.wr.loc # NoLoc
      /\ TasksOf(k.todo) = FlushSet(m.wr) \cup extra \cup {Return}
      /\ ~Pending(k)
  <2>1. Head(k.todo).do # "recordsegment"
    BY DEF UseCall
  <2> QED BY <2>1 DEF UseCall, CallRec, MayUse, HasWriter, Pending, RecordTask, Task
<1>2. m.todo = <<>> /\ TasksOf(m.todo) = {} /\ ~Pending(m)
  BY <1>1, TasksOne DEF StoreInv, HandlerOK, Pending
<1>3. \A t \in TasksOf(k.todo) :
        t.do \in {"putsegment", "recordsegment", "manifest", "delete", "return"}
  BY <1>1, ReturnTask DEF FlushSet, PutTask, RecordTask, Task
<1>4. op \in {"commit", "close"} => \E t \in TasksOf(k.todo) : t.do = "manifest"
  BY <1>1
<1>5. WriterRow(m, files) /\ KnowsSegments(m, segments)
  BY DEF DataOK
<1> HIDE DEF k, m
<1>6. WriterRow(k, files)
  BY <1>1, <1>5 DEF WriterRow
<1>7. RowWritten(k, files)
  BY <1>1, <1>4 DEF RowWritten
<1>8. KnowsSegments(k, segments)
  BY <1>1, <1>2, <1>5 DEF KnowsSegments
<1>9. UploadRow(k, files) /\ RowsEmptied(k, files, objects) /\ BulkComplete(k, objects)
  BY <1>3, CalmData
<1> QED BY <1>6, <1>7, <1>8, <1>9 DEF DataOK, k

(* A step that leaves the rows and segments as they are. *)
LEMMA StepData ==
    ASSUME StoreInv, NEW h \in Handlers, Shape(handler[h]),
           DataOK(handler[h], files, objects, segments),
           NEW do, NEW tasks, StepBy(h, do, tasks), handler'[h].wr = handler[h].wr,
           files' = files, segments' = segments, objects' \subseteq objects,
           do \in {"list", "bulkdelete", "children", "target", "delete"},
           \A t \in TasksOf(tasks) :
             /\ t.do \notin {"recordsegment", "upload", "upsert"}
             /\ t.do = "unlink" /\ files[t.path].loc # NoLoc =>
                  Emptying(handler'[h], objects', files[t.path].loc)
             /\ t.do = "bulkdelete" =>
                  \A o \in objects' : o.loc = t.loc => o.num \in t.nums,
           \A l : Emptying(handler[h], objects, l) =>
                    Emptying(handler'[h], objects', l)
    PROVE  DataOK(handler'[h], files', objects', segments')
<1> DEFINE m == handler[h]
           k == handler'[h]
           T == TasksOf(Tail(m.todo))
<1>1. /\ TasksOf(k.todo) = TasksOf(tasks) \cup T
      /\ TasksOf(m.todo) = {Now(h)} \cup T
      /\ Now(h).do = do
  BY StepTodo
<1>2. k.op = m.op /\ k.path = m.path /\ k.wr = m.wr
  BY DEF StepBy, SameCall
<1>3. /\ WriterRow(m, files) /\ UploadRow(m, files) /\ RowsEmptied(m, files, objects)
      /\ BulkComplete(m, objects) /\ RowWritten(m, files) /\ KnowsSegments(m, segments)
  BY DEF DataOK
<1>4. KnowsSegments(k, segments')
  BY <1>3, KnowsStep
<1>5. \A x \in {"unlink", "upsert"} : \A p : HasTask(m, x, p) => HasTask(k, x, p)
  BY <1>1 DEF HasTask
<1> HIDE DEF k, m, T
<1>6. WriterRow(k, files')
  BY <1>2, <1>3, <1>5 DEF WriterRow
<1>7. UploadRow(k, files')
  BY <1>1, <1>2, <1>3, <1>5 DEF UploadRow
<1>8. RowsEmptied(k, files', objects')
  <2> SUFFICES ASSUME NEW t \in TasksOf(k.todo), t.do \in {"unlink", "upsert"},
                      files[t.path] # NoRow, files[t.path].loc # NoLoc,
                      t.do = "upsert" => files[t.path].loc # t.row.loc
               PROVE  Emptying(k, objects', files[t.path].loc)
    BY DEF RowsEmptied
  <2>1. CASE t \in TasksOf(tasks)
    BY <2>1 DEF k
  <2>2. CASE t \in T
    <3>1. Emptying(m, objects, files[t.path].loc)
      BY <2>2, <1>1, <1>3 DEF RowsEmptied
    <3> QED BY <3>1 DEF k, m
  <2> QED BY <2>1, <2>2, <1>1
<1>9. BulkComplete(k, objects')
  BY <1>1, <1>3 DEF BulkComplete
<1>10. RowWritten(k, files')
  BY <1>1, <1>2, <1>3 DEF RowWritten
<1> QED BY <1>4, <1>6, <1>7, <1>8, <1>9, <1>10 DEF DataOK, k

LEMMA ListData ==
    ASSUME StoreInv, NEW h \in Handlers, Shape(handler[h]),
           DataOK(handler[h], files, objects, segments), ListObjects(h)
    PROVE  DataOK(handler'[h], files', objects', segments')
<1>1. PICK b, tasks :
        /\ StepBy(h, "list", tasks) /\ handler'[h].wr = handler[h].wr
        /\ TasksOf(tasks) = {b}
        /\ b.do = "bulkdelete" /\ b.loc = Now(h).loc
        /\ \A o \in objects : o.loc = b.loc => o.num \in b.nums
        /\ Quiet
  BY ListFacts
<1>2. /\ TasksOf(handler'[h].todo) = {b} \cup TasksOf(Tail(handler[h].todo))
      /\ TasksOf(handler[h].todo) = {Now(h)} \cup TasksOf(Tail(handler[h].todo))
  BY <1>1, StepTodo
<1>3. files' = files /\ objects' = objects /\ segments' = segments
  BY <1>1 DEF Quiet
<1>4. \A l : Emptying(handler[h], objects, l) => Emptying(handler'[h], objects', l)
  BY <1>1, <1>2, <1>3 DEF Emptying
<1> QED BY <1>1, <1>3, <1>4, StepData

LEMMA BulkData ==
    ASSUME StoreInv, NEW h \in Handlers, Shape(handler[h]),
           DataOK(handler[h], files, objects, segments), BulkDelete(h)
    PROVE  DataOK(handler'[h], files', objects', segments')
<1>1. /\ StepBy(h, "bulkdelete", <<>>) /\ handler'[h].wr = handler[h].wr
      /\ objects' = {o \in objects : o.loc # Now(h).loc \/ o.num \notin Now(h).nums}
      /\ files' = files /\ segments' = segments
  BY DoneFacts DEF BulkDelete
<1>2. /\ TasksOf(handler'[h].todo) = TasksOf(Tail(handler[h].todo))
      /\ TasksOf(handler[h].todo) = {Now(h)} \cup TasksOf(Tail(handler[h].todo))
      /\ Now(h).do = "bulkdelete"
  BY <1>1, StepTodo, DoneTasks
<1>3. \A o \in objects' : o.loc # Now(h).loc
  BY <1>1, <1>2 DEF DataOK, BulkComplete
<1>4. \A l : Emptying(handler[h], objects, l) => Emptying(handler'[h], objects', l)
  BY <1>1, <1>2, <1>3 DEF Emptying
<1>5. TasksOf(<<>>) = {}
  BY TasksOne
<1> QED BY <1>1, <1>4, <1>5, StepData

LEMMA DownData ==
    ASSUME StoreInv, NEW h \in Handlers, Shape(handler[h]),
           DataOK(handler[h], files, objects, segments),
           NEW do \in {"children", "target", "delete"}, NEW tasks,
           DownStep(h, do, tasks)
    PROVE  DataOK(handler'[h], files', objects', segments')
<1> DEFINE k == handler'[h]
<1>1. /\ StepBy(h, do, tasks) /\ k.wr = handler[h].wr
      /\ files' = files /\ objects' = objects /\ segments' = segments
  BY DEF DownStep, Quiet
<1>2. /\ TasksOf(k.todo) = TasksOf(tasks) \cup TasksOf(Tail(handler[h].todo))
      /\ TasksOf(handler[h].todo) = {Now(h)} \cup TasksOf(Tail(handler[h].todo))
      /\ Now(h).do = do
  BY <1>1, StepTodo
<1>3. \A l : Emptying(handler[h], objects, l) => Emptying(k, objects', l)
  BY <1>1, <1>2 DEF Emptying
<1>4. ASSUME NEW t \in TasksOf(tasks)
      PROVE  /\ t.do \notin {"recordsegment", "upload", "upsert", "bulkdelete"}
             /\ t.do = "unlink" /\ files[t.path].loc # NoLoc =>
                  Emptying(k, objects', files[t.path].loc)
  <2>1. PICK x : /\ t \in DownTasks(x, files[x])
                 /\ DownTasks(x, files[x]) \subseteq TasksOf(tasks)
    BY DEF DownStep
  <2>2. DownTasks(x, files[x]) \subseteq TasksOf(k.todo)
    BY <2>1, <1>2
  <2>3. t.do \in {"list", "children", "unlink"}
    BY <2>1 DEF DownTasks, ListTasks, Task
  <2> HIDE DEF k
  <2> QED BY <2>1, <2>2, <2>3, DownEmptied
<1> HIDE DEF k
<1> QED BY <1>1, <1>3, <1>4, StepData DEF k

LEMMA DeleteRowData ==
    ASSUME StoreInv, NEW h \in Handlers, Shape(handler[h]),
           DataOK(handler[h], files, objects, segments), DeleteRow(h)
    PROVE  DataOK(handler'[h], files', objects', segments')
<1> DEFINE m == handler[h]
           k == handler'[h]
           p == Now(h).path
<1>1. /\ StepBy(h, "unlink", <<>>) /\ k.wr = m.wr
      /\ segments' = segments /\ objects' = objects
      /\ files' = [files EXCEPT ![p] = NoRow]
  BY DoneFacts DEF DeleteRow
<1>2. /\ TasksOf(k.todo) \subseteq TasksOf(m.todo)
      /\ TasksOf(m.todo) = {Now(h)} \cup TasksOf(k.todo)
      /\ Now(h).do = "unlink"
  BY <1>1, StepTodo, DoneTasks
<1>3. k.op = m.op /\ k.path = m.path
  BY <1>1 DEF StepBy, SameCall
<1>4. m.op \in {"move", "delete", "create", "cancel"}
  BY <1>1, NowShape, KindsFacts
<1>5. \A t \in TasksOf(k.todo) : t.do \notin {"upload", "upsert"}
  <2>1. \A t \in TasksOf(m.todo) : t.do \in KindsOf(m.op) \cup {"return"}
    BY DEF Shape, TaskShape
  <2> QED BY <2>1, <1>2, <1>4, KindsTable DEF Deleting, FlushTasks
<1>6. \A x \in Paths : files'[x] = IF x = p THEN NoRow ELSE files[x]
  BY <1>1 DEF StoreInv, RowsOK
<1>7. \A t \in TasksOf(k.todo) : t.do = "unlink" => t.path \in Paths
  BY <1>2, TaskFacts
<1>8. m.wr.loc # NoLoc => m.wr.path \in Paths
  BY HandlerTypes, SwiftPlusAssumption DEF Files
<1>9. /\ WriterRow(m, files) /\ RowsEmptied(m, files, objects)
      /\ BulkComplete(m, objects) /\ KnowsSegments(m, segments)
  BY DEF DataOK
<1>10. KnowsSegments(k, segments')
  BY <1>1, <1>9, KnowsStep, TasksOne
<1> HIDE DEF m, k, p
<1>11. WriterRow(k, files')
  <2>1. HasTask(m, "unlink", m.wr.path) /\ m.wr.path # p => HasTask(k, "unlink", m.wr.path)
    BY <1>2 DEF HasTask, p
  <2> QED BY <2>1, <1>1, <1>3, <1>6, <1>8, <1>9 DEF WriterRow
<1>12. UploadRow(k, files')
  BY <1>5 DEF UploadRow
<1>13. RowsEmptied(k, files', objects')
  BY <1>1, <1>2, <1>5, <1>6, <1>7, <1>9 DEF RowsEmptied, Emptying
<1>14. BulkComplete(k, objects') /\ RowWritten(k, files')
  BY <1>1, <1>2, <1>3, <1>4, <1>9 DEF BulkComplete, RowWritten
<1> QED BY <1>10, <1>11, <1>12, <1>13, <1>14 DEF DataOK, k

LEMMA UpsertData ==
    ASSUME StoreInv, NEW h \in Handlers, Shape(handler[h]),
           DataOK(handler[h], files, objects, segments), UpsertRow(h)
    PROVE  DataOK(handler'[h], files', objects', segments')
<1> DEFINE m == handler[h]
           k == handler'[h]
           p == Now(h).path
           row == Now(h).row
<1>1. /\ StepBy(h, "upsert", <<>>) /\ k.wr = m.wr
      /\ segments' = segments /\ files' = [files EXCEPT ![p] = row]
      /\ p \in Paths /\ row \in FileRow(nextLoc, written)
      /\ \/ /\ m.op = "put" /\ p = m.path /\ m.wr.loc = NoLoc
            /\ \A s \in TasksOf(m.todo) : s.do = "upload" => s.loc = row.loc
         \/ /\ m.op \in {"commit", "close"} /\ p = m.wr.path
            /\ row.loc = m.wr.loc /\ m.wr.loc # NoLoc
      /\ \A t \in TasksOf(k.todo) : t.do \in {"mkdir", "upload", "return"}
  BY UpsertFacts
<1>2. TasksOf(k.todo) \subseteq TasksOf(m.todo) /\ k.op = m.op /\ k.path = m.path
  BY <1>1, DoneTasks DEF SameCall
<1>3. files'[p] = row /\ row # NoRow
  BY <1>1, RealRows DEF StoreInv, RowsOK
<1>4. KnowsSegments(k, segments')
  BY <1>1, KnowsStep, TasksOne DEF DataOK
<1>5. \A t \in TasksOf(m.todo) : t.do = "upload" => m.op = "put"
  BY KindsFacts, HandlerTypes DEF Shape, TaskShape, HandlerRec
<1> HIDE DEF m, k, p, row
<1>6. WriterRow(k, files') /\ RowWritten(k, files')
  BY <1>1, <1>2, <1>3 DEF WriterRow, RowWritten, HasLoc
<1>7. UploadRow(k, files')
  BY <1>1, <1>2, <1>3, <1>5 DEF UploadRow, HasLoc
<1>8. RowsEmptied(k, files', objects') /\ BulkComplete(k, objects')
  BY <1>1 DEF RowsEmptied, BulkComplete
<1> QED BY <1>4, <1>6, <1>7, <1>8 DEF DataOK, k

LEMMA MakeDirData ==
    ASSUME StoreInv, NEW h \in Handlers, Shape(handler[h]),
           DataOK(handler[h], files, objects, segments), MakeDir(h)
    PROVE  DataOK(handler'[h], files', objects', segments')
<1> DEFINE m == handler[h]
           k == handler'[h]
           d == Now(h).path
           q == mkdirAll(Parent[d])
<1>1. /\ d \in Dirs /\ d \in Paths /\ StepBy(h, "mkdir", q) /\ k.wr = m.wr
      /\ TasksOf(q) = DirTasks(Parent[d])
      /\ segments' = segments
      /\ files' = [files EXCEPT ![d] = IF files[d] = NoRow THEN DirRow ELSE files[d]]
  BY MakeDirFacts
<1>2. \A t \in TasksOf(q) : t.do = "mkdir"
  BY <1>1 DEF DirTasks, Task
<1> HIDE DEF q
<1>3. /\ TasksOf(k.todo) = TasksOf(q) \cup TasksOf(Tail(m.todo))
      /\ TasksOf(m.todo) = {Now(h)} \cup TasksOf(Tail(m.todo))
      /\ Now(h).do = "mkdir"
  BY <1>1, StepTodo
<1>4. k.op = m.op /\ k.path = m.path
  BY <1>1 DEF StepBy, SameCall
<1>5. m.op \in {"put", "move", "commit", "close"}
  BY <1>1, NowShape, KindsFacts
<1>6. \A t \in TasksOf(Tail(m.todo)) : t.do \in {"upload", "return"}
  BY <1>1, RestAfter, AfterTable
<1>7. \A x \in Paths : files[x] # NoRow => files'[x] = files[x]
  BY <1>1 DEF StoreInv, RowsOK
<1>8. \A x \in Files : files'[x] = files[x] /\ x \in Paths
  BY <1>1, SwiftPlusAssumption DEF StoreInv, RowsOK, Dirs
<1>9. m.wr.loc # NoLoc => m.wr.path \in Files
  BY HandlerTypes DEF Files
<1>10. m.op = "put" => m.path \in Paths
  BY DEF Shape
<1>11. KnowsSegments(k, segments')
  BY <1>1, <1>2, KnowsStep DEF DataOK
<1>12. WriterRow(m, files) /\ UploadRow(m, files) /\ RowWritten(m, files)
  BY DEF DataOK
<1>13. \A t \in TasksOf(m.todo) : t.do = "upload" => m.op = "put"
  BY KindsFacts, HandlerTypes DEF Shape, TaskShape, HandlerRec
<1>14. m.op \in {"commit", "close"} => m.wr.loc # NoLoc
  BY DEF StoreInv, HandlerOK, WriterOps, HandlerRec, WriterRec, Loc, NoLoc
<1> HIDE DEF m, k, d
<1>15. WriterRow(k, files')
  BY <1>1, <1>4, <1>5, <1>8, <1>9, <1>12 DEF WriterRow
<1>16. RowWritten(k, files')
  <2>1. m.op \in {"commit", "close"} => HasLoc(files, m.wr.path, m.wr.loc)
    BY <1>3, <1>6, <1>12 DEF RowWritten
  <2> QED BY <2>1, <1>1, <1>4, <1>8, <1>9, <1>14 DEF RowWritten, HasLoc
<1>17. UploadRow(k, files')
  <2> SUFFICES ASSUME NEW t \in TasksOf(k.todo), t.do = "upload"
               PROVE  HasLoc(files', k.path, t.loc)
    BY DEF UploadRow
  <2>1. t \in TasksOf(m.todo) /\ m.op = "put"
    BY <1>2, <1>3, <1>13
  <2>2. ~HasTask(m, "upsert", m.path)
    BY <1>3, <1>6 DEF HasTask
  <2>3. HasLoc(files, m.path, t.loc)
    BY <2>1, <2>2, <1>12 DEF UploadRow
  <2> QED BY <2>1, <2>3, <1>4, <1>7, <1>10 DEF HasLoc
<1>18. RowsEmptied(k, files', objects') /\ BulkComplete(k, objects')
  BY <1>2, <1>3, <1>6 DEF RowsEmptied, BulkComplete
<1> QED BY <1>11, <1>15, <1>16, <1>17, <1>18 DEF DataOK, k

(* The last steps of PutContent and Move. *)
LEMMA LastData ==
    ASSUME StoreInv, NEW h \in Handlers, Shape(handler[h]), Upload(h) \/ Rename(h)
    PROVE  DataOK(handler'[h], files', objects', segments')
<1> DEFINE m == handler[h]
           k == handler'[h]
<1>1. PICK do \in {"upload", "rename"} : StepBy(h, do, <<>>) /\ k.wr = m.wr
  BY DoneFacts DEF Upload, Rename
<1>2. m.op \in {"put", "move"} /\ k.op = m.op
  BY <1>1, NowShape, KindsFacts DEF SameCall
<1>3. k.wr.loc = NoLoc
  BY <1>1, <1>2 DEF Shape
<1>4. \A t \in TasksOf(k.todo) : t.do \in {"mkdir", "return"}
  BY <1>1, DoneTasks, RestAfter, AfterTable
<1> HIDE DEF m, k
<1>5. WriterRow(k, files') /\ RowWritten(k, files') /\ KnowsSegments(k, segments')
  BY <1>2, <1>3 DEF WriterRow, RowWritten, KnowsSegments
<1> QED BY <1>4, <1>5, CalmData DEF DataOK, k

(* The steps of a writer leave the rows as they are. *)
LEMMA WriterRowKept ==
    ASSUME NEW m, NEW k, NEW fs, WriterRow(m, fs), m.op # "create",
           k.wr.loc = m.wr.loc, k.wr.path = m.wr.path
    PROVE  WriterRow(k, fs)
  BY DEF WriterRow

LEMMA ReadSegmentsData ==
    ASSUME StoreInv, NEW h \in Handlers, Shape(handler[h]),
           DataOK(handler[h], files, objects, segments), ReadSegments(h)
    PROVE  DataOK(handler'[h], files', objects', segments')
<1> DEFINE m == handler[h]
           k == handler'[h]
           q == readSegmentInfo(m.wr.loc)
<1>1. /\ StepBy(h, "readsegments", <<>>) /\ files' = files /\ segments' = segments
      /\ m.wr.loc # NoLoc /\ k.wr = [m.wr EXCEPT !.segs = q]
  BY ReadSegmentsFacts DEF Quiet
<1>2. k.wr.segs = q
  <2>1. m.wr \in WriterRec
    BY <1>1, WriterFacts
  <2> QED BY <1>1, <2>1 DEF WriterRec
<1>3. m.op = "append" /\ k.op = m.op /\ k.wr.loc = m.wr.loc /\ k.wr.path = m.wr.path
  BY <1>1, NowShape, KindsFacts DEF SameCall
<1>4. \A t \in TasksOf(k.todo) : t.do = "return"
  BY <1>1, DoneTasks, RestAfter, AfterTable
<1>5. ~Pending(k)
  BY <1>1, <1>4, StepTodo, NotPending
<1>6. \A s \in segments : s.loc = m.wr.loc => s.num \in 1..Len(q)
  BY ReadSegmentInfo
<1>7. WriterRow(k, files')
  BY <1>1, <1>3, WriterRowKept DEF DataOK
<1> HIDE DEF m, k, q
<1>8. KnowsSegments(k, segments') /\ RowWritten(k, files')
  BY <1>1, <1>2, <1>3, <1>5, <1>6 DEF KnowsSegments, RowWritten
<1> QED BY <1>4, <1>7, <1>8, CalmData DEF DataOK, k

LEMMA CutSegmentsData ==
    ASSUME StoreInv, NEW h \in Handlers, Shape(handler[h]),
           DataOK(handler[h], files, objects, segments), CutShort(h), CutSegments(h)
    PROVE  DataOK(handler'[h], files', objects', segments')
<1> DEFINE m == handler[h]
           k == handler'[h]
<1>1. /\ StepBy(h, "readsegments", <<>>) /\ files' = files /\ m.wr.loc # NoLoc
      /\ k.wr.lost
  BY CutSegmentsFacts DEF Quiet
<1>2. m.op = "append" /\ k.op = m.op /\ k.wr.loc = m.wr.loc /\ k.wr.path = m.wr.path
  BY <1>1, NowShape, KindsFacts DEF SameCall
<1>3. \A t \in TasksOf(k.todo) : t.do = "return"
  BY <1>1, DoneTasks, RestAfter, AfterTable
<1>4. WriterRow(k, files')
  BY <1>1, <1>2, WriterRowKept DEF DataOK
<1> HIDE DEF m, k
<1>5. KnowsSegments(k, segments') /\ RowWritten(k, files')
  BY <1>1, <1>2 DEF KnowsSegments, RowWritten
<1> QED BY <1>3, <1>4, <1>5, CalmData DEF DataOK, k

LEMMA PutSegmentData ==
    ASSUME StoreInv, NEW h \in Handlers, Shape(handler[h]),
           DataOK(handler[h], files, objects, segments), PutSegment(h)
    PROVE  DataOK(handler'[h], files', objects', segments')
<1> DEFINE m == handler[h]
           k == handler'[h]
<1>1. /\ StepBy(h, "putsegment", <<>>) /\ files' = files /\ segments' = segments
      /\ m.wr.loc # NoLoc /\ m.op \in {"write", "commit", "close", "cancel"}
      /\ Len(k.wr.segs) = Len(m.wr.segs) + 1 /\ k.wr.lost = m.wr.lost
  BY PutSegmentFacts DEF PutFlush
<1>2. k.op = m.op /\ k.wr.loc = m.wr.loc /\ k.wr.path = m.wr.path
  BY <1>1 DEF StepBy, SameCall
<1>3. /\ TasksOf(m.todo) = {Now(h)} \cup TasksOf(k.todo) /\ Now(h).do = "putsegment"
      /\ \A t \in TasksOf(k.todo) : t.do \in {"recordsegment", "manifest", "delete", "return"}
  <2>1. /\ TasksOf(m.todo) = {Now(h)} \cup TasksOf(Tail(m.todo))
        /\ Now(h).do = "putsegment"
    BY <1>1, StepTodo
  <2>2. TasksOf(k.todo) = TasksOf(Tail(m.todo))
    BY <1>1, DoneTasks
  <2>3. \A t \in TasksOf(Tail(m.todo)) : t.do \in After("putsegment")
    BY <1>1, RestAfter
  <2> HIDE DEF m, k
  <2> QED BY <2>1, <2>2, <2>3, AfterTable
<1>4. \A s \in segments : s.num \in Nat
  BY DEF StoreInv, TableOK
<1>5. Len(m.wr.segs) \in Nat
  BY <1>1, WriterFacts
<1>6. WriterRow(k, files')
  BY <1>1, <1>2, WriterRowKept DEF DataOK
<1>7. KnowsSegments(m, segments) /\ RowWritten(m, files)
  BY DEF DataOK
<1> HIDE DEF m, k
<1>8. m.wr.lost \/ \A s \in segments : s.loc = m.wr.loc => s.num <= Len(m.wr.segs)
  BY <1>1, <1>3, <1>7 DEF KnowsSegments
<1>9. KnowsSegments(k, segments')
  BY <1>1, <1>2, <1>4, <1>5, <1>8 DEF KnowsSegments
<1>10. RowWritten(k, files')
  BY <1>1, <1>2, <1>3, <1>7 DEF RowWritten
<1> QED BY <1>3, <1>6, <1>9, <1>10, CalmData DEF DataOK, k

LEMMA RecordSegmentData ==
    ASSUME StoreInv, NEW h \in Handlers, Shape(handler[h]),
           DataOK(handler[h], files, objects, segments), RecordSegment(h)
    PROVE  DataOK(handler'[h], files', objects', segments')
<1> DEFINE m == handler[h]
           k == handler'[h]
           n == Len(m.wr.segs)
<1>1. /\ StepBy(h, "recordsegment", <<>>) /\ files' = files
      /\ \A s \in segments' : s \in segments \/ s.num = Last(m.wr.segs).num
      /\ m.wr.loc # NoLoc /\ k.wr.segs = m.wr.segs /\ k.wr.lost = m.wr.lost
  BY RecordSegmentFacts DEF RecordFlush
<1>2. k.op = m.op /\ k.wr.loc = m.wr.loc /\ k.wr.path = m.wr.path
  BY <1>1 DEF StepBy, SameCall
<1>3. /\ TasksOf(m.todo) = {Now(h)} \cup TasksOf(k.todo) /\ Now(h).do = "recordsegment"
      /\ \A t \in TasksOf(k.todo) : t.do \in {"manifest", "delete", "return"}
  <2>1. /\ TasksOf(m.todo) = {Now(h)} \cup TasksOf(Tail(m.todo))
        /\ Now(h).do = "recordsegment"
    BY <1>1, StepTodo
  <2>2. TasksOf(k.todo) = TasksOf(Tail(m.todo))
    BY <1>1, DoneTasks
  <2>3. \A t \in TasksOf(Tail(m.todo)) : t.do \in After("recordsegment")
    BY <1>1, RestAfter
  <2> HIDE DEF m, k
  <2> QED BY <2>1, <2>2, <2>3, AfterTable
<1>4. ~Pending(k)
  BY <1>1, <1>3, StepTodo, NotPending
<1>5. m.op \in {"write", "commit", "close", "cancel"}
  BY <1>1, NowShape, KindsFacts DEF FlushTasks
<1>6. n \in Nat /\ Last(m.wr.segs).num = n
  <2>1. n \in Nat /\ Numbered(m, nextUnit, segments) /\ Pending(m)
    BY <1>1, WriterFacts, RecordFacts DEF StepBy
  <2> QED BY <2>1 DEF Numbered, Last
<1>7. WriterRow(k, files')
  BY <1>1, <1>2, <1>5, WriterRowKept DEF DataOK
<1>8. KnowsSegments(m, segments) /\ RowWritten(m, files)
  BY DEF DataOK
<1> HIDE DEF m, k, n
<1>9. m.wr.lost \/ \A s \in segments : s.loc = m.wr.loc => s.num <= n
  BY <1>1, <1>3, <1>8 DEF KnowsSegments, n
<1>10. m.wr.lost \/ \A s \in segments' : s.loc = m.wr.loc => s.num <= n
  BY <1>1, <1>6, <1>9
<1>11. KnowsSegments(k, segments')
  BY <1>1, <1>2, <1>4, <1>10 DEF KnowsSegments, n
<1>12. RowWritten(k, files')
  BY <1>1, <1>2, <1>3, <1>8 DEF RowWritten
<1> QED BY <1>3, <1>7, <1>11, <1>12, CalmData DEF DataOK, k

LEMMA ManifestData ==
    ASSUME StoreInv, NEW h \in Handlers, Shape(handler[h]),
           DataOK(handler[h], files, objects, segments), WriteSLO(h)
    PROVE  DataOK(handler'[h], files', objects', segments')
<1> DEFINE m == handler[h]
           k == handler'[h]
           w == m.wr
           q == writeFileInfo(w.path, ManifestRow(w))
           u == Task("upsert", w.path, NoLoc, ManifestRow(w))
<1>1. /\ StepBy(h, "manifest", q) /\ files' = files /\ segments' = segments
      /\ w.loc # NoLoc /\ k.wr = w
      /\ TasksOf(q) = RowTasks(w.path, ManifestRow(w))
  BY WriteSLOFacts
<1>2. /\ u.do = "upsert" /\ u.path = w.path /\ u.row.loc = w.loc /\ u \in TasksOf(q)
      /\ \A t \in TasksOf(q) : t = u \/ t.do = "mkdir"
  BY <1>1 DEF RowTasks, DirTasks, Task, ManifestRow
<1> HIDE DEF q, u
<1>3. k.op = m.op
  BY <1>1 DEF StepBy, SameCall
<1>4. m.op \in {"commit", "close"}
  BY <1>1, NowShape, KindsFacts
<1>5. /\ TasksOf(k.todo) = TasksOf(q) \cup TasksOf(Tail(m.todo))
      /\ \A t \in TasksOf(Tail(m.todo)) : t.do = "return"
  BY <1>1, StepTodo, RestAfter, AfterTable
<1>6. WriterRow(m, files) /\ KnowsSegments(k, segments')
  BY <1>1, <1>2, KnowsStep DEF DataOK
<1>7. WriterRow(k, files')
  BY <1>1, <1>4, <1>6, WriterRowKept
<1> HIDE DEF m, k
<1>8. files[w.path] = NoRow \/ files[w.path].loc \in {NoLoc, w.loc}
  BY <1>1, <1>4, <1>6 DEF WriterRow
<1>9. RowsEmptied(k, files', objects') /\ BulkComplete(k, objects') /\ UploadRow(k, files')
  BY <1>1, <1>2, <1>5, <1>8 DEF RowsEmptied, BulkComplete, UploadRow
<1>10. RowWritten(k, files')
  BY <1>2, <1>5 DEF RowWritten
<1> QED BY <1>6, <1>7, <1>9, <1>10 DEF DataOK, k

(* The end of a call. *)
LEMMA EndData ==
    ASSUME StoreInv, NEW h \in Handlers, Shape(handler[h]),
           DataOK(handler[h], files, objects, segments),
           files' = files, segments' = segments, IdleRec(handler'[h]),
           \/ handler'[h].wr = NoWriter
           \/ /\ handler[h].wr.loc # NoLoc
              /\ handler'[h].wr.loc = handler[h].wr.loc
              /\ handler'[h].wr.path = handler[h].wr.path
              /\ handler'[h].wr.segs = handler[h].wr.segs
              /\ handler'[h].wr.lost = handler[h].wr.lost
              /\ \A t \in TasksOf(handler[h].todo) : t.do # "readsegments"
              /\ handler[h].op = "create" =>
                   \A t \in TasksOf(handler[h].todo) : t.do # "unlink"
    PROVE  DataOK(handler'[h], files', objects', segments')
<1>1. WriterRow(handler[h], files) /\ KnowsSegments(handler[h], segments)
  BY DEF DataOK
<1>2. CASE handler'[h].wr = NoWriter
  BY <1>2, IdleData DEF NoWriter
<1>3. CASE handler'[h].wr # NoWriter
  <2>1. WriterRow(handler'[h], files')
    BY <1>1, <1>3 DEF WriterRow, HasTask
  <2>2. handler'[h].wr.lost \/ \A s \in segments' :
          s.loc = handler'[h].wr.loc => s.num <= Len(handler'[h].wr.segs)
    BY <1>1, <1>3 DEF KnowsSegments
  <2> QED BY <2>1, <2>2, IdleData
<1> QED BY <1>2, <1>3

LEMMA FinishData ==
    ASSUME StoreInv, NEW h \in Handlers, Shape(handler[h]),
           DataOK(handler[h], files, objects, segments), Finish(h)
    PROVE  DataOK(handler'[h], files', objects', segments')
<1>1. FinishRec(h)
  BY FinishFacts
<1>2. \A t \in TasksOf(handler[h].todo) : t.do = "return"
  <2>1. handler[h].todo \in Seq(AnyTask) /\ handler[h].todo # <<>>
        /\ Head(handler[h].todo).do = "return"
    BY <1>1, HandlerTypes DEF FinishRec, At
  <2> QED BY <2>1, OrderedTail, TasksHead, AfterTable DEF Shape
<1>3. /\ files' = files /\ segments' = segments /\ IdleRec(handler'[h])
      /\ \/ handler'[h].wr = NoWriter
         \/ /\ handler[h].wr.loc # NoLoc
            /\ handler'[h].wr.loc = handler[h].wr.loc
            /\ handler'[h].wr.path = handler[h].wr.path
            /\ handler'[h].wr.segs = handler[h].wr.segs
            /\ handler'[h].wr.lost = handler[h].wr.lost
  BY <1>1 DEF FinishRec, Quiet
<1> QED BY <1>2, <1>3, EndData

LEMMA ErrorData ==
    ASSUME StoreInv, NEW h \in Handlers, Shape(handler[h]),
           DataOK(handler[h], files, objects, segments), Conflict(h) \/ Fault(h)
    PROVE  DataOK(handler'[h], files', objects', segments')
<1>1. ErrorRec(h) /\ files' = files /\ segments' = segments
  BY ErrorFacts DEF Conflict, Fault
<1>2. handler[h].op \notin {"create", "append"} =>
        \A t \in TasksOf(handler[h].todo) : t.do # "readsegments"
  BY KindsFacts, HandlerTypes DEF Shape, TaskShape, HandlerRec
<1> QED BY <1>1, <1>2, EndData DEF ErrorRec

LEMMA StepsData ==
    ASSUME StoreInv, NEW h \in Handlers, Shape(handler[h]),
           DataOK(handler[h], files, objects, segments),
           Step(h) \/ Conflict(h) \/ Fault(h) \/ CutShort(h)
    PROVE  DataOK(handler'[h], files', objects', segments')
<1>3. CASE CutShort(h) /\ CutChildren(h)
  BY <1>3, CutChildrenDown, DownData
<1>1. CASE DeleteChildren(h)
  BY <1>1, ChildrenDown, DownData
<1>2. CASE ReadTarget(h) \/ ReadForDelete(h)
  BY <1>2, ReadRowDown, DownData
<1> QED BY <1>1, <1>2, <1>3, ListData, BulkData, DeleteRowData, UpsertData, MakeDirData,
           LastData, ReadSegmentsData, PutSegmentData, RecordSegmentData,
           ManifestData, FinishData, ErrorData, CutSegmentsData DEF Step, CutShort

LEMMA CallsData ==
    ASSUME StoreInv, NEW h \in Handlers, DataOK(handler[h], files, objects, segments),
           Call(h)
    PROVE  DataOK(handler'[h], files, objects, segments)
<1>1. CASE Write(h)
  BY <1>1, WriteFacts, UseData
<1>2. ASSUME NEW op \in {"commit", "close"}, Commit(h, op)
      PROVE  DataOK(handler'[h], files, objects, segments)
  <2> DEFINE t == Task("manifest", handler[h].wr.path, handler[h].wr.loc, NoRow)
  <2>1. UseCall(h, op, {t}) /\ t.do = "manifest"
    BY <1>2, CommitFacts DEF Task
  <2> HIDE DEF t
  <2> QED BY <2>1, UseData
<1>3. CASE Cancel(h)
  <2> DEFINE t == Task("delete", handler[h].wr.path, NoLoc, NoRow)
  <2>1. UseCall(h, "cancel", {t}) /\ t.do = "delete"
    BY <1>3, CancelFacts DEF Task
  <2> HIDE DEF t
  <2> QED BY <2>1, UseData
<1>4. CASE Close(h) \/ GiveUp(h)
  <2>1. IdleRec(handler'[h]) /\ handler'[h].wr = NoWriter
    BY <1>4, LeaveFacts, IdleWith
  <2>2. handler'[h].wr.loc = NoLoc
    BY <2>1 DEF NoWriter
  <2> QED BY <2>1, <2>2, IdleData
<1> QED BY <1>1, <1>2, <1>3, <1>4, PutData, MoveData, DeleteData, WriterData DEF Call

(* Which steps may change what is stored, and where. *)
LEMMA StepsConfined ==
    ASSUME StoreInv, NEW h \in Handlers, Shape(handler[h]),
           Call(h) \/ Step(h) \/ Conflict(h) \/ Fault(h) \/ CutShort(h)
    PROVE  Confined(h)
<1>1. Alone(h)
  BY StepsShape, CallsShape, ErrorsShape, CutShape
<1>2. CASE Call(h)
  <2>1. Quiet
    BY <1>2 DEF Call, PutContent, Move, Delete, Writer, Write, Commit, Close,
                Cancel, GiveUp, Quiet
  <2> QED BY <1>1, <2>1, QuietConfined
<1>3. CASE \/ ListObjects(h) \/ DeleteChildren(h) \/ ReadTarget(h)
           \/ ReadSegments(h) \/ ReadForDelete(h) \/ Finish(h) \/ CutShort(h)
  <2>1. Quiet
    BY <1>3 DEF ListObjects, DeleteChildren, ReadTarget, ReadSegments,
                ReadForDelete, Finish, CutShort, Quiet
  <2> QED BY <1>1, <2>1, QuietConfined
<1> QED BY <1>2, <1>3, ObjectConfined, RowConfined, ErrorConfined DEF Step

LEMMA NextDataInv ==
    ASSUME StoreInv, ShapeInv, LocInv, DataInv, [Next]_vars
    PROVE  DataInv'
<1>1. ASSUME NEW h \in Handlers, Call(h) \/ Step(h) \/ Conflict(h) \/ Fault(h) \/ CutShort(h)
      PROVE  DataInv'
  <2>1. Shape(handler[h]) /\ DataOK(handler[h], files, objects, segments)
    BY DEF ShapeInv, DataInv
  <2>2. Confined(h)
    BY <1>1, <2>1, StepsConfined
  <2>3. CASE Call(h)
    <3>1. Quiet
      BY <2>3 DEF Call, PutContent, Move, Delete, Writer, Write, Commit, Close,
                  Cancel, GiveUp, Quiet
    <3>2. DataOK(handler'[h], files', objects', segments')
      BY <2>1, <2>3, <3>1, CallsData DEF Quiet
    <3> QED BY <2>2, <3>2, DataNext
  <2>4. CASE Step(h) \/ Conflict(h) \/ Fault(h) \/ CutShort(h)
    BY <2>1, <2>2, <2>4, StepsData, DataNext
  <2> QED BY <1>1, <2>3, <2>4
<1>2. CASE Crash
  <2>1. ASSUME NEW h \in Handlers PROVE DataOK(handler'[h], files', objects', segments')
    BY <1>2, IdleHandlers, IdleData DEF Crash
  <2> QED BY <2>1 DEF DataInv
<1>3. CASE UNCHANGED vars
  BY <1>3 DEF vars, DataInv
<1> QED BY <1>1, <1>2, <1>3 DEF Next

-----------------------------------------------------------------------------
(* Without a failure no writer is in error, and the row of a committed      *)
(* writer is there: NoFaultInv.                                             *)

LEMMA FaultsGrow ==
    ASSUME StoreInv, [Next]_vars, faults' = 0
    PROVE  faults = 0 /\ ~Crash /\ \A h \in Handlers : ~Fault(h) /\ ~CutShort(h)
<1>1. faults \in Nat
  BY SwiftPlusAssumption DEF StoreInv, CountersOK
<1>2. ASSUME Crash PROVE FALSE
  BY <1>1, <1>2 DEF Crash
<1>3. ASSUME NEW h \in Handlers, Fault(h) \/ CutShort(h) PROVE FALSE
  BY <1>1, <1>3 DEF Fault, CutShort
<1>4. ASSUME NEW h \in Handlers, Call(h) PROVE faults = 0
  <2>1. faults' = faults \/ faults' = faults + 1
    BY <1>4 DEF Call, PutContent, Move, Delete, Writer, Write, Commit, Close,
                Cancel, GiveUp
  <2> QED BY <2>1, <1>1
<1>5. ASSUME NEW h \in Handlers, Step(h) \/ Conflict(h) PROVE faults = 0
  <2>1. UNCHANGED bounds
    BY <1>5 DEF Step, ListObjects, BulkDelete, DeleteChildren, DeleteRow, UpsertRow,
                MakeDir, Upload, ReadTarget, Rename, ReadSegments, PutSegment,
                RecordSegment, WriteSLO, ReadForDelete, Finish, Conflict
  <2> QED BY <2>1 DEF bounds
<1>6. ASSUME UNCHANGED vars PROVE faults = 0
  BY <1>6 DEF vars
<1> QED BY <1>2, <1>3, <1>4, <1>5, <1>6 DEF Next

(* The number of a new segment is never taken. *)
LEMMA NoSegmentConflict ==
    ASSUME StoreInv, NEW h \in Handlers, Shape(handler[h]),
           KnowsSegments(handler[h], segments), ~handler[h].wr.lost
    PROVE  ~SegmentConflict(h)
<1> SUFFICES ASSUME SegmentConflict(h) PROVE FALSE
  OBVIOUS
<1> DEFINE m == handler[h]
           n == Len(m.wr.segs)
<1>1. At(h, "recordsegment") /\ \E s \in segments :
        s.loc = m.wr.loc /\ s.num = Last(m.wr.segs).num
  BY DEF SegmentConflict
<1>2. m.wr.loc # NoLoc /\ Pending(m) /\ m.op \notin {"create", "append"}
  BY <1>1, RecordFacts
<1>3. n \in Nat /\ Last(m.wr.segs).num = n
  <2>1. n \in Nat /\ Numbered(m, nextUnit, segments)
    BY <1>2, WriterFacts
  <2> QED BY <2>1, <1>2 DEF Numbered, Last
<1>4. \A t \in TasksOf(m.todo) : t.do # "readsegments"
  BY <1>2, KindsFacts, HandlerTypes DEF Shape, TaskShape, HandlerRec
<1> HIDE DEF m
<1>5. \A s \in segments : s.loc = m.wr.loc => s.num < n
  BY <1>2, <1>4 DEF KnowsSegments, m
<1>6. \A s \in segments : s.num \in Nat
  BY DEF StoreInv, TableOK
<1> QED BY <1>1, <1>3, <1>5, <1>6

LEMMA CallsUnharmed ==
    ASSUME StoreInv, NEW h \in Handlers, Call(h), Unharmed(handler[h], files)
    PROVE  Unharmed(handler'[h], files)
<1> DEFINE m == handler[h]
           k == handler'[h]
<1>1. CASE k.wr.loc = NoLoc
  BY <1>1 DEF Unharmed
<1>2. ASSUME NEW op \in {"write", "commit", "close", "cancel"}, NEW extra,
             UseCall(h, op, extra)
      PROVE  Unharmed(k, files)
  <2>1. k.op = op /\ k.wr = m.wr /\ m.op = "idle"
    BY <1>2 DEF UseCall, CallRec, MayUse
  <2> HIDE DEF k
  <2> QED BY <2>1 DEF Unharmed
<1>3. ASSUME NEW p \in Uploads, NEW append \in BOOLEAN, Writer(h, p, append)
      PROVE  Unharmed(k, files)
  <2>1. WriterCall(h, p, append)
    BY <1>3, WriterCallFacts
  <2>2. ~k.wr.err /\ ~k.wr.committed
    BY <2>1 DEF WriterCall
  <2> QED BY <2>1, <2>2 DEF Unharmed, WriterCall
<1>4. ASSUME NEW p \in Blobs, NEW large \in BOOLEAN, PutContent(h, p, large)
      PROVE  k.wr.loc = NoLoc
  <2>1. PICK row : PutCall(h, p, large, row)
    BY <1>4, PutFacts
  <2> QED BY <2>1 DEF PutCall, CallRec, MayCall, HasWriter
<1>5. ASSUME NEW s \in Uploads, NEW d \in Blobs, Move(h, s, d)
      PROVE  k.wr.loc = NoLoc
  <2>1. MoveCall(h, s, d)
    BY <1>5, MoveFacts
  <2> QED BY <2>1 DEF MoveCall, CallRec, MayCall, HasWriter
<1>6. ASSUME NEW p \in Files \cup UploadDirs, Delete(h, p)
      PROVE  k.wr.loc = NoLoc
  <2>1. DeleteCall(h, p)
    BY <1>6, DeleteFacts
  <2> QED BY <2>1 DEF DeleteCall, CallRec, MayCall, HasWriter
<1>7. CASE Close(h) \/ GiveUp(h)
  <2>1. k.wr = NoWriter
    BY <1>7, LeaveFacts, IdleWith
  <2> QED BY <2>1, <1>1 DEF NoWriter
<1>8. ASSUME NEW op \in {"commit", "close"}, Commit(h, op) PROVE Unharmed(k, files)
  <2>1. \E extra : UseCall(h, op, extra)
    BY <1>8, CommitFacts
  <2> QED BY <2>1, <1>2
<1>9. CASE Write(h) \/ Cancel(h)
  <2>1. \E op \in {"write", "cancel"} : \E extra : UseCall(h, op, extra)
    BY <1>9, WriteFacts, CancelFacts
  <2> QED BY <2>1, <1>2
<1> QED BY <1>1, <1>3, <1>4, <1>5, <1>6, <1>7, <1>8, <1>9 DEF Call

(* A step that keeps the writer, and the row at its path. *)
LEMMA SameUnharmed ==
    ASSUME NEW m, NEW k, NEW fs, NEW gs, Unharmed(m, fs), SameCall(m, k),
           m.wr.loc # NoLoc =>
             /\ k.wr.err = m.wr.err /\ k.wr.committed = m.wr.committed
             /\ k.wr.lost = m.wr.lost
             /\ m.op \notin {"create", "cancel"} /\ HasLoc(fs, m.wr.path, m.wr.loc) =>
                  HasLoc(gs, m.wr.path, m.wr.loc)
    PROVE  Unharmed(k, gs)
  BY DEF Unharmed, SameCall

LEMMA StepsUnharmed ==
    ASSUME StoreInv, NEW h \in Handlers, Shape(handler[h]),
           DataOK(handler[h], files, objects, segments), Step(h),
           Unharmed(handler[h], files)
    PROVE  Unharmed(handler'[h], files')
<1> DEFINE m == handler[h]
           k == handler'[h]
<1>1. ASSUME NEW do, NEW tasks, StepBy(h, do, tasks), files' = files,
             \/ k.wr = m.wr
             \/ /\ k.wr.err = m.wr.err /\ k.wr.committed = m.wr.committed
                /\ k.wr.lost = m.wr.lost
      PROVE  Unharmed(k, files')
  BY <1>1, SameUnharmed DEF StepBy
<1>2. CASE ListObjects(h)
  BY <1>1, <1>2, ListFacts DEF Quiet
<1>3. CASE BulkDelete(h) \/ Upload(h)
  <2>1. \E do : StepBy(h, do, <<>>) /\ k.wr = m.wr /\ files' = files
    BY <1>3, DoneFacts DEF BulkDelete, Upload
  <2> QED BY <2>1, <1>1
<1>4. CASE DeleteChildren(h) \/ ReadTarget(h) \/ ReadForDelete(h)
  <2>1. PICK do, tasks : DownStep(h, do, tasks)
    BY <1>4, ChildrenDown, ReadRowDown
  <2> QED BY <2>1, <1>1 DEF DownStep, Quiet
<1>5. CASE WriteSLO(h)
  BY <1>1, <1>5, WriteSLOFacts
<1>6. CASE ReadSegments(h)
  <2>1. /\ StepBy(h, "readsegments", <<>>) /\ Quiet /\ m.wr.loc # NoLoc
        /\ k.wr = [m.wr EXCEPT !.segs = readSegmentInfo(Now(h).loc)]
    BY <1>6, ReadSegmentsFacts
  <2>2. m.wr \in WriterRec
    BY <2>1, WriterFacts
  <2>3. /\ k.wr.err = m.wr.err /\ k.wr.committed = m.wr.committed
        /\ k.wr.lost = m.wr.lost
    BY <2>1, <2>2 DEF WriterRec
  <2> QED BY <2>1, <2>3, <1>1 DEF Quiet
<1>7. CASE PutSegment(h)
  BY <1>1, <1>7, PutSegmentFacts DEF PutFlush
<1>8. CASE RecordSegment(h)
  BY <1>1, <1>8, RecordSegmentFacts DEF RecordFlush
<1>9. CASE DeleteRow(h)
  <2>1. StepBy(h, "unlink", <<>>) /\ k.wr = m.wr
    BY <1>9, DoneFacts DEF DeleteRow
  <2>2. m.op \in {"move", "delete", "create", "cancel"}
    BY <2>1, NowShape, KindsFacts
  <2>3. m.wr.loc # NoLoc => m.op \in {"create", "cancel"}
    BY <2>2 DEF Shape
  <2> QED BY <2>1, <2>3, SameUnharmed DEF StepBy
<1>10. CASE UpsertRow(h)
  <2>1. /\ StepBy(h, "upsert", <<>>) /\ k.wr = m.wr
        /\ files' = [files EXCEPT ![Now(h).path] = Now(h).row]
        /\ Now(h).path \in Paths /\ Now(h).row \in FileRow(nextLoc, written)
        /\ m.wr.loc # NoLoc => Now(h).path = m.wr.path /\ Now(h).row.loc = m.wr.loc
    BY <1>10, UpsertFacts
  <2>2. m.wr.loc # NoLoc => HasLoc(files', m.wr.path, m.wr.loc)
    BY <2>1, RealRows DEF HasLoc, StoreInv, RowsOK
  <2> QED BY <2>1, <2>2, SameUnharmed DEF StepBy
<1>11. CASE MakeDir(h)
  <2>1. PICK tasks : StepBy(h, "mkdir", tasks)
    BY <1>11, MakeDirFacts
  <2>2. /\ k.wr = m.wr /\ Now(h).path \in Paths
        /\ files' = [files EXCEPT ![Now(h).path] =
                       IF files[Now(h).path] = NoRow THEN DirRow ELSE files[Now(h).path]]
    BY <1>11, MakeDirFacts
  <2>3. \A x \in Paths : files[x] # NoRow => files'[x] = files[x]
    BY <2>2 DEF StoreInv, RowsOK
  <2>4. m.wr.loc # NoLoc => m.wr.path \in Paths
    BY HandlerTypes, SwiftPlusAssumption DEF Files
  <2>5. m.wr.loc # NoLoc /\ HasLoc(files, m.wr.path, m.wr.loc) =>
          HasLoc(files', m.wr.path, m.wr.loc)
    BY <2>3, <2>4 DEF HasLoc
  <2> QED BY <2>1, <2>2, <2>5, SameUnharmed DEF StepBy
<1>12. CASE Rename(h)
  BY <1>12, RenameFacts DEF Unharmed
<1>13. CASE Finish(h)
  <2>1. FinishRec(h)
    BY <1>13, FinishFacts
  <2>2. \A t \in TasksOf(m.todo) : t.do = "return"
    <3>1. m.todo \in Seq(AnyTask) /\ m.todo # <<>> /\ Head(m.todo).do = "return"
      BY <2>1, HandlerTypes DEF FinishRec, At
    <3> QED BY <3>1, OrderedTail, TasksHead, AfterTable DEF Shape
  <2>3. m.op = "commit" => HasLoc(files, m.wr.path, m.wr.loc)
    BY <2>2 DEF DataOK, RowWritten
  <2>4. /\ files' = files /\ k.op = "idle"
        /\ \/ k.wr = NoWriter
           \/ /\ m.wr.loc # NoLoc /\ m.op # "cancel"
              /\ k.wr.loc = m.wr.loc /\ k.wr.path = m.wr.path /\ k.wr.err = m.wr.err
              /\ k.wr.committed = (m.wr.committed \/ m.op = "commit")
              /\ k.wr.lost = m.wr.lost
    BY <2>1 DEF FinishRec, Quiet, IdleRec
  <2>5. CASE k.wr = NoWriter
    BY <2>5 DEF Unharmed, NoWriter
  <2>6. CASE k.wr # NoWriter
    BY <2>3, <2>4, <2>6 DEF Unharmed
  <2> QED BY <2>5, <2>6
<1> QED BY <1>2, <1>3, <1>4, <1>5, <1>6, <1>7, <1>8, <1>9, <1>10, <1>11, <1>12,
           <1>13 DEF Step

LEMMA ConflictUnharmed ==
    ASSUME StoreInv, NEW h \in Handlers, Shape(handler[h]),
           DataOK(handler[h], files, objects, segments), Conflict(h),
           Unharmed(handler[h], files)
    PROVE  Unharmed(handler'[h], files')
<1> DEFINE m == handler[h]
           k == handler'[h]
<1>1. ErrorRec(h) /\ files' = files
  BY ErrorFacts DEF Conflict
<1>2. ~SegmentConflict(h)
  <2>1. At(h, "recordsegment") => m.wr.loc # NoLoc
    BY RecordFacts
  <2> QED BY <2>1, NoSegmentConflict DEF DataOK, Unharmed, SegmentConflict
<1>3. PICK do \in {"rename", "manifest"} : At(h, do)
  BY <1>2 DEF Conflict, RenameConflict, ManifestRefused
<1>4. Now(h).do = do /\ Now(h) \in TasksOf(m.todo)
  BY <1>3, NowUsed
<1>5. m.op \in {"move", "commit", "close"}
  BY <1>4, KindsFacts, HandlerTypes DEF Shape, TaskShape, HandlerRec
<1>6. CASE k.wr = NoWriter
  BY <1>6 DEF Unharmed, NoWriter
<1>7. CASE k.wr # NoWriter
  <2>1. /\ m.wr.loc # NoLoc /\ k.wr.loc = m.wr.loc /\ k.wr.path = m.wr.path
        /\ k.wr.committed = m.wr.committed /\ ~k.wr.err /\ k.op = "idle"
        /\ k.wr.lost = m.wr.lost
    BY <1>1, <1>4, <1>7 DEF ErrorRec, FlushTasks, IdleRec
  <2> QED BY <2>1, <1>1, <1>5 DEF Unharmed
<1> QED BY <1>6, <1>7

(* Only the loop that is cut short makes a Delete miss something. *)
LEMMA StaysComplete ==
    ASSUME StoreInv, NEW h \in Handlers, ~Incomplete(handler[h]),
           Call(h) \/ Step(h) \/ Conflict(h)
    PROVE  ~Incomplete(handler'[h])
<1> DEFINE m == handler[h]
           k == handler'[h]
<1>0. m \in HandlerRec /\ handler \in [Handlers -> HandlerRec]
  BY HandlerTypes DEF StoreInv
<1>1. CASE Call(h)
  <2>1. ASSUME NEW p \in Files \cup UploadDirs, Delete(h, p) PROVE ~Incomplete(k)
    <3> DEFINE q == deleteDownwards(p, files[p]) \o <<Return>>
    <3>1. handler' = [handler EXCEPT ![h] =
            [m EXCEPT !.op = "delete", !.path = p, !.dest = Root, !.val = Absent,
                      !.todo = q]]
      BY <2>1 DEF Delete, Enter
    <3> HIDE DEF q
    <3>2. k.val = Absent
      BY <1>0, <3>1 DEF HandlerRec
    <3> QED BY <3>2, SwiftPlusAssumption DEF Incomplete
  <2>2. ASSUME NEW p \in Blobs, NEW large \in BOOLEAN, PutContent(h, p, large)
        PROVE  k.op # "delete"
    <3>1. \E row : PutCall(h, p, large, row)
      BY <2>2, PutFacts
    <3> QED BY <3>1 DEF PutCall, CallRec
  <2>3. ASSUME NEW s \in Uploads, NEW d \in Blobs, Move(h, s, d) PROVE k.op # "delete"
    BY <2>3, MoveFacts DEF MoveCall, CallRec
  <2>4. ASSUME NEW p \in Uploads, NEW append \in BOOLEAN, Writer(h, p, append)
        PROVE  k.op # "delete"
    BY <2>4, WriterCallFacts DEF WriterCall, CallRec
  <2>5. CASE Write(h) \/ Commit(h, "commit") \/ Commit(h, "close") \/ Cancel(h)
    <3>1. \E op \in {"write", "commit", "close", "cancel"} :
            \E extra : UseCall(h, op, extra)
      BY <2>5, WriteFacts, CommitFacts, CancelFacts
    <3> QED BY <3>1 DEF UseCall, CallRec, Incomplete
  <2>6. CASE Close(h) \/ GiveUp(h)
    BY <2>6, LeaveFacts, IdleWith DEF IdleRec, Incomplete
  <2> QED BY <1>1, <2>1, <2>2, <2>3, <2>4, <2>5, <2>6 DEF Call, Incomplete
<1>2. ASSUME NEW q, Continue(h, q) PROVE ~Incomplete(k)
  <2> DEFINE r == q \o Tail(m.todo)
  <2>1. handler' = [handler EXCEPT ![h] = [m EXCEPT !.todo = r]]
    BY <1>2 DEF Continue, Then
  <2> HIDE DEF r
  <2>2. k.op = m.op /\ k.val = m.val
    BY <1>0, <2>1 DEF HandlerRec
  <2> QED BY <2>2 DEF Incomplete
<1>3. CASE ReadSegments(h) \/ PutSegment(h) \/ RecordSegment(h)
  <2>1. k.op = m.op /\ k.val = m.val
    BY <1>0, <1>3 DEF ReadSegments, PutSegment, RecordSegment, Then, HandlerRec
  <2> QED BY <2>1 DEF Incomplete
<1>4. CASE Finish(h) \/ Conflict(h)
  <2>1. k.op = "idle"
    BY <1>4, FinishFacts, ErrorFacts DEF FinishRec, ErrorRec, IdleRec, Conflict
  <2> QED BY <2>1 DEF Incomplete
<1>5. CASE Step(h) /\ ~ReadSegments(h) /\ ~PutSegment(h) /\ ~RecordSegment(h) /\ ~Finish(h)
  <2>1. \E q : Continue(h, q)
    BY <1>5 DEF Step, ListObjects, BulkDelete, DeleteChildren, DeleteRow, UpsertRow,
                MakeDir, Upload, ReadTarget, Rename, WriteSLO, ReadForDelete
  <2> QED BY <1>2, <2>1
<1> QED BY <1>1, <1>3, <1>4, <1>5

LEMMA NextNoFaultInv ==
    ASSUME StoreInv, ShapeInv, LocInv, DataInv, NoFaultInv, [Next]_vars
    PROVE  NoFaultInv'
<1> SUFFICES ASSUME faults' = 0, NEW g \in Handlers
             PROVE  Unharmed(handler'[g], files') /\ ~Incomplete(handler'[g])
  BY DEF NoFaultInv
<1>1. /\ ~Crash /\ \A h \in Handlers : ~Fault(h) /\ ~CutShort(h)
      /\ \A h \in Handlers : Unharmed(handler[h], files) /\ ~Incomplete(handler[h])
  BY FaultsGrow DEF NoFaultInv
<1>2. ASSUME NEW h \in Handlers, Call(h) \/ Step(h) \/ Conflict(h)
      PROVE  Unharmed(handler'[g], files') /\ ~Incomplete(handler'[g])
  <2>1. Shape(handler[h]) /\ DataOK(handler[h], files, objects, segments)
    BY DEF ShapeInv, DataInv
  <2>2. Confined(h)
    BY <1>2, <2>1, StepsConfined
  <2>3. CASE g = h
    <3>1. CASE Call(h)
      <4>1. files' = files
        BY <3>1 DEF Call, PutContent, Move, Delete, Writer, Write, Commit, Close,
                    Cancel, GiveUp
      <4> QED BY <2>3, <3>1, <4>1, <1>1, CallsUnharmed, StaysComplete
    <3>2. CASE Step(h)
      BY <2>1, <2>3, <3>2, <1>1, StepsUnharmed, StaysComplete
    <3>3. CASE Conflict(h)
      BY <2>1, <2>3, <3>3, <1>1, ConflictUnharmed, StaysComplete
    <3> QED BY <1>2, <3>1, <3>2, <3>3
  <2>4. CASE g # h
    <3>1. Undisturbed(handler[g])
      BY <2>2, <2>4, ApartUndisturbed DEF LocInv, LocsOK
    <3>2. handler'[g] = handler[g]
      BY <2>2, <2>4 DEF Confined, Alone
    <3> QED BY <3>1, <3>2, <1>1, KeptUnharmed DEF ShapeInv
  <2> QED BY <2>3, <2>4
<1>3. CASE UNCHANGED vars
  BY <1>1, <1>3 DEF vars
<1> QED BY <1>1, <1>2, <1>3 DEF Next

-----------------------------------------------------------------------------
(* No garbage in Swift. *)

HeldBy(m, l) == l = m.wr.loc \/ \E t \in TasksOf(m.todo) : t.loc = l

Kept(l, fs, hs, cs) ==
    \/ l \in cs
    \/ \E p \in Paths : HasLoc(fs, p, l)
    \/ \E g \in Handlers : HeldBy(hs[g], l)

KeptInv ==
    faults = 0 => \A o \in objects : Kept(o.loc, files, handler, cancelled)

LEMMA GarbageIs == NoGarbage <=> KeptInv
<1>1. \A h \in Handlers : \A l : l \in LocsOf(h) <=> HeldBy(handler[h], l)
  BY DEF LocsOf, HeldBy, Tasks, TasksOf
<1>2. \A l : (\E p \in Paths : files[p] # NoRow /\ files[p].loc = l) <=>
             (\E p \in Paths : HasLoc(files, p, l))
  BY DEF HasLoc
<1> QED BY <1>1, <1>2 DEF NoGarbage, Kept, KeptInv

(* An object that a step adds is at a location that its handler holds. *)
LEMMA NewObjects ==
    ASSUME StoreInv, NEW h \in Handlers, Shape(handler[h]),
           Call(h) \/ Step(h) \/ Conflict(h), NEW o \in objects'
    PROVE  \/ \E x \in objects : x.loc = o.loc
           \/ HeldBy(handler[h], o.loc)
<1>1. CASE objects' \subseteq objects
  BY <1>1
<1>2. CASE Upload(h)
  <2>1. objects' = PutObject(Plain(Now(h).loc, 0, handler[h].val)) /\ At(h, "upload")
    BY <1>2 DEF Upload
  <2>2. o \in objects \/ o.loc = Now(h).loc
    BY <2>1 DEF PutObject, Plain
  <2>3. Now(h) \in TasksOf(handler[h].todo)
    BY <2>1, NowUsed
  <2> QED BY <2>2, <2>3 DEF HeldBy
<1>3. CASE PutSegment(h)
  <2>1. \E n, d : objects' = PutObject(Plain(handler[h].wr.loc, n, d))
    BY <1>3 DEF PutSegment
  <2>2. o \in objects \/ o.loc = handler[h].wr.loc
    BY <2>1 DEF PutObject, Plain
  <2> QED BY <2>2 DEF HeldBy
<1>4. CASE WriteSLO(h)
  <2>1. \E s : objects' = PutObject(Manifest(handler[h].wr.loc, s))
    BY <1>4 DEF WriteSLO
  <2>2. o \in objects \/ o.loc = handler[h].wr.loc
    BY <2>1 DEF PutObject, Manifest
  <2> QED BY <2>2 DEF HeldBy
<1>5. CASE Call(h) \/ Conflict(h)
  <2>1. objects' = objects
    BY <1>5 DEF Call, PutContent, Move, Delete, Writer, Write, Commit, Close,
                Cancel, GiveUp, Conflict
  <2> QED BY <2>1
<1>6. CASE Step(h) /\ ~Upload(h) /\ ~PutSegment(h) /\ ~WriteSLO(h)
  <2>1. objects' \subseteq objects
    BY <1>6 DEF Step, ListObjects, BulkDelete, DeleteChildren, DeleteRow, UpsertRow,
                MakeDir, ReadTarget, Rename, ReadSegments, RecordSegment,
                ReadForDelete, Finish
  <2> QED BY <2>1
<1> QED BY <1>2, <1>3, <1>4, <1>5, <1>6

(* A row that a step deletes or overwrites has its objects still listed for *)
(* deletion, or has none.                                                   *)
LEMMA RowKept ==
    ASSUME StoreInv, NEW h \in Handlers, Shape(handler[h]),
           DataOK(handler[h], files, objects, segments), Step(h),
           NEW l, l # NoLoc, NEW p \in Paths, HasLoc(files, p, l),
           NEW o \in objects', o.loc = l
    PROVE  (\E q \in Paths : HasLoc(files', q, l)) \/ HeldBy(handler'[h], l)
<1> DEFINE m == handler[h]
           k == handler'[h]
<1>1. CASE files'[p] = files[p]
  BY <1>1 DEF HasLoc
<1>2. CASE DeleteRow(h) \/ UpsertRow(h)
  <2>1. /\ \E do \in {"unlink", "upsert"} : StepBy(h, do, <<>>)
        /\ files' = [files EXCEPT ![Now(h).path] = IF UpsertRow(h) THEN Now(h).row ELSE NoRow]
        /\ objects' = objects
        /\ UpsertRow(h) => Now(h).do = "upsert" /\ Now(h).row # NoRow
        /\ Now(h).do = "upsert" => UpsertRow(h)
    <3>1. CASE UpsertRow(h)
      <4>1. /\ StepBy(h, "upsert", <<>>) /\ objects' = objects
            /\ files' = [files EXCEPT ![Now(h).path] = Now(h).row]
            /\ Now(h).row # NoRow
        BY <3>1, UpsertFacts, RealRows
      <4>2. Now(h).do = "upsert"
        BY <4>1, StepTodo
      <4> QED BY <3>1, <4>1, <4>2
    <3>2. CASE DeleteRow(h) /\ ~UpsertRow(h)
      <4>1. StepBy(h, "unlink", <<>>)
        BY <3>2, DoneFacts DEF DeleteRow
      <4>2. Now(h).do = "unlink"
        BY <4>1, StepTodo
      <4> QED BY <3>2, <4>1, <4>2 DEF DeleteRow
    <3> QED BY <1>2, <3>1, <3>2
  <2>2. /\ TasksOf(m.todo) = {Now(h)} \cup TasksOf(k.todo)
        /\ Now(h).do \in {"unlink", "upsert"}
    BY <2>1, StepTodo, DoneTasks
  <2>3. CASE p # Now(h).path
    BY <2>1, <2>3, <1>1 DEF StoreInv, RowsOK
  <2>4. CASE p = Now(h).path /\ Now(h).do = "upsert" /\ Now(h).row.loc = l
    BY <2>1, <2>4 DEF HasLoc, StoreInv, RowsOK
  <2>5. CASE p = Now(h).path /\ (Now(h).do = "upsert" => Now(h).row.loc # l)
    <3>1. Emptying(m, objects, l)
      BY <2>2, <2>5 DEF DataOK, RowsEmptied, HasLoc
    <3>2. \E s \in TasksOf(m.todo) : s.do \in {"list", "bulkdelete"} /\ s.loc = l
      BY <2>1, <3>1 DEF Emptying
    <3> QED BY <2>2, <3>2 DEF HeldBy
  <2> QED BY <2>3, <2>4, <2>5
<1>3. CASE MakeDir(h)
  <2>1. files' = [files EXCEPT ![Now(h).path] =
                    IF files[Now(h).path] = NoRow THEN DirRow ELSE files[Now(h).path]]
    BY <1>3, MakeDirFacts
  <2>2. files'[p] = files[p]
    BY <2>1 DEF StoreInv, RowsOK, HasLoc
  <2> QED BY <2>2, <1>1
<1>4. CASE Rename(h)
  <2>1. /\ m.path \in Paths /\ m.dest \in Paths /\ m.path # m.dest
        /\ files' = IF files[m.path] = NoRow THEN files
                    ELSE [files EXCEPT ![m.path] = NoRow, ![m.dest] = files[m.path]]
    BY <1>4, RenameFacts
  <2>2. p = m.dest => files[m.path] = NoRow
    <3>1. At(h, "rename") /\ ~(files[Now(h).path] # NoRow /\ files[m.dest] # NoRow)
      BY <1>4 DEF Rename, RenameConflict
    <3>2. Now(h).path = m.path
      BY <3>1, NowUsed DEF Shape, TaskShape
    <3> QED BY <3>1, <3>2 DEF HasLoc
  <2>3. CASE p = m.path
    BY <2>1, <2>3 DEF HasLoc, StoreInv, RowsOK
  <2>4. CASE p # m.path
    BY <2>1, <2>2, <2>4, <1>1 DEF StoreInv, RowsOK
  <2> QED BY <2>3, <2>4
<1>5. CASE ~DeleteRow(h) /\ ~UpsertRow(h) /\ ~MakeDir(h) /\ ~Rename(h)
  <2>1. files' = files
    BY <1>5 DEF Step, ListObjects, BulkDelete, DeleteChildren, Upload, ReadTarget,
                ReadSegments, PutSegment, RecordSegment, WriteSLO, ReadForDelete, Finish
  <2> QED BY <2>1, <1>1
<1> QED BY <1>2, <1>3, <1>4, <1>5

(* What a handler holds, it lets go of only when it is in use or empty. *)
LEMMA StepHeld ==
    ASSUME StoreInv, NEW h \in Handlers, Shape(handler[h]),
           DataOK(handler[h], files, objects, segments), Step(h), ~Finish(h),
           NEW l, l # NoLoc, HeldBy(handler[h], l), NEW o \in objects', o.loc = l
    PROVE  (\E q \in Paths : HasLoc(files', q, l)) \/ HeldBy(handler'[h], l)
<1> DEFINE m == handler[h]
           k == handler'[h]
<1>1. ASSUME NEW do, NEW tasks, StepBy(h, do, tasks),
             do \notin {"list", "bulkdelete", "upload"}
      PROVE  HeldBy(k, l)
  <2>1. /\ TasksOf(k.todo) = TasksOf(tasks) \cup TasksOf(Tail(m.todo))
        /\ TasksOf(m.todo) = {Now(h)} \cup TasksOf(Tail(m.todo))
        /\ Now(h).do = do
    BY <1>1, StepTodo
  <2>2. k.wr.loc = m.wr.loc
    BY <1>1 DEF StepBy, SameCall
  <2>3. Now(h).loc \in {NoLoc, m.wr.loc}
    BY <1>1, NowShape, <2>1 DEF TaskShape
  <2> HIDE DEF k, m
  <2> QED BY <2>1, <2>2, <2>3 DEF HeldBy, m
<1>2. CASE ListObjects(h)
  <2>1. PICK b, tasks :
        /\ StepBy(h, "list", tasks) /\ TasksOf(tasks) = {b} /\ b.loc = Now(h).loc
    BY <1>2, ListFacts
  <2>2. /\ TasksOf(k.todo) = {b} \cup TasksOf(Tail(m.todo))
        /\ TasksOf(m.todo) = {Now(h)} \cup TasksOf(Tail(m.todo))
    BY <2>1, StepTodo
  <2>3. k.wr.loc = m.wr.loc
    BY <2>1 DEF StepBy, SameCall
  <2> QED BY <2>1, <2>2, <2>3 DEF HeldBy
<1>3. CASE BulkDelete(h)
  <2>1. /\ StepBy(h, "bulkdelete", <<>>)
        /\ objects' = {x \in objects : x.loc # Now(h).loc \/ x.num \notin Now(h).nums}
    BY <1>3, DoneFacts DEF BulkDelete
  <2>2. /\ TasksOf(m.todo) = {Now(h)} \cup TasksOf(k.todo) /\ Now(h).do = "bulkdelete"
        /\ k.wr.loc = m.wr.loc
    BY <2>1, StepTodo, DoneTasks DEF SameCall
  <2>3. Now(h).loc # l
    BY <2>1, <2>2 DEF DataOK, BulkComplete
  <2> QED BY <2>2, <2>3 DEF HeldBy
<1>4. CASE Upload(h)
  <2>1. StepBy(h, "upload", <<>>) /\ files' = files
    BY <1>4, DoneFacts DEF Upload
  <2>2. /\ TasksOf(m.todo) = {Now(h)} \cup TasksOf(k.todo) /\ Now(h).do = "upload"
        /\ k.wr.loc = m.wr.loc
    BY <2>1, StepTodo, DoneTasks DEF SameCall
  <2>3. \A t \in TasksOf(k.todo) : t.do = "return"
    BY <2>1, DoneTasks, RestAfter, AfterTable
  <2>4. HasLoc(files, m.path, Now(h).loc)
    BY <2>2, <2>3 DEF DataOK, UploadRow, HasTask
  <2>5. m.path \in Paths
    <3>1. m.op = "put"
      BY <2>1, NowShape, KindsFacts
    <3> QED BY <3>1 DEF Shape
  <2> QED BY <2>1, <2>2, <2>4, <2>5 DEF HeldBy
<1>5. CASE DeleteChildren(h) \/ ReadTarget(h) \/ ReadForDelete(h)
  <2>1. \E do \in {"children", "target", "delete"} : \E tasks : DownStep(h, do, tasks)
    BY <1>5, ChildrenDown, ReadRowDown
  <2> QED BY <2>1, <1>1 DEF DownStep
<1>6. CASE DeleteRow(h) \/ UpsertRow(h) \/ Rename(h)
  <2>1. \E do \in {"unlink", "upsert", "rename"} : StepBy(h, do, <<>>)
    BY <1>6, DoneFacts DEF DeleteRow, UpsertRow, Rename
  <2> QED BY <2>1, <1>1
<1>7. CASE MakeDir(h)
  BY <1>1, <1>7, MakeDirFacts
<1>8. CASE ReadSegments(h) \/ PutSegment(h) \/ RecordSegment(h) \/ WriteSLO(h)
  BY <1>1, <1>8, ReadSegmentsFacts, PutSegmentFacts, RecordSegmentFacts, WriteSLOFacts
<1> QED BY <1>2, <1>3, <1>4, <1>5, <1>6, <1>7, <1>8 DEF Step

LEMMA EndHeld ==
    ASSUME StoreInv, NEW h \in Handlers, Shape(handler[h]),
           DataOK(handler[h], files, objects, segments),
           Unharmed(handler[h], files), Call(h) \/ Finish(h) \/ Conflict(h),
           NEW l, l # NoLoc, HeldBy(handler[h], l)
    PROVE  \/ \E q \in Paths : HasLoc(files', q, l)
           \/ HeldBy(handler'[h], l)
           \/ l \in cancelled'
<1> DEFINE m == handler[h]
           k == handler'[h]
<1>0. m.wr.loc # NoLoc => m.wr.path \in Paths
  BY HandlerTypes, SwiftPlusAssumption DEF Files
<1>1. CASE Call(h)
  <2>1. m.op = "idle" /\ files' = files
    BY <1>1 DEF Call, PutContent, Move, Delete, Writer, Write, Commit, Close,
                Cancel, GiveUp, MayCall, MayUse
  <2>2. TasksOf(m.todo) = {}
    BY <2>1, TasksOne DEF StoreInv, HandlerOK
  <2>3. l = m.wr.loc /\ HasWriter(h)
    BY <2>2 DEF HeldBy, HasWriter
  <2>4. CASE Close(h)
    BY <2>1, <2>3, <2>4, <1>0 DEF Close, Unharmed
  <2>5. CASE GiveUp(h)
    BY <2>3, <2>5 DEF GiveUp, Unharmed
  <2>6. ASSUME NEW op, NEW extra, UseCall(h, op, extra) PROVE HeldBy(k, l)
    BY <2>3, <2>6 DEF UseCall, CallRec, HeldBy
  <2>7. CASE Write(h) \/ Cancel(h)
    BY <2>6, <2>7, WriteFacts, CancelFacts
  <2>8. ASSUME NEW op \in {"commit", "close"}, Commit(h, op) PROVE HeldBy(k, l)
    BY <2>6, <2>8, CommitFacts
  <2> QED BY <1>1, <2>3, <2>4, <2>5, <2>7, <2>8
          DEF Call, PutContent, Move, Delete, Writer, MayCall
<1>2. CASE Finish(h)
  <2>1. FinishRec(h) /\ files' = files
    BY <1>2, FinishFacts DEF Finish
  <2>2. \A t \in TasksOf(m.todo) : t.do = "return"
    <3>1. m.todo \in Seq(AnyTask) /\ m.todo # <<>> /\ Head(m.todo).do = "return"
      BY <2>1, HandlerTypes DEF FinishRec, At
    <3> QED BY <3>1, OrderedTail, TasksHead, AfterTable DEF Shape
  <2>3. \A t \in TasksOf(m.todo) : t.loc = NoLoc
    BY <2>2 DEF Shape, TaskShape, FlushTasks
  <2>4. l = m.wr.loc
    BY <2>3 DEF HeldBy
  <2>5. m.op \in Ops /\ m.op # "idle" /\ m.op \notin {"put", "move", "delete"}
    <3>1. m.todo # <<>> /\ m.op \in Ops
      BY <2>1, HandlerTypes DEF FinishRec, At, HandlerRec
    <3>2. m.op # "idle"
      BY <3>1 DEF StoreInv, HandlerOK
    <3> QED BY <3>1, <3>2, <2>4 DEF Shape
  <2>6. CASE m.op \in {"create", "append", "write", "commit"}
    BY <2>1, <2>4, <2>6 DEF FinishRec, HeldBy
  <2>7. CASE m.op = "close"
    BY <2>1, <2>2, <2>4, <2>7, <1>0 DEF DataOK, RowWritten
  <2>8. CASE m.op = "cancel"
    BY <2>1, <2>4, <2>8 DEF FinishRec
  <2> QED BY <2>5, <2>6, <2>7, <2>8 DEF Ops
<1>3. CASE Conflict(h)
  <2>1. ErrorRec(h) /\ ~SegmentConflict(h)
    <3>1. At(h, "recordsegment") => m.wr.loc # NoLoc
      BY RecordFacts
    <3>2. ~SegmentConflict(h)
      BY <3>1, NoSegmentConflict DEF DataOK, Unharmed, SegmentConflict
    <3> QED BY <1>3, <3>2, ErrorFacts DEF Conflict
  <2>2. PICK do \in {"rename", "manifest"} : At(h, do)
    BY <1>3, <2>1 DEF Conflict, RenameConflict, ManifestRefused
  <2>3. /\ m.todo \in Seq(AnyTask) /\ m.todo # <<>> /\ Head(m.todo).do = do
        /\ Head(m.todo) \in TasksOf(m.todo)
    BY <2>2, HandlerTypes, HeadIn DEF At
  <2>4. \A t \in TasksOf(m.todo) : t.do \in {"rename", "manifest", "mkdir", "return"}
    BY <2>3, OrderedTail, TasksHead, AfterTable DEF Shape
  <2>5. \A t \in TasksOf(m.todo) : t.loc \in {NoLoc, m.wr.loc}
    BY <2>4 DEF Shape, TaskShape, FlushTasks
  <2>6. m.op \in {"move", "commit", "close"}
    BY <2>3, KindsFacts, HandlerTypes DEF Shape, TaskShape, HandlerRec
  <2>7. l = m.wr.loc
    BY <2>5 DEF HeldBy
  <2> QED BY <2>1, <2>6, <2>7 DEF ErrorRec, HeldBy
<1> QED BY <1>1, <1>2, <1>3

LEMMA NextKeptInv ==
    ASSUME StoreInv, ShapeInv, LocInv, DataInv, NoFaultInv, KeptInv, [Next]_vars
    PROVE  KeptInv'
<1> SUFFICES ASSUME faults' = 0, NEW o \in objects'
             PROVE  Kept(o.loc, files', handler', cancelled')
  BY DEF KeptInv
<1>1. /\ faults = 0 /\ ~Crash /\ \A h \in Handlers : ~Fault(h) /\ ~CutShort(h)
      /\ \A h \in Handlers : Unharmed(handler[h], files)
  BY FaultsGrow DEF NoFaultInv
<1>2. \A x \in objects : Kept(x.loc, files, handler, cancelled)
  BY <1>1 DEF KeptInv
<1>3. ASSUME NEW h \in Handlers, Call(h) \/ Step(h) \/ Conflict(h)
      PROVE  Kept(o.loc, files', handler', cancelled')
  <2> DEFINE l == o.loc
  <2>1. Shape(handler[h]) /\ DataOK(handler[h], files, objects, segments)
    BY DEF ShapeInv, DataInv
  <2>2. Alone(h) /\ StoreInv'
    BY <1>3, <2>1, StepsConfined, NextStoreInv DEF Confined
  <2>3. l # NoLoc
    BY <2>2 DEF StoreInv, ObjectsOK, NoLoc
  <2>4. cancelled \subseteq cancelled'
    <3>1. CASE Finish(h)
      BY <3>1, FinishFacts DEF FinishRec
    <3>2. CASE ~Finish(h)
      BY <1>3, <3>2 DEF Call, PutContent, Move, Delete, Writer, Write, Commit, Close,
                Cancel, GiveUp, Step, ListObjects, BulkDelete, DeleteChildren,
                DeleteRow, UpsertRow, MakeDir, Upload, ReadTarget, Rename, ReadSegments,
                PutSegment, RecordSegment, WriteSLO, ReadForDelete, Conflict, ghosts
    <3> QED BY <3>1, <3>2
  <2>5. ASSUME HeldBy(handler[h], l) PROVE Kept(l, files', handler', cancelled')
    <3>1. \/ \E q \in Paths : HasLoc(files', q, l)
          \/ HeldBy(handler'[h], l)
          \/ l \in cancelled'
      BY <1>1, <1>3, <2>1, <2>3, <2>5, StepHeld, EndHeld
    <3> QED BY <3>1 DEF Kept
  <2>6. ASSUME NEW p \in Paths, HasLoc(files, p, l)
        PROVE  Kept(l, files', handler', cancelled')
    <3>1. CASE Call(h) \/ Conflict(h)
      <4>1. files' = files
        BY <3>1 DEF Call, PutContent, Move, Delete, Writer, Write, Commit, Close,
                    Cancel, GiveUp, Conflict
      <4> QED BY <2>6, <4>1 DEF Kept
    <3>2. CASE Step(h)
      BY <3>2, <2>1, <2>3, <2>6, RowKept DEF Kept
    <3> QED BY <1>3, <3>1, <3>2
  <2>7. ASSUME NEW g \in Handlers \ {h}, HeldBy(handler[g], l)
        PROVE  Kept(l, files', handler', cancelled')
    BY <2>2, <2>7 DEF Alone, Kept
  <2>8. Kept(l, files, handler, cancelled) \/ HeldBy(handler[h], l)
    BY <1>2, <1>3, <2>1, NewObjects
  <2> QED BY <2>4, <2>5, <2>6, <2>7, <2>8 DEF Kept
<1>4. CASE UNCHANGED vars
  BY <1>2, <1>4 DEF vars
<1> QED BY <1>1, <1>3, <1>4 DEF Next

LEMMA InitExclusive ==
    Init => StoreInv /\ ShapeInv /\ LocInv /\ DataInv /\ NoFaultInv /\ KeptInv
<1> SUFFICES ASSUME Init PROVE StoreInv /\ ShapeInv /\ LocInv /\ DataInv /\ NoFaultInv
                               /\ KeptInv
  OBVIOUS
<1>1. /\ handler = [h \in Handlers |-> IdleHandler] /\ objects = {} /\ segments = {}
      /\ files = [p \in Paths |-> NoRow]
  BY DEF Init
<1>2. \A h \in Handlers : /\ IdleRec(handler[h]) /\ handler[h].wr = NoWriter
                          /\ handler[h].wr.loc = NoLoc /\ Shape(handler[h])
  BY <1>1, IdleHandlers
<1>3. UniqueLocs(files)
  BY <1>1 DEF UniqueLocs
<1>4. StoreInv /\ ShapeInv
  BY <1>2, InitStoreInv DEF ShapeInv
<1>5. LocInv
  BY <1>1, <1>3, AllIdleLoc DEF LocInv
<1>6. DataInv
  BY <1>2, IdleData DEF DataInv
<1>7. NoFaultInv
  BY <1>2 DEF NoFaultInv, Unharmed, Incomplete, IdleRec
<1>8. KeptInv
  BY <1>1 DEF KeptInv
<1> QED BY <1>4, <1>5, <1>6, <1>7, <1>8

ExclusiveInv ==
    StoreInv /\ ShapeInv /\ LocInv /\ DataInv /\ NoFaultInv /\ KeptInv

(* Called by one caller at a time per path and subtree, calls stay apart    *)
(* to the last statement: the paths that two handlers may touch, and the    *)
(* locations in Swift that they may fill or empty, are disjoint, no two     *)
(* files share a location, and everything that deletes or overwrites a row  *)
(* has emptied its location before.  This holds whatever fails; as long as  *)
(* nothing does, no writer is in error and nothing is left in Swift         *)
(* (NoFaultInv, KeptInv).                                                   *)
THEOREM CallsStayApart == Exclusive => (Spec => []ExclusiveInv)
<1> SUFFICES ASSUME Exclusive PROVE Spec => []ExclusiveInv
  OBVIOUS
<1>1. Init => ExclusiveInv
  BY InitExclusive DEF ExclusiveInv
<1>2. ExclusiveInv /\ [Next]_vars => ExclusiveInv'
  BY NextStoreInv, NextShapeInv, NextLocInv, NextDataInv, NextNoFaultInv,
     NextKeptInv DEF ExclusiveInv
<1> QED BY <1>1, <1>2, PTL DEF Spec

(* As long as nothing fails, PutContent, Move, Delete, Commit and Close     *)
(* leave no object in Swift that no row, writer or call knows of, but for   *)
(* those of a cancelled writer.                                             *)
THEOREM NothingIsLeftBehind == Exclusive => (Spec => []NoGarbage)
<1> SUFFICES ASSUME Exclusive PROVE Spec => []NoGarbage
  OBVIOUS
<1>1. ExclusiveInv => NoGarbage
  BY GarbageIs DEF ExclusiveInv
<1> QED BY <1>1, CallsStayApart, PTL

-----------------------------------------------------------------------------
(* A directory is deleted after everything in it, and the target of a       *)
(* rename is free: TreeInv.                                                 *)

(* Before position i of q, x is deleted, or all that is in d is read.       *)
Before(q, i, x, d) ==
    \E j \in DOMAIN q :
        /\ j < i
        /\ \/ q[j].do = "unlink" /\ q[j].path = x
           \/ q[j].do = "children" /\ q[j].path = d

LEMMA CoveredIs ==
    ASSUME NEW q, NEW fs
    PROVE  Covered(q, fs) <=>
             \A i \in DOMAIN q : q[i].do = "unlink" =>
               \A x \in Paths : Parent[x] = q[i].path /\ fs[x] # NoRow =>
                 Before(q, i, x, q[i].path)
  BY DEF Covered, Before

LEMMA CoveredNone ==
    ASSUME NEW q, NEW fs, \A t \in TasksOf(q) : t.do # "unlink"
    PROVE  Covered(q, fs)
  BY DEF Covered, TasksOf

LEMMA CoveredDown ==
    ASSUME StoreInv, NEW p \in Paths, files[p] # NoRow, NEW fs
    PROVE  Covered(deleteDownwards(p, files[p]), fs)
<1> DEFINE c == Task("children", p, NoLoc, NoRow)
           u == Task("unlink", p, NoLoc, NoRow)
           q == deleteDownwards(p, files[p])
<1>1. /\ c.do = "children" /\ c.path = p /\ u.do = "unlink" /\ u.path = p
  BY DEF Task
<1>2. CASE p \in Files
  <2>1. \A x \in Paths : Parent[x] # p
    BY <1>2, SwiftPlusAssumption DEF Dirs
  <2>2. \A t \in TasksOf(q) : t.do = "unlink" => t.path = p
    <3>1. TasksOf(q) = DownTasks(p, files[p])
      BY DownReturn
    <3> QED BY <3>1 DEF DownTasks, ListTasks, Task
  <2>3. \A i \in DOMAIN q : q[i] \in TasksOf(q)
    BY DEF TasksOf
  <2> HIDE DEF q
  <2> QED BY <2>1, <2>2, <2>3 DEF Covered, q
<1>3. CASE p \notin Files
  <2>1. files[p] = DirRow
    BY <1>3 DEF StoreInv, RowsOK
  <2>2. files[p].loc = NoLoc /\ files[p].size = -1
    BY <2>1 DEF DirRow
  <2>3. q = <<>> \o <<c>> \o <<u>>
    BY <2>2 DEF deleteDownwards, deleteBlobs
  <2> HIDE DEF c, u, q
  <2>4. <<c>> \in Seq({c, u}) /\ <<u>> \in Seq({c, u}) /\ <<>> \in Seq({c, u})
    OBVIOUS
  <2> DEFINE a == <<>> \o <<c>>
  <2>5. a \in Seq({c, u}) /\ Len(a) = 1 /\ a[1] = c
    BY <2>4
  <2> HIDE DEF a
  <2> DEFINE b == <<u>>
  <2>6. b \in Seq({c, u}) /\ Len(b) = 1 /\ b[1] = u
    BY <2>4
  <2>7. q = a \o b
    BY <2>3 DEF a
  <2> HIDE DEF b
  <2>8. q \in Seq({c, u}) /\ Len(q) = 2 /\ q[1] = a[1] /\ q[2] = b[1]
    <3> DEFINE S == {c, u}
    <3>1. a \in Seq(S)
      BY <2>5
    <3>2. b \in Seq(S)
      BY <2>6
    <3> HIDE DEF S
    <3>3. /\ a \o b \in Seq(S) /\ Len(a \o b) = Len(a) + Len(b)
          /\ (1 <= Len(a) => (a \o b)[1] = a[1])
          /\ (2 > Len(a) /\ 2 <= Len(a) + Len(b) => (a \o b)[2] = b[2 - Len(a)])
      BY <3>1, <3>2
    <3> QED BY <3>3, <2>5, <2>6, <2>7 DEF S
  <2>9. DOMAIN q = 1..2 /\ q[1] = c /\ q[2] = u
    BY <2>5, <2>6, <2>8
  <2> QED BY <1>1, <2>9 DEF Covered, q
<1> QED BY <1>2, <1>3

LEMMA CoveredMore ==
    ASSUME NEW a \in Seq(AnyTask), NEW b \in Seq(AnyTask), NEW fs, Covered(a, fs),
           \A t \in TasksOf(b) : t.do # "unlink"
    PROVE  Covered(a \o b, fs)
<1> DEFINE c == a \o b
<1>1. /\ c \in Seq(AnyTask) /\ Len(c) = Len(a) + Len(b)
      /\ \A i \in 1..Len(a) : c[i] = a[i]
      /\ \A i \in 1..Len(c) : i > Len(a) => c[i] = b[i - Len(a)]
  OBVIOUS
<1>2. /\ DOMAIN a = 1..Len(a) /\ DOMAIN b = 1..Len(b) /\ DOMAIN c = 1..Len(c)
      /\ Len(a) \in Nat /\ Len(b) \in Nat
  BY <1>1
<1> HIDE DEF c
<1>3. ASSUME NEW i \in 1..Len(c), c[i].do = "unlink" PROVE i \in 1..Len(a)
  <2>1. CASE i > Len(a)
    <3>1. c[i] = b[i - Len(a)] /\ i - Len(a) \in DOMAIN b
      BY <1>1, <1>2, <2>1
    <3> QED BY <3>1, <1>3 DEF TasksOf
  <2> QED BY <2>1, <1>2
<1>4. ASSUME NEW i \in 1..Len(a), NEW x, NEW d, Before(a, i, x, d)
      PROVE  Before(c, i, x, d)
  <2>1. PICK j \in 1..Len(a) :
          /\ j < i
          /\ \/ a[j].do = "unlink" /\ a[j].path = x
             \/ a[j].do = "children" /\ a[j].path = d
    BY <1>2, <1>4 DEF Before
  <2>2. j \in DOMAIN c /\ c[j] = a[j]
    BY <1>1, <1>2
  <2> QED BY <2>1, <2>2 DEF Before
<1>5. Covered(c, fs)
  BY <1>1, <1>2, <1>3, <1>4, CoveredIs
<1> QED BY <1>5 DEF c

(* The head of q is done and replaced by a. *)
LEMMA CoveredStep ==
    ASSUME NEW q \in Seq(AnyTask), q # <<>>, NEW a \in Seq(AnyTask), NEW fs, NEW gs,
           Covered(q, fs), Covered(a, gs),
           \A x \in Paths : gs[x] # NoRow => fs[x] # NoRow,
           Head(q).do = "unlink" => gs[Head(q).path] = NoRow,
           Head(q).do = "children" =>
             \A x \in Paths : Parent[x] = Head(q).path /\ gs[x] # NoRow =>
               \E t \in TasksOf(a) : t.do = "unlink" /\ t.path = x
    PROVE  Covered(a \o Tail(q), gs)
<1> DEFINE b == Tail(q)
           c == a \o b
           n == Len(a)
<1>1. /\ b \in Seq(AnyTask) /\ Len(b) = Len(q) - 1 /\ q[1] = Head(q)
      /\ \A i \in 1..Len(b) : b[i] = q[i + 1]
      /\ Len(q) \in Nat \ {0} /\ DOMAIN q = 1..Len(q)
  OBVIOUS
<1> HIDE DEF b
<1>1a. b \in Seq(AnyTask)
  BY <1>1
<1>2. /\ c \in Seq(AnyTask) /\ Len(c) = n + Len(b)
      /\ \A i \in 1..n : c[i] = a[i]
      /\ \A i \in 1..Len(c) : i > n => c[i] = b[i - n]
  BY <1>1a
<1>3. /\ DOMAIN a = 1..n /\ DOMAIN c = 1..Len(c) /\ n \in Nat /\ Len(c) \in Nat
  BY <1>2
<1> HIDE DEF c, n
<1>4. ASSUME NEW i \in 1..Len(c), c[i].do = "unlink", NEW x \in Paths,
             Parent[x] = c[i].path, gs[x] # NoRow
      PROVE  Before(c, i, x, c[i].path)
  <2>1. CASE i <= n
    <3>1. i \in DOMAIN a /\ c[i] = a[i]
      BY <2>1, <1>2, <1>3
    <3>2. Before(a, i, x, a[i].path)
      BY <3>1, <1>4, CoveredIs
    <3>3. PICK j \in 1..n :
            /\ j < i
            /\ \/ a[j].do = "unlink" /\ a[j].path = x
               \/ a[j].do = "children" /\ a[j].path = a[i].path
      BY <3>2, <1>3 DEF Before
    <3>4. j \in DOMAIN c /\ c[j] = a[j]
      BY <3>1, <3>3, <1>2, <1>3
    <3> QED BY <3>1, <3>3, <3>4 DEF Before
  <2>2. CASE i > n
    <3> DEFINE o == i - n + 1
    <3>0. i - n \in 1..Len(b) /\ c[i] = b[i - n]
      BY <2>2, <1>1, <1>2, <1>3
    <3>1. c[i] = q[o] /\ o \in 1..Len(q) /\ o > 1
      BY <3>0, <1>1, <1>3
    <3>2. Before(q, o, x, q[o].path)
      BY <3>1, <1>1, <1>4, CoveredIs
    <3>3. PICK j \in 1..Len(q) :
            /\ j < o
            /\ \/ q[j].do = "unlink" /\ q[j].path = x
               \/ q[j].do = "children" /\ q[j].path = q[o].path
      BY <3>2, <1>1 DEF Before
    <3>4. CASE j = 1
      <4>1. Head(q).do = "children" /\ Head(q).path = c[i].path
        BY <3>1, <3>3, <3>4, <1>1, <1>4
      <4>2. PICK t \in TasksOf(a) : t.do = "unlink" /\ t.path = x
        BY <4>1, <1>4
      <4>3. PICK e \in 1..n : t = a[e]
        BY <1>3 DEF TasksOf
      <4>4. e \in DOMAIN c /\ c[e] = t /\ e < i
        BY <4>3, <2>2, <1>2, <1>3
      <4> QED BY <4>2, <4>4 DEF Before
    <3>5. CASE j # 1
      <4> DEFINE e == j - 1 + n
      <4>1. e \in 1..Len(c) /\ e > n /\ e < i /\ e - n = j - 1 /\ j - 1 \in 1..Len(b)
        BY <3>3, <3>5, <1>1, <1>2, <1>3
      <4>2. c[e] = b[j - 1] /\ b[j - 1] = q[j]
        BY <4>1, <1>1, <1>2
      <4> HIDE DEF e
      <4>3. e \in DOMAIN c
        BY <4>1, <1>3
      <4> QED BY <3>1, <3>3, <4>1, <4>2, <4>3 DEF Before
    <3> QED BY <3>4, <3>5
  <2> QED BY <2>1, <2>2, <1>3
<1>5. Covered(c, gs)
  BY <1>3, <1>4, CoveredIs
<1> QED BY <1>5 DEF c, b

(* What DeleteChildren has to do. *)
LEMMA CoveredChildren ==
    ASSUME StoreInv, NEW h \in Handlers, NEW d, NEW xs, NEW tasks,
           Children(h, d, xs, tasks), NEW fs
    PROVE  Covered(tasks, fs)
<1>1. tasks \in Seq(AnyTask)
  BY DEF Children, EachDown
<1>2. DOMAIN tasks = 1..Len(tasks) /\ Len(tasks) \in Nat
  BY <1>1
<1>3. ASSUME NEW n \in 1..Len(tasks), tasks[n].do = "unlink", NEW y \in Paths,
             Parent[y] = tasks[n].path, fs[y] # NoRow
      PROVE  Before(tasks, n, y, tasks[n].path)
  <2>1. PICK x \in List(d), i \in Nat :
          /\ Block(tasks, i, deleteDownwards(x, files[x]))
          /\ n - i \in 1..Len(deleteDownwards(x, files[x]))
    BY DEF Children, EachDown
  <2> DEFINE b == deleteDownwards(x, files[x])
  <2>2. x \in Paths /\ files[x] # NoRow
    BY DEF List
  <2>3. b \in Seq(AnyTask) /\ Covered(b, fs)
    BY <2>2, DownReturn, CoveredDown
  <2>4. Block(tasks, i, b) /\ n - i \in 1..Len(b)
    BY <2>1
  <2> HIDE DEF b
  <2>5. /\ i + Len(b) <= Len(tasks) /\ Len(b) \in Nat /\ DOMAIN b = 1..Len(b)
        /\ \A j \in 1..Len(b) : tasks[i + j] = b[j]
    BY <2>3, <2>4 DEF Block
  <2>6. tasks[n] = b[n - i]
    <3>1. i + (n - i) = n
      OBVIOUS
    <3> QED BY <2>4, <2>5, <3>1
  <2>7. Before(b, n - i, y, b[n - i].path)
    BY <2>3, <2>4, <2>5, <2>6, <1>3, CoveredIs
  <2>8. PICK j \in 1..Len(b) :
          /\ j < n - i
          /\ \/ b[j].do = "unlink" /\ b[j].path = y
             \/ b[j].do = "children" /\ b[j].path = b[n - i].path
    BY <2>5, <2>7 DEF Before
  <2>9. i + j \in DOMAIN tasks /\ i + j < n /\ tasks[i + j] = b[j]
    BY <2>5, <2>8, <1>2
  <2> QED BY <2>6, <2>8, <2>9 DEF Before
<1> QED BY <1>2, <1>3, CoveredIs

LEMMA CalmTree ==
    ASSUME NEW k, NEW fs, \A t \in TasksOf(k.todo) : t.do \notin {"unlink", "rename"}
    PROVE  TreeOK(k, fs)
  BY CoveredNone DEF TreeOK, TargetFree

LEMMA CallsTree ==
    ASSUME StoreInv, NEW h \in Handlers, Call(h)
    PROVE  TreeOK(handler'[h], files)
<1> DEFINE k == handler'[h]
<1>1. ASSUME NEW p \in Blobs, NEW large \in BOOLEAN, PutContent(h, p, large)
      PROVE  TreeOK(k, files)
  <2>1. PICK row : PutCall(h, p, large, row)
    BY <1>1, PutFacts
  <2>2. \A t \in TasksOf(k.todo) : t.do \in {"list", "upsert", "mkdir", "upload", "return"}
    BY <2>1 DEF PutCall, ListTasks, RowTasks, DirTasks, Task, Return
  <2> QED BY <2>2, CalmTree
<1>2. ASSUME NEW s \in Uploads, NEW d \in Blobs, Move(h, s, d)
      PROVE  TreeOK(k, files)
  <2> DEFINE r == Task("target", d, NoLoc, NoRow)
  <2>1. /\ k.dest = d
        /\ TasksOf(k.todo) = {r, Task("rename", s, NoLoc, NoRow)}
                             \cup DirTasks(Parent[d]) \cup {Return}
    BY <1>2, MoveFacts DEF MoveCall, CallRec
  <2>2. /\ \A t \in TasksOf(k.todo) : t.do # "unlink"
        /\ r \in TasksOf(k.todo) /\ r.do = "target" /\ r.path = d
    BY <2>1 DEF DirTasks, Task, Return
  <2> HIDE DEF r, k
  <2>3. TargetFree(k, files)
    BY <2>1, <2>2 DEF TargetFree, HasTask
  <2> QED BY <2>2, <2>3, CoveredNone DEF TreeOK
<1>3. ASSUME NEW p \in Paths, files[p] # NoRow,
             k.todo = deleteDownwards(p, files[p]) \o <<Return>>,
             TasksOf(k.todo) = DownTasks(p, files[p]) \cup {Return}
      PROVE  TreeOK(k, files)
  <2> DEFINE q == deleteDownwards(p, files[p])
  <2>1. q \in Seq(AnyTask) /\ Covered(q, files)
    BY <1>3, DownReturn, CoveredDown
  <2>2. \A t \in TasksOf(<<Return>>) : t.do # "unlink"
    BY ReturnTask
  <2> HIDE DEF q
  <2>3. Covered(q \o <<Return>>, files)
    BY <2>1, <2>2, ReturnTask, CoveredMore
  <2>4. \A t \in TasksOf(k.todo) : t.do # "rename"
    BY <1>3 DEF DownTasks, ListTasks, Task, Return
  <2> QED BY <1>3, <2>3, <2>4 DEF TreeOK, TargetFree, q
<1>4. ASSUME NEW p \in Files \cup UploadDirs, Delete(h, p)
      PROVE  TreeOK(k, files)
  <2>1. p \in Paths
    BY SwiftPlusAssumption DEF Dirs
  <2>2. DeleteCall(h, p)
    BY <1>4, DeleteFacts
  <2> QED BY <2>1, <2>2, <1>3 DEF DeleteCall
<1>5. ASSUME NEW p \in Uploads, NEW append \in BOOLEAN, Writer(h, p, append)
      PROVE  TreeOK(k, files)
  <2>1. WriterCall(h, p, append) /\ p \in Paths
    BY <1>5, WriterCallFacts, SwiftPlusAssumption DEF Files
  <2>2. CASE ~append /\ files[p] # NoRow
    <3>1. /\ k.todo = deleteDownwards(p, files[p]) \o <<Return>>
          /\ TasksOf(k.todo) = DownTasks(p, files[p]) \cup {Return}
      BY <2>1, <2>2 DEF WriterCall
    <3> QED BY <2>1, <2>2, <3>1, <1>3
  <2>3. CASE append \/ files[p] = NoRow
    <3>1. \A t \in TasksOf(k.todo) : t.do \in {"readsegments", "return"}
      BY <2>1, <2>3 DEF WriterCall, Task, Return
    <3> QED BY <3>1, CalmTree
  <2> QED BY <2>2, <2>3
<1>6. ASSUME NEW op, NEW extra, UseCall(h, op, extra),
             \A t \in extra : t.do \in {"manifest", "delete"}
      PROVE  TreeOK(k, files)
  <2>1. \A t \in TasksOf(k.todo) :
          t.do \in {"putsegment", "recordsegment", "manifest", "delete", "return"}
    BY <1>6, ReturnTask DEF UseCall, FlushSet, PutTask, RecordTask, Task
  <2> QED BY <2>1, CalmTree
<1>7. CASE Write(h)
  BY <1>6, <1>7, WriteFacts
<1>8. ASSUME NEW op \in {"commit", "close"}, Commit(h, op) PROVE TreeOK(k, files)
  <2> DEFINE t == Task("manifest", handler[h].wr.path, handler[h].wr.loc, NoRow)
  <2>1. UseCall(h, op, {t}) /\ t.do = "manifest"
    BY <1>8, CommitFacts DEF Task
  <2> HIDE DEF t
  <2> QED BY <2>1, <1>6
<1>9. CASE Cancel(h)
  <2> DEFINE t == Task("delete", handler[h].wr.path, NoLoc, NoRow)
  <2>1. UseCall(h, "cancel", {t}) /\ t.do = "delete"
    BY <1>9, CancelFacts DEF Task
  <2> HIDE DEF t
  <2> QED BY <2>1, <1>6
<1>10. CASE Close(h) \/ GiveUp(h)
  <2>1. k.todo = <<>>
    BY <1>10, LeaveFacts, IdleWith DEF IdleRec
  <2> QED BY <2>1, TasksOne, CalmTree
<1> QED BY <1>1, <1>2, <1>4, <1>5, <1>7, <1>8, <1>9, <1>10 DEF Call

LEMMA StepTree ==
    ASSUME StoreInv, NEW h \in Handlers, Shape(handler[h]), TreeOK(handler[h], files),
           NEW do, NEW tasks, StepBy(h, do, tasks), Covered(tasks, files'),
           \A t \in TasksOf(tasks) : t.do # "rename",
           \A x \in Paths : files'[x] # NoRow => files[x] # NoRow,
           do = "unlink" => files'[Now(h).path] = NoRow,
           do = "children" =>
             \A x \in Paths : Parent[x] = Now(h).path /\ files'[x] # NoRow =>
               \E t \in TasksOf(tasks) : t.do = "unlink" /\ t.path = x,
           do = "target" =>
             files'[Now(h).path] = NoRow
               \/ HasTask(handler'[h], "unlink", Now(h).path)
    PROVE  TreeOK(handler'[h], files')
<1> DEFINE m == handler[h]
           k == handler'[h]
<1>1. /\ m.todo # <<>> /\ m.todo \in Seq(AnyTask)
      /\ Head(m.todo).do = do /\ Now(h) = Head(m.todo)
      /\ TasksOf(k.todo) = TasksOf(tasks) \cup TasksOf(Tail(m.todo))
      /\ TasksOf(m.todo) = {Now(h)} \cup TasksOf(Tail(m.todo))
  BY StepTodo
<1>2. /\ k.todo = tasks \o Tail(m.todo) /\ tasks \in Seq(AnyTask)
      /\ k.dest = m.dest
  BY DEF StepBy, SameCall
<1>3. (Incomplete(m) \/ Covered(m.todo, files)) /\ TargetFree(m, files)
  BY DEF TreeOK
<1>7. Incomplete(m) => Incomplete(k)
  BY DEF StepBy, SameCall, Incomplete
<1>4. ASSUME ~Incomplete(m) PROVE Covered(k.todo, files')
  <2> DEFINE q == m.todo
             gs == files'
  <2>1. q \in Seq(AnyTask) /\ q # <<>> /\ tasks \in Seq(AnyTask)
    BY <1>1, <1>2
  <2>2. Covered(q, files) /\ Covered(tasks, gs)
    BY <1>3, <1>4
  <2>3. \A x \in Paths : gs[x] # NoRow => files[x] # NoRow
    OBVIOUS
  <2>4. Head(q).do = "unlink" => gs[Head(q).path] = NoRow
    BY <1>1
  <2>5. Head(q).do = "children" =>
          \A x \in Paths : Parent[x] = Head(q).path /\ gs[x] # NoRow =>
            \E t \in TasksOf(tasks) : t.do = "unlink" /\ t.path = x
    BY <1>1
  <2> HIDE DEF q, gs
  <2>6. Covered(tasks \o Tail(q), gs)
    BY <2>1, <2>2, <2>3, <2>4, <2>5, CoveredStep
  <2> QED BY <2>6, <1>2 DEF q, gs
<1>5. ASSUME NEW t \in TasksOf(k.todo), t.do = "rename"
      PROVE  \/ files'[m.dest] = NoRow
             \/ HasTask(k, "target", m.dest)
             \/ HasTask(k, "unlink", m.dest)
  <2>1. t \in TasksOf(m.todo)
    BY <1>1, <1>5
  <2>2. m.op = "move"
    BY <2>1, <1>5, KindsFacts, HandlerTypes DEF Shape, TaskShape, HandlerRec
  <2>3. m.dest \in Paths
    BY <2>2, SwiftPlusAssumption DEF StoreInv, HandlerOK, Files
  <2>4. \/ files[m.dest] = NoRow
        \/ HasTask(m, "target", m.dest)
        \/ HasTask(m, "unlink", m.dest)
    BY <1>3, <1>5, <2>1 DEF TargetFree
  <2> HIDE DEF m, k
  <2>5. HasTask(m, "target", m.dest) =>
          HasTask(k, "target", m.dest) \/ (do = "target" /\ Now(h).path = m.dest)
    BY <1>1 DEF HasTask
  <2>6. HasTask(m, "unlink", m.dest) =>
          HasTask(k, "unlink", m.dest) \/ (do = "unlink" /\ Now(h).path = m.dest)
    BY <1>1 DEF HasTask
  <2> QED BY <2>3, <2>4, <2>5, <2>6 DEF k
<1>6. TargetFree(k, files')
  BY <1>2, <1>5 DEF TargetFree
<1> QED BY <1>4, <1>6, <1>7 DEF TreeOK

LEMMA DownsTree ==
    ASSUME StoreInv, NEW h \in Handlers, Shape(handler[h]), TreeOK(handler[h], files),
           DeleteChildren(h) \/ ReadTarget(h) \/ ReadForDelete(h)
    PROVE  TreeOK(handler'[h], files')
<1> DEFINE k == handler'[h]
           d == Now(h).path
<1>1. CASE DeleteChildren(h)
  <2>1. PICK tasks : DownStep(h, "children", tasks)
                          /\ Children(h, d, List(d), tasks)
    BY <1>1, ChildrenDown
  <2>2. StepBy(h, "children", tasks) /\ files' = files /\ Covered(tasks, files')
    BY <2>1, CoveredChildren DEF DownStep, Quiet
  <2>3. \A t \in TasksOf(tasks) : t.do # "rename"
    BY <2>1 DEF Children, EachDown, Deleting
  <2>4. ASSUME NEW x \in Paths, Parent[x] = d, files'[x] # NoRow
        PROVE  \E t \in TasksOf(tasks) : t.do = "unlink" /\ t.path = x
    <3> DEFINE b == deleteDownwards(x, files[x])
               u == Task("unlink", x, NoLoc, NoRow)
    <3>1. x \in List(d) /\ files[x] # NoRow
      BY <2>2, <2>4 DEF List
    <3>2. PICK i : Block(tasks, i, b)
      BY <2>1, <3>1 DEF Children, EachDown
    <3>3. b \in Seq(AnyTask) /\ TasksOf(b) = DownTasks(x, files[x])
      BY <3>1, DownReturn
    <3>4. u \in TasksOf(b) /\ u.do = "unlink" /\ u.path = x
      BY <3>3 DEF DownTasks, Task
    <3> HIDE DEF b, u
    <3>5. Len(b) \in Nat /\ DOMAIN b = 1..Len(b) /\ tasks \in Seq(AnyTask)
      BY <3>3, <2>2 DEF StepBy
    <3>6. PICK j \in 1..Len(b) : b[j] = u
      BY <3>4, <3>5 DEF TasksOf
    <3>7. i + j \in DOMAIN tasks /\ tasks[i + j] = u
      BY <3>2, <3>5, <3>6 DEF Block
    <3> QED BY <3>4, <3>7 DEF TasksOf
  <2> QED BY <2>2, <2>3, <2>4, StepTree
<1>2. CASE ReadTarget(h) \/ ReadForDelete(h)
  <2>0. PICK do \in {"target", "delete"} : \E tasks :
          /\ DownStep(h, do, tasks)
          /\ tasks = IF files[d] = NoRow THEN <<>> ELSE deleteDownwards(d, files[d])
          /\ d \in Files
    BY <1>2, ReadRowDown
  <2>1. PICK tasks :
          /\ DownStep(h, do, tasks)
          /\ tasks = IF files[d] = NoRow THEN <<>> ELSE deleteDownwards(d, files[d])
          /\ d \in Files
    BY <2>0
  <2>2. StepBy(h, do, tasks) /\ files' = files /\ d \in Paths
    BY <2>1, SwiftPlusAssumption DEF DownStep, Quiet
  <2>3. Covered(<<>>, files') /\ TasksOf(<<>>) = {}
    BY TasksOne, CoveredNone
  <2>4. Covered(tasks, files')
    BY <2>1, <2>2, <2>3, CoveredDown
  <2>5. \A t \in TasksOf(tasks) : t.do # "rename"
    BY <2>1 DEF DownStep, DownTasks, ListTasks, Task
  <2>6. files'[d] = NoRow \/ HasTask(k, "unlink", d)
    <3>1. CASE files[d] # NoRow
      <4> DEFINE u == Task("unlink", d, NoLoc, NoRow)
      <4>1. TasksOf(tasks) = DownTasks(d, files[d])
        BY <2>1, <2>2, <3>1, DownReturn
      <4>2. u \in TasksOf(tasks) /\ u.do = "unlink" /\ u.path = d
        BY <4>1 DEF DownTasks, Task
      <4>3. TasksOf(tasks) \subseteq TasksOf(k.todo)
        BY <2>2, StepTodo
      <4> HIDE DEF u, k
      <4> QED BY <4>2, <4>3 DEF HasTask
    <3> QED BY <3>1, <2>2
  <2> QED BY <2>2, <2>4, <2>5, <2>6, StepTree
<1> QED BY <1>1, <1>2

LEMMA StepsTree ==
    ASSUME StoreInv, NEW h \in Handlers, Shape(handler[h]), TreeOK(handler[h], files),
           Step(h) \/ Conflict(h) \/ Fault(h) \/ CutShort(h)
    PROVE  TreeOK(handler'[h], files')
<1> DEFINE m == handler[h]
           k == handler'[h]
<1>0. Covered(<<>>, files') /\ TasksOf(<<>>) = {}
  BY TasksOne, CoveredNone
<1>1. CASE ListObjects(h)
  <2>1. PICK b, tasks :
        /\ StepBy(h, "list", tasks) /\ TasksOf(tasks) = {b} /\ b.do = "bulkdelete"
        /\ Quiet
    BY <1>1, ListFacts
  <2>2. Covered(tasks, files')
    BY <2>1, CoveredNone
  <2> QED BY <2>1, <2>2, StepTree DEF Quiet
<1>2. CASE BulkDelete(h)
  <2>1. StepBy(h, "bulkdelete", <<>>) /\ files' = files
    BY <1>2, DoneFacts DEF BulkDelete
  <2> QED BY <2>1, <1>0, StepTree
<1>3. CASE DeleteRow(h)
  <2>1. StepBy(h, "unlink", <<>>) /\ files' = [files EXCEPT ![Now(h).path] = NoRow]
    BY <1>3, DoneFacts DEF DeleteRow
  <2>2. Now(h).path \in Paths
    BY <1>3, NowUsed, TaskFacts DEF DeleteRow
  <2>3. /\ files'[Now(h).path] = NoRow
        /\ \A x \in Paths : files'[x] # NoRow => files[x] # NoRow
    BY <2>1, <2>2 DEF StoreInv, RowsOK
  <2> QED BY <2>1, <2>3, <1>0, StepTree
<1>4. CASE DeleteChildren(h) \/ ReadTarget(h) \/ ReadForDelete(h)
  BY <1>4, DownsTree
<1>5. ASSUME NEW do, NEW tasks, StepBy(h, do, tasks),
             do \in {"upsert", "mkdir", "upload", "rename", "readsegments",
                     "putsegment", "recordsegment", "manifest"},
             \A t \in TasksOf(tasks) : t.do \in {"upsert", "mkdir"}
      PROVE  TreeOK(k, files')
  <2>1. \A t \in TasksOf(Tail(m.todo)) : t.do \in After(do)
    BY <1>5, RestAfter
  <2>2. "unlink" \notin After(do) /\ "rename" \notin After(do)
    BY <1>5, AfterTable
  <2>3. TasksOf(k.todo) = TasksOf(tasks) \cup TasksOf(Tail(m.todo))
    BY <1>5, StepTodo
  <2>4. \A t \in TasksOf(k.todo) : t.do \notin {"unlink", "rename"}
    BY <2>1, <2>2, <2>3, <1>5
  <2> QED BY <2>4, CalmTree
<1>6. CASE UpsertRow(h) \/ Upload(h) \/ Rename(h)
  <2>1. \E do \in {"upsert", "upload", "rename"} : StepBy(h, do, <<>>)
    BY <1>6, DoneFacts DEF UpsertRow, Upload, Rename
  <2> QED BY <2>1, <1>0, <1>5
<1>7. CASE \/ ReadSegments(h) \/ PutSegment(h) \/ RecordSegment(h)
           \/ (CutShort(h) /\ CutSegments(h))
  BY <1>7, <1>0, <1>5, ReadSegmentsFacts, PutSegmentFacts, RecordSegmentFacts,
     CutSegmentsFacts
<1>11. CASE CutShort(h) /\ CutChildren(h)
  <2>1. m.op = "delete" /\ k.val = Unknown /\ \E xs, tasks : Children(h, Now(h).path, xs, tasks)
    BY <1>11, CutChildrenFacts
  <2>2. k.op = "delete" /\ Shape(k)
    BY <1>11, <2>1, CutShape DEF Children, StepBy, SameCall
  <2>3. \A t \in TasksOf(k.todo) : t.do # "rename"
    <3>1. KindsOf(k.op) = Deleting
      BY <2>2, KindsTable
    <3> QED BY <2>2, <3>1 DEF Shape, TaskShape, Deleting
  <2> QED BY <2>1, <2>2, <2>3 DEF TreeOK, Incomplete, TargetFree
<1>8. CASE MakeDir(h)
  <2> DEFINE q == mkdirAll(Parent[Now(h).path])
  <2>1. StepBy(h, "mkdir", q) /\ TasksOf(q) = DirTasks(Parent[Now(h).path])
    BY <1>8, MakeDirFacts
  <2>2. \A t \in TasksOf(q) : t.do = "mkdir"
    BY <2>1 DEF DirTasks, Task
  <2> QED BY <2>1, <2>2, <1>5
<1>9. CASE WriteSLO(h)
  <2>1. \E tasks : /\ StepBy(h, "manifest", tasks)
                   /\ \A t \in TasksOf(tasks) : t.do \in {"upsert", "mkdir"}
    BY <1>9, WriteSLOFacts DEF RowTasks, DirTasks, Task
  <2> QED BY <2>1, <1>5
<1>10. CASE Finish(h) \/ Conflict(h) \/ Fault(h)
  <2>1. k.todo = <<>>
    BY <1>10, FinishFacts, ErrorFacts DEF FinishRec, ErrorRec, IdleRec, Conflict, Fault
  <2> QED BY <2>1, <1>0, CalmTree
<1> QED BY <1>1, <1>2, <1>3, <1>4, <1>6, <1>7, <1>8, <1>9, <1>10, <1>11
        DEF Step, CutShort

LEMMA NextTreeInv ==
    ASSUME StoreInv, ShapeInv, LocInv, TreeInv, [Next]_vars
    PROVE  TreeInv'
<1>1. ASSUME NEW h \in Handlers,
             Call(h) \/ Step(h) \/ Conflict(h) \/ Fault(h) \/ CutShort(h),
             NEW g \in Handlers
      PROVE  TreeOK(handler'[g], files')
  <2>1. Shape(handler[h]) /\ TreeOK(handler[h], files)
    BY DEF ShapeInv, TreeInv
  <2>2. Confined(h)
    BY <1>1, <2>1, StepsConfined
  <2>3. CASE g = h
    <3>1. CASE Call(h)
      <4>1. files' = files
        BY <3>1 DEF Call, PutContent, Move, Delete, Writer, Write, Commit, Close,
                    Cancel, GiveUp
      <4> QED BY <2>3, <3>1, <4>1, CallsTree
    <3>2. CASE Step(h) \/ Conflict(h) \/ Fault(h) \/ CutShort(h)
      BY <2>1, <2>3, <3>2, StepsTree
    <3> QED BY <1>1, <3>1, <3>2
  <2>4. CASE g # h
    <3>1. Undisturbed(handler[g])
      BY <2>2, <2>4, ApartUndisturbed DEF LocInv, LocsOK
    <3>2. handler'[g] = handler[g]
      BY <2>2, <2>4 DEF Confined, Alone
    <3> QED BY <3>1, <3>2, KeptTree DEF ShapeInv, TreeInv
  <2> QED BY <2>3, <2>4
<1>2. ASSUME Crash, NEW g \in Handlers PROVE TreeOK(handler'[g], files')
  <2>1. handler'[g].todo = <<>>
    BY <1>2, IdleHandlers DEF Crash, IdleRec
  <2> QED BY <2>1, TasksOne, CalmTree
<1>3. CASE UNCHANGED vars
  BY <1>3 DEF vars, TreeInv
<1> QED BY <1>1, <1>2, <1>3 DEF Next, TreeInv

-----------------------------------------------------------------------------
(* No row without a row for its directory. *)

(* The directory d is about to be made. *)
Making(d, hs) == \E g \in Handlers : HasTask(hs[g], "mkdir", d)

ParentInv ==
    faults = 0 =>
        \A x \in Paths :
            files[x] # NoRow /\ Parent[x] # Root =>
                files[Parent[x]] # NoRow \/ Making(Parent[x], handler)

LEMMA OrphanIs ==
    ASSUME ParentInv
    PROVE  NoOrphanRow
<1> SUFFICES ASSUME faults = 0, NEW d \in Dirs \cup {Root}, List(d) # {},
                    Stat(d) = NoRow
             PROVE  \E h \in Handlers : \E t \in Tasks(h) :
                      t.do = "mkdir" /\ t.path = d
  BY DEF NoOrphanRow
<1>1. DirRow # NoRow
  <2>1. DirRow \in [size : Int, data : Seq(Nat), loc : Nat]
    BY DEF DirRow, NoLoc
  <2> QED BY <2>1, SwiftPlusAssumption
<1>2. d # Root /\ files[d] = NoRow
  BY <1>1 DEF Stat
<1>3. PICK x \in Paths : Parent[x] = d /\ files[x] # NoRow
  BY DEF List
<1>4. Making(d, handler)
  BY <1>2, <1>3 DEF ParentInv
<1>5. PICK g \in Handlers : HasTask(handler[g], "mkdir", d)
  BY <1>4 DEF Making
<1> QED BY <1>5 DEF HasTask, TasksOf, Tasks

LEMMA NoRenameConflict ==
    ASSUME StoreInv, NEW h \in Handlers, Shape(handler[h]), TargetFree(handler[h], files)
    PROVE  ~RenameConflict(h)
<1> SUFFICES ASSUME RenameConflict(h) PROVE FALSE
  OBVIOUS
<1> DEFINE m == handler[h]
<1>1. At(h, "rename") /\ files[m.dest] # NoRow
  BY DEF RenameConflict
<1>2. /\ m.todo \in Seq(AnyTask) /\ m.todo # <<>> /\ Head(m.todo).do = "rename"
      /\ Head(m.todo) \in TasksOf(m.todo)
  BY <1>1, HandlerTypes, HeadIn DEF At
<1>3. \A t \in TasksOf(m.todo) : t.do \in {"rename", "mkdir", "return"}
  BY <1>2, OrderedTail, TasksHead, AfterTable DEF Shape
<1> HIDE DEF m
<1> QED BY <1>1, <1>2, <1>3 DEF TargetFree, HasTask, m

(* A directory that h is about to make is made, or still about to be made. *)
LEMMA StillMaking ==
    ASSUME StoreInv, NEW h \in Handlers, Shape(handler[h]),
           KnowsSegments(handler[h], segments), Unharmed(handler[h], files),
           TargetFree(handler[h], files),
           Call(h) \/ Step(h) \/ Conflict(h), NEW d, HasTask(handler[h], "mkdir", d)
    PROVE  files'[d] # NoRow \/ HasTask(handler'[h], "mkdir", d)
<1> DEFINE m == handler[h]
           k == handler'[h]
<1>0. PICK t \in TasksOf(m.todo) : t.do = "mkdir" /\ t.path = d
  BY DEF HasTask
<1>1. ASSUME NEW do, NEW tasks, StepBy(h, do, tasks), do # "mkdir"
      PROVE  HasTask(k, "mkdir", d)
  <2>1. /\ TasksOf(k.todo) = TasksOf(tasks) \cup TasksOf(Tail(m.todo))
        /\ TasksOf(m.todo) = {Now(h)} \cup TasksOf(Tail(m.todo))
        /\ Now(h).do = do
    BY <1>1, StepTodo
  <2> HIDE DEF m, k
  <2> QED BY <1>0, <1>1, <2>1 DEF HasTask
<1>2. CASE MakeDir(h)
  <2> DEFINE p == Now(h).path
             q == mkdirAll(Parent[p])
  <2>1. /\ StepBy(h, "mkdir", q) /\ p \in Paths
        /\ files' = [files EXCEPT ![p] = IF files[p] = NoRow THEN DirRow ELSE files[p]]
    BY <1>2, MakeDirFacts
  <2>2. DirRow # NoRow
    <3>1. DirRow \in [size : Int, data : Seq(Nat), loc : Nat]
      BY DEF DirRow, NoLoc
    <3> QED BY <3>1, SwiftPlusAssumption
  <2> HIDE DEF q, p
  <2>3. files'[p] # NoRow
    BY <2>1, <2>2 DEF StoreInv, RowsOK
  <2>4. /\ TasksOf(k.todo) = TasksOf(q) \cup TasksOf(Tail(m.todo))
        /\ TasksOf(m.todo) = {Now(h)} \cup TasksOf(Tail(m.todo))
    BY <2>1, StepTodo
  <2>5. CASE t = Now(h)
    BY <1>0, <2>3, <2>5 DEF p
  <2>6. CASE t # Now(h)
    BY <1>0, <2>4, <2>6 DEF HasTask
  <2> QED BY <2>5, <2>6
<1>3. CASE Call(h)
  <2>1. m.op = "idle"
    BY <1>3 DEF Call, PutContent, Move, Delete, Writer, Write, Commit, Close,
                Cancel, GiveUp, MayCall, MayUse
  <2>2. TasksOf(m.todo) = {}
    BY <2>1, TasksOne DEF StoreInv, HandlerOK
  <2> QED BY <2>2, <1>0
<1>4. CASE Finish(h) \/ Conflict(h)
  <2>0. ~SegmentConflict(h)
    <3>1. At(h, "recordsegment") => m.wr.loc # NoLoc
      BY RecordFacts
    <3> QED BY <3>1, NoSegmentConflict DEF Unharmed, SegmentConflict
  <2>1. PICK do \in {"return", "manifest"} : At(h, do)
    BY <1>4, <2>0, NoRenameConflict DEF Finish, Conflict, ManifestRefused
  <2>2. m.todo \in Seq(AnyTask) /\ m.todo # <<>> /\ Head(m.todo).do = do
    BY <2>1, HandlerTypes DEF At
  <2>3. \A s \in TasksOf(m.todo) : s.do # "mkdir"
    BY <2>2, OrderedTail, TasksHead, AfterTable DEF Shape
  <2> QED BY <2>3, <1>0
<1>5. CASE \/ BulkDelete(h) \/ DeleteRow(h) \/ UpsertRow(h) \/ Upload(h) \/ Rename(h)
  <2>1. \E do \in {"bulkdelete", "unlink", "upsert", "upload", "rename"} :
          StepBy(h, do, <<>>)
    BY <1>5, DoneFacts DEF BulkDelete, DeleteRow, UpsertRow, Upload, Rename
  <2> QED BY <2>1, <1>1
<1>6. CASE ListObjects(h)
  BY <1>1, <1>6, ListFacts
<1>7. CASE DeleteChildren(h) \/ ReadTarget(h) \/ ReadForDelete(h)
  <2>1. \E do \in {"children", "target", "delete"} : \E tasks : DownStep(h, do, tasks)
    BY <1>7, ChildrenDown, ReadRowDown
  <2> QED BY <2>1, <1>1 DEF DownStep
<1>8. CASE ReadSegments(h) \/ PutSegment(h) \/ RecordSegment(h) \/ WriteSLO(h)
  BY <1>1, <1>8, ReadSegmentsFacts, PutSegmentFacts, RecordSegmentFacts, WriteSLOFacts
<1> QED BY <1>2, <1>3, <1>4, <1>5, <1>6, <1>7, <1>8 DEF Step

(* A new row has its directory made by the same call. *)
LEMMA NewRow ==
    ASSUME StoreInv, NEW h \in Handlers, Shape(handler[h]),
           Call(h) \/ Step(h) \/ Conflict(h),
           NEW x \in Paths, files[x] = NoRow, files'[x] # NoRow, Parent[x] # Root
    PROVE  HasTask(handler'[h], "mkdir", Parent[x])
<1> DEFINE m == handler[h]
           k == handler'[h]
<1>1. CASE UpsertRow(h)
  <2>1. /\ StepBy(h, "upsert", <<>>) /\ Now(h).path \in Paths
        /\ files' = [files EXCEPT ![Now(h).path] = Now(h).row]
        /\ Parent[Now(h).path] = Root \/ HasTask(m, "mkdir", Parent[Now(h).path])
    BY <1>1, UpsertFacts
  <2>2. TasksOf(m.todo) = {Now(h)} \cup TasksOf(k.todo) /\ Now(h).do = "upsert"
    BY <2>1, StepTodo, DoneTasks
  <2>3. x = Now(h).path
    BY <2>1 DEF StoreInv, RowsOK
  <2>4. HasTask(m, "mkdir", Parent[x])
    BY <2>1, <2>3
  <2> HIDE DEF m, k
  <2> QED BY <2>2, <2>4 DEF HasTask, k
<1>2. CASE MakeDir(h)
  <2> DEFINE p == Now(h).path
             q == mkdirAll(Parent[p])
             t == Task("mkdir", Parent[p], NoLoc, NoRow)
  <2>1. /\ StepBy(h, "mkdir", q) /\ p \in Paths
        /\ files' = [files EXCEPT ![p] = IF files[p] = NoRow THEN DirRow ELSE files[p]]
        /\ TasksOf(q) = DirTasks(Parent[p])
    BY <1>2, MakeDirFacts
  <2>2. x = p
    BY <2>1 DEF StoreInv, RowsOK
  <2>3. t \in TasksOf(q) /\ t.do = "mkdir" /\ t.path = Parent[x]
    BY <2>1, <2>2 DEF DirTasks, Task
  <2> HIDE DEF q, t, p
  <2>4. TasksOf(q) \subseteq TasksOf(k.todo)
    BY <2>1, StepTodo
  <2> QED BY <2>3, <2>4 DEF HasTask
<1>3. CASE Rename(h)
  <2>1. /\ StepBy(h, "rename", <<>>) /\ m.path \in Paths /\ m.dest \in Paths
        /\ files' = IF files[m.path] = NoRow THEN files
                    ELSE [files EXCEPT ![m.path] = NoRow, ![m.dest] = files[m.path]]
    BY <1>3, RenameFacts
  <2>2. TasksOf(m.todo) = {Now(h)} \cup TasksOf(k.todo) /\ Now(h).do = "rename"
    BY <2>1, StepTodo, DoneTasks
  <2>3. x = m.dest
    BY <2>1 DEF StoreInv, RowsOK
  <2>4. TaskShape(m, Now(h))
    BY <2>1, NowShape
  <2>5. Parent[m.dest] = Root \/ HasTask(m, "mkdir", Parent[m.dest])
    BY <2>2, <2>4 DEF TaskShape
  <2>6. HasTask(m, "mkdir", Parent[x])
    BY <2>3, <2>5
  <2> HIDE DEF m, k
  <2> QED BY <2>2, <2>6 DEF HasTask, k
<1>4. CASE DeleteRow(h)
  <2>1. files' = [files EXCEPT ![Now(h).path] = NoRow]
    BY <1>4 DEF DeleteRow
  <2> QED BY <2>1 DEF StoreInv, RowsOK
<1>5. CASE ~UpsertRow(h) /\ ~MakeDir(h) /\ ~Rename(h) /\ ~DeleteRow(h)
  <2>1. files' = files
    BY <1>5 DEF Call, PutContent, Move, Delete, Writer, Write, Commit, Close,
                Cancel, GiveUp, Step, ListObjects, BulkDelete, DeleteChildren,
                Upload, ReadTarget, ReadSegments, PutSegment, RecordSegment,
                WriteSLO, ReadForDelete, Finish, Conflict
  <2> QED BY <2>1
<1> QED BY <1>1, <1>2, <1>3, <1>4, <1>5

(* The row of a directory goes after all rows in it. *)
LEMMA LostParent ==
    ASSUME StoreInv, NEW h \in Handlers, Shape(handler[h]),
           Covered(handler[h].todo, files), Call(h) \/ Step(h) \/ Conflict(h),
           NEW x \in Paths, files[x] # NoRow, Parent[x] # Root,
           files[Parent[x]] # NoRow
    PROVE  files'[Parent[x]] # NoRow
<1> DEFINE m == handler[h]
           d == Parent[x]
<1>1. d \in Dirs /\ d \in Paths /\ d \notin Files
  BY SwiftPlusAssumption DEF Dirs
<1>2. CASE DeleteRow(h)
  <2>1. /\ files' = [files EXCEPT ![Now(h).path] = NoRow] /\ At(h, "unlink")
    BY <1>2 DEF DeleteRow
  <2>2. m.todo \in Seq(AnyTask) /\ m.todo # <<>> /\ Now(h) = Head(m.todo)
        /\ Head(m.todo).do = "unlink"
    BY <2>1, HandlerTypes DEF At, Now
  <2>3. m.todo[1] = Head(m.todo) /\ 1 \in DOMAIN m.todo /\ DOMAIN m.todo \subseteq Nat \ {0}
    BY <2>2
  <2>4. Now(h).path # d
    BY <2>2, <2>3 DEF Covered
  <2> QED BY <2>1, <2>4, <1>1 DEF StoreInv, RowsOK
<1>3. CASE UpsertRow(h)
  <2>1. files' = [files EXCEPT ![Now(h).path] = Now(h).row] /\ Now(h).path \in Files
    BY <1>3, UpsertFacts
  <2> QED BY <2>1, <1>1 DEF StoreInv, RowsOK
<1>4. CASE MakeDir(h)
  <2>1. files' = [files EXCEPT ![Now(h).path] =
                    IF files[Now(h).path] = NoRow THEN DirRow ELSE files[Now(h).path]]
    BY <1>4, MakeDirFacts
  <2> QED BY <2>1, <1>1 DEF StoreInv, RowsOK
<1>5. CASE Rename(h)
  <2>1. /\ m.path \in Files /\ m.dest \in Files
        /\ files' = IF files[m.path] = NoRow THEN files
                    ELSE [files EXCEPT ![m.path] = NoRow, ![m.dest] = files[m.path]]
    BY <1>5, RenameFacts DEF Files
  <2> QED BY <2>1, <1>1 DEF StoreInv, RowsOK
<1>6. CASE ~UpsertRow(h) /\ ~MakeDir(h) /\ ~Rename(h) /\ ~DeleteRow(h)
  <2>1. files' = files
    BY <1>6 DEF Call, PutContent, Move, Delete, Writer, Write, Commit, Close,
                Cancel, GiveUp, Step, ListObjects, BulkDelete, DeleteChildren,
                Upload, ReadTarget, ReadSegments, PutSegment, RecordSegment,
                WriteSLO, ReadForDelete, Finish, Conflict
  <2> QED BY <2>1
<1> QED BY <1>2, <1>3, <1>4, <1>5, <1>6

LEMMA NextParentInv ==
    ASSUME StoreInv, ShapeInv, DataInv, NoFaultInv, TreeInv, ParentInv, [Next]_vars
    PROVE  ParentInv'
<1> SUFFICES ASSUME faults' = 0, NEW x \in Paths, files'[x] # NoRow, Parent[x] # Root
             PROVE  files'[Parent[x]] # NoRow \/ Making(Parent[x], handler')
  BY DEF ParentInv
<1>1. /\ faults = 0 /\ ~Crash /\ \A h \in Handlers : ~Fault(h) /\ ~CutShort(h)
  BY FaultsGrow
<1>2. files[x] # NoRow => files[Parent[x]] # NoRow \/ Making(Parent[x], handler)
  BY <1>1 DEF ParentInv
<1>3. ASSUME NEW h \in Handlers, Call(h) \/ Step(h) \/ Conflict(h)
      PROVE  files'[Parent[x]] # NoRow \/ Making(Parent[x], handler')
  <2>1. /\ Shape(handler[h]) /\ KnowsSegments(handler[h], segments)
        /\ TargetFree(handler[h], files) /\ Covered(handler[h].todo, files)
        /\ Unharmed(handler[h], files)
    BY <1>1 DEF ShapeInv, DataInv, DataOK, TreeInv, TreeOK, NoFaultInv
  <2>2. CASE files[x] = NoRow
    BY <1>3, <2>1, <2>2, NewRow DEF Making
  <2>3. CASE files[x] # NoRow /\ files[Parent[x]] # NoRow
    BY <1>3, <2>1, <2>3, LostParent
  <2>4. CASE files[x] # NoRow /\ files[Parent[x]] = NoRow
    <3>1. PICK g \in Handlers : HasTask(handler[g], "mkdir", Parent[x])
      BY <1>2, <2>4 DEF Making
    <3>2. CASE g = h
      BY <1>3, <2>1, <3>1, <3>2, StillMaking DEF Making
    <3>3. CASE g # h
      <4>1. handler'[g] = handler[g]
        BY <1>3, <2>1, <3>3, StepsConfined DEF Confined, Alone
      <4> QED BY <3>1, <4>1 DEF Making
    <3> QED BY <3>2, <3>3
  <2> QED BY <2>2, <2>3, <2>4
<1>4. CASE UNCHANGED vars
  BY <1>2, <1>4 DEF vars
<1> QED BY <1>1, <1>3, <1>4 DEF Next

LEMMA InitTree ==
    Init => TreeInv /\ ParentInv
<1> SUFFICES ASSUME Init PROVE TreeInv /\ ParentInv
  OBVIOUS
<1>1. handler = [h \in Handlers |-> IdleHandler] /\ files = [p \in Paths |-> NoRow]
  BY DEF Init
<1>2. ASSUME NEW h \in Handlers PROVE TreeOK(handler[h], files)
  <2>1. handler[h].todo = <<>>
    BY <1>1, IdleHandlers DEF IdleRec
  <2> QED BY <2>1, TasksOne, CalmTree
<1> QED BY <1>1, <1>2 DEF TreeInv, ParentInv

TreesInv == ExclusiveInv /\ TreeInv /\ ParentInv

(* Between any two statements of the calls that mkdirAll, Delete and Move   *)
(* are made of, a directory that is about to be deleted holds nothing but   *)
(* what is deleted before it, unless the loop over its rows was cut short,  *)
(* and the target of a rename is free (whatever fails); and a row has a row *)
(* for its directory, or the call that makes it is on its way (as long as   *)
(* nothing fails).                                                          *)
THEOREM TreesStayWhole == Exclusive => (Spec => []TreesInv)
<1> SUFFICES ASSUME Exclusive PROVE Spec => []TreesInv
  OBVIOUS
<1>1. Init => TreesInv
  BY InitExclusive, InitTree DEF TreesInv, ExclusiveInv
<1>2. TreesInv /\ [Next]_vars => TreesInv'
  <2> SUFFICES ASSUME TreesInv, [Next]_vars PROVE TreesInv'
    OBVIOUS
  <2>1. StoreInv /\ ShapeInv /\ LocInv /\ DataInv /\ NoFaultInv /\ KeptInv
    BY DEF TreesInv, ExclusiveInv
  <2>2. TreeInv /\ ParentInv
    BY DEF TreesInv
  <2>3. ExclusiveInv'
    BY <2>1, NextStoreInv, NextShapeInv, NextLocInv, NextDataInv,
       NextNoFaultInv, NextKeptInv DEF ExclusiveInv
  <2>4. TreeInv' /\ ParentInv'
    BY <2>1, <2>2, NextTreeInv, NextParentInv
  <2> QED BY <2>3, <2>4 DEF TreesInv
<1> QED BY <1>1, <1>2, PTL DEF Spec

(* As long as nothing fails, a file that a call has stored is in a          *)
(* directory that has a row, and so is every directory: mkdirAll of         *)
(* writeFileInfo and Move has made them, and deleteDownwards of a Delete    *)
(* takes the row of a directory only after those of all that is in it.      *)
THEOREM DirectoriesAreThere == Exclusive => (Spec => []NoOrphanRow)
<1> SUFFICES ASSUME Exclusive PROVE Spec => []NoOrphanRow
  OBVIOUS
<1>1. TreesInv => NoOrphanRow
  BY OrphanIs DEF TreesInv, ExclusiveInv
<1> QED BY <1>1, TreesStayWhole, PTL
=============================================================================
