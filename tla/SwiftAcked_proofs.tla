-------------------------- MODULE SwiftAcked_proofs ---------------------------
(***************************************************************************)
(* Proofs about SwiftPlus when no two calls at a time work on one path or  *)
(* on a path and a directory above it: what was acknowledged can be read.  *)
(*                                                                         *)
(* A call keeps a promise that grows with its steps (Keeps): what it has   *)
(* still to do, together with what the two stores hold, amounts to what it *)
(* will acknowledge.  Nobody else disturbs that, because handlers are      *)
(* apart, and what is acknowledged of a file is disturbed only by calls    *)
(* that have put it in doubt first (InDoubt).                              *)
(***************************************************************************)
EXTENDS SwiftExclusive_proofs

NoTask(m, kinds) == \A t \in TasksOf(m.todo) : t.do \notin kinds

SegmentRow(l, i, u) == [loc |-> l, num |-> i, unit |-> u]

(* The parts of a manifest are numbered from 1 on, and all of them are in   *)
(* the table of segments.                                                   *)
Recorded(o, sg) ==
    \A i \in 1..Len(o.parts) :
        /\ o.parts[i].num = i
        /\ SegmentRow(o.loc, i, o.parts[i].unit) \in sg
ManifestInv == \A o \in objects : o.slo => Recorded(o, segments)

(* The object o, as <location>/content, delivers v. *)
Delivers(o, v, os) ==
    /\ o.num = 0
    /\ IF o.slo
       THEN /\ Units(o.parts) = v
            /\ \A i \in 1..Len(o.parts) :
                 \E x \in os : /\ x.loc = o.loc /\ x.num = i
                               /\ x.data = <<o.parts[i].unit>>
       ELSE o.data = v

(* The file p is there with contents v, or is not there.  Uploads are       *)
(* always large objects.                                                    *)
RowHolds(p, v, row, os) ==
    /\ row.size = Len(v)
    /\ IF row.loc = NoLoc THEN row.data = v /\ p \notin Uploads
       ELSE /\ row.data = <<>>
            /\ \E o \in os : /\ o.loc = row.loc /\ Delivers(o, v, os)
                             /\ p \in Uploads => o.slo
Holds(p, v, fs, os) ==
    IF v = Absent THEN fs[p] = NoRow
    ELSE fs[p] # NoRow /\ RowHolds(p, v, fs[p], os)

-----------------------------------------------------------------------------
(* What a call has done and will do. *)

PutKeeps(m, fs, os) ==
    m.op = "put" =>
        /\ ~NoTask(m, {"list", "bulkdelete"}) => ~NoTask(m, {"upsert"})
        /\ \A t \in TasksOf(m.todo) : t.do = "upsert" =>
             /\ t.row.size = Len(m.val)
             /\ t.row.data = IF t.row.loc = NoLoc THEN m.val ELSE <<>>
        /\ NoTask(m, {"upsert"}) =>
             /\ fs[m.path] # NoRow
             /\ fs[m.path].size = Len(m.val)
             /\ fs[m.path].data = IF fs[m.path].loc = NoLoc THEN m.val ELSE <<>>
        /\ NoTask(m, {"upsert", "upload"}) => RowHolds(m.path, m.val, fs[m.path], os)

MoveKeeps(m, fs, os) ==
    m.op = "move" =>
        /\ ~NoTask(m, Deleting \cup {"target"}) => ~NoTask(m, {"rename"})
        /\ \A t \in TasksOf(m.todo) :
             /\ t.do = "unlink" => t.path = m.dest
             /\ t.do \in {"list", "bulkdelete"} => ~HasLoc(fs, m.path, t.loc)
        /\ IF NoTask(m, {"rename"})
           THEN /\ fs[m.path] = NoRow
                /\ m.val # Unknown => Holds(m.dest, m.val, fs, os)
           ELSE m.val # Unknown => Holds(m.path, m.val, fs, os)

(* A path is gone, with all that was in it. *)
Gone(p, fs) == fs[p] = NoRow /\ \A x \in Paths : Parent[x] = p => fs[x] = NoRow

DeleteKeeps(m, fs) ==
    /\ m.op \in {"delete", "create"} /\ ~Incomplete(m) =>
         HasTask(m, "unlink", m.path) \/ Gone(m.path, fs)
    /\ m.op = "cancel" =>
         \/ HasTask(m, "delete", m.wr.path)
         \/ HasTask(m, "unlink", m.wr.path)
         \/ fs[m.wr.path] = NoRow

CommitKeeps(m, fs, os) ==
    m.op \in {"commit", "close"} =>
        /\ NoTask(m, FlushTasks) => m.wr.buf = NoUnit
        /\ ~NoTask(m, FlushTasks) => ~NoTask(m, {"manifest"})
        /\ \A t \in TasksOf(m.todo) : t.do = "upsert" => t.row = ManifestRow(m.wr)
        /\ NoTask(m, {"manifest"}) =>
             \E o \in os : /\ o.loc = m.wr.loc /\ o.slo /\ o.parts = m.wr.segs
                           /\ Delivers(o, Units(m.wr.segs), os)
        /\ NoTask(m, {"manifest", "upsert"}) => fs[m.wr.path] = ManifestRow(m.wr)

(* The handler has a writer that does not know all segments. *)
Misled(m) == m.wr.loc # NoLoc /\ m.wr.lost

(* A writer that was opened for appending knows what was acknowledged, or   *)
(* finds it in the table.                                                   *)
AppendKeeps(m, sg) ==
    /\ Misled(m) => m.wr.base = Unknown
    /\ m.wr.loc # NoLoc /\ m.wr.base \notin {Absent, Unknown} =>
         \A i \in 1..Len(m.wr.base) :
             IF NoTask(m, {"readsegments"})
             THEN i <= Len(m.wr.segs) /\ m.wr.segs[i].unit = m.wr.base[i]
             ELSE SegmentRow(m.wr.loc, i, m.wr.base[i]) \in sg

Keeps(m, fs, os, sg) ==
    /\ PutKeeps(m, fs, os)
    /\ MoveKeeps(m, fs, os)
    /\ DeleteKeeps(m, fs)
    /\ CommitKeeps(m, fs, os)
    /\ AppendKeeps(m, sg)

(* The files whose contents a call may change. *)
Doubtful(m) ==
    IF m.op \notin {"idle", "append", "write"} THEN RegionOf(m)
    ELSE IF Misled(m) THEN {m.wr.path} ELSE {}
InDoubt ==
    \A h \in Handlers : \A p \in Files :
        p \in Doubtful(handler[h]) => acked[p] = Unknown

(* Delete of a directory finds what is in it, and what is further down only *)
(* if the directories in between have their rows, which they may lack after *)
(* a failure.  Files further down can be relied on while nothing has        *)
(* failed, and the others always if those that are moved are among them.    *)
Safe(p, f) == Direct(p) \/ f = 0
Shallow == \A p \in Uploads : Direct(p)
Sound == Shallow \/ faults = 0

AckedHolds ==
    \A p \in Files : Safe(p, faults) /\ acked[p] # Unknown =>
        Holds(p, acked[p], files, objects)

(* The paths of calls. *)
PathOK(m) ==
    /\ m.op = "put" => m.path \in Blobs
    /\ m.op = "delete" => /\ m.path \in Files \cup UploadDirs
                          /\ m.val \in {Absent, Unknown}
PathInv == \A h \in Handlers : PathOK(handler[h])

KeepsInv ==
    Sound =>
        /\ AckedHolds
        /\ \A h \in Handlers : Keeps(handler[h], files, objects, segments)

-----------------------------------------------------------------------------
(* Files have nothing below them. *)

LEMMA FileBelow ==
    ASSUME NEW c \in Files, NEW x \in Paths, c \in Above[x]
    PROVE  x = c
<1> DEFINE S == Dirs \cup {Root}
<1>1. /\ c \in Paths /\ c \notin S
      /\ S \subseteq Paths \cup {Root} /\ Parent[x] \in S
      /\ \A y \in S \ {Root} : Parent[y] \in S
  BY SwiftPlusAssumption DEF Dirs
<1>2. Closed(S)
  BY <1>1 DEF Closed
<1>3. c \notin Above[Parent[x]]
  BY <1>1, <1>2, AboveIs
<1> QED BY <1>3, AboveSplit

LEMMA BelowIs ==
    ASSUME NEW p \in Files
    PROVE  Below(p) = {p} /\ p \in Paths
<1>1. p \in Paths /\ Files \subseteq Paths
  BY SwiftPlusAssumption
<1> QED BY <1>1, FileBelow, AboveSelf DEF Below

LEMMA FileRegion ==
    ASSUME NEW m, ClaimsOf(m) \subseteq Files
    PROVE  RegionOf(m) = ClaimsOf(m)
<1>1. Files \subseteq Paths
  BY SwiftPlusAssumption
<1>2. ASSUME NEW x \in RegionOf(m) PROVE x \in ClaimsOf(m)
  <2>1. PICK c \in ClaimsOf(m) : c \in Above[x] /\ x \in Paths
    BY DEF RegionOf
  <2> QED BY <2>1, FileBelow
<1>3. ASSUME NEW x \in ClaimsOf(m) PROVE x \in RegionOf(m)
  BY <1>1, AboveSelf DEF RegionOf
<1> QED BY <1>2, <1>3

(* The paths of calls and writers. *)
CallOK(m) ==
    /\ m.op = "move" => m.path \in Uploads /\ m.dest \in Blobs
    /\ m.op \in WriterOps => m.wr.path \in Uploads /\ m.wr.loc # NoLoc
    /\ m.wr.loc # NoLoc => m.wr.path \in Uploads

LEMMA HandlerCallOK ==
    ASSUME NEW m, NEW nl, NEW nu, NEW wn, NEW tb, HandlerOK(m, nl, nu, wn, tb)
    PROVE  CallOK(m)
<1>1. /\ m \in HandlerRec
      /\ m.op = "move" => m.path \in Uploads /\ m.dest \in Blobs
      /\ m.op \in WriterOps => m.wr # NoWriter
      /\ m.wr \in WriterRec \cup {NoWriter}
  BY DEF HandlerOK, HandlerRec
<1>2. m.wr # NoWriter => m.wr.path \in Uploads /\ m.wr.loc # NoLoc
  BY <1>1, SwiftPlusAssumption DEF WriterRec, Loc, NoLoc
<1>3. NoWriter.loc = NoLoc
  BY DEF NoWriter
<1> QED BY <1>1, <1>2, <1>3 DEF CallOK

LEMMA AllCallOK ==
    /\ StoreInv => \A h \in Handlers : CallOK(handler[h])
    /\ StoreInv' => \A h \in Handlers : CallOK(handler'[h])
  BY HandlerCallOK DEF StoreInv

(* What the calls may change. *)
LEMMA RegionIs ==
    ASSUME NEW m, Shape(m), PathOK(m), CallOK(m)
    PROVE  /\ m.op = "put" => RegionOf(m) = {m.path} /\ m.path \in Files
           /\ m.op = "move" => RegionOf(m) = {m.path, m.dest}
           /\ m.op = "delete" => /\ RegionOf(m) \cap Files = Below(m.path)
                                 /\ m.path \in Paths
           /\ m.op \in WriterOps => RegionOf(m) = {m.wr.path}
           /\ m.op \in {"create", "append"} => m.path = m.wr.path
<1>0. Root \notin Files /\ Uploads \subseteq Files /\ Blobs \subseteq Files
      /\ Files \subseteq Paths /\ UploadDirs \subseteq Paths
  BY SwiftPlusAssumption DEF Files, Dirs
<1>1. /\ m.op = "move" => m.path \in Uploads /\ m.dest \in Blobs
      /\ m.op \in WriterOps => m.wr.path \in Uploads /\ m.wr.loc # NoLoc
  BY DEF CallOK
<1>3. /\ m.op \in {"put", "move", "delete"} => m.wr.loc = NoLoc
      /\ m.op \in {"create", "append"} => m.path = m.wr.path
      /\ m.op \notin {"put", "move", "delete", "create", "append"} => m.path = Root
      /\ m.op # "move" => m.dest = Root
      /\ m.op = "put" => m.path \in Blobs
      /\ m.op = "delete" => m.path \in Files \cup UploadDirs
  BY DEF Shape, PathOK
<1>4. ClaimsOf(m) =
        {m.path, m.dest, IF m.wr.loc # NoLoc THEN m.wr.path ELSE Root} \ {Root}
  BY DEF ClaimsOf
<1>5. ASSUME m.op = "put" PROVE RegionOf(m) = {m.path} /\ m.path \in Files
  <2>1. ClaimsOf(m) = {m.path} /\ m.path \in Files
    BY <1>0, <1>3, <1>4, <1>5
  <2> QED BY <2>1, FileRegion
<1>6. ASSUME m.op = "move" PROVE RegionOf(m) = {m.path, m.dest}
  <2>1. ClaimsOf(m) = {m.path, m.dest} /\ m.path \in Files /\ m.dest \in Files
    BY <1>0, <1>1, <1>3, <1>4, <1>6
  <2> QED BY <2>1, FileRegion
<1>7. ASSUME m.op = "delete"
      PROVE  RegionOf(m) \cap Files = Below(m.path) /\ m.path \in Paths
  <2>1. ClaimsOf(m) = {m.path} /\ m.path \in Paths
    BY <1>0, <1>3, <1>4, <1>7, SwiftPlusAssumption
  <2> QED BY <1>0, <2>1 DEF RegionOf, Below
<1>8. ASSUME m.op \in WriterOps
      PROVE  RegionOf(m) = {m.wr.path}
  <2>1. ClaimsOf(m) = {m.wr.path} /\ m.wr.path \in Files
    BY <1>0, <1>1, <1>3, <1>4, <1>8 DEF WriterOps
  <2> QED BY <2>1, FileRegion
<1> QED BY <1>3, <1>5, <1>6, <1>7, <1>8

-----------------------------------------------------------------------------
(* What steps within a call leave alone. *)

LEMMA ThenSame ==
    ASSUME StoreInv, NEW h \in Handlers, NEW tasks,
           handler' = [handler EXCEPT ![h] = Then(h, tasks)]
    PROVE  handler'[h].val = handler[h].val /\ handler'[h].wr = handler[h].wr
<1>1. handler[h] \in HandlerRec /\ handler \in [Handlers -> HandlerRec]
  BY HandlerTypes
<1> DEFINE q == tasks \o Tail(handler[h].todo)
           k == [handler[h] EXCEPT !.todo = q]
<1>2. k.val = handler[h].val /\ k.wr = handler[h].wr
  BY <1>1 DEF HandlerRec
<1>3. Then(h, tasks) = k
  BY DEF Then
<1> HIDE DEF k
<1> QED BY <1>1, <1>2, <1>3

LEMMA StepSame ==
    ASSUME StoreInv, NEW h \in Handlers, Shape(handler[h]), Step(h), ~Finish(h)
    PROVE  /\ Alone(h) /\ SameCall(handler[h], handler'[h])
           /\ handler'[h].val = handler[h].val
           /\ handler[h].wr.loc # NoLoc =>
                /\ handler'[h].wr.base = handler[h].wr.base
                /\ handler'[h].wr.lost = handler[h].wr.lost
           /\ acked' = acked /\ faults' = faults
           /\ handler[h].op # "idle"
<1> DEFINE m == handler[h]
<1>0. acked' = acked /\ faults' = faults
  BY DEF Step, ListObjects, BulkDelete, DeleteChildren, DeleteRow, UpsertRow,
         MakeDir, Upload, ReadTarget, Rename, ReadSegments, PutSegment,
         RecordSegment, WriteSLO, ReadForDelete, ghosts, bounds
<1>1. PICK do, tasks : StepBy(h, do, tasks)
  <2>1. CASE ListObjects(h)
    BY <2>1, ListFacts
  <2>2. CASE BulkDelete(h) \/ DeleteRow(h) \/ UpsertRow(h) \/ Upload(h) \/ Rename(h)
    <3>1. PICK do : At(h, do) /\ Continue(h, <<>>) /\ UNCHANGED bounds
      BY <2>2 DEF BulkDelete, DeleteRow, UpsertRow, Upload, Rename
    <3> QED BY <3>1, DoneFacts
  <2>3. CASE DeleteChildren(h)
    BY <2>3, ChildrenDown DEF DownStep
  <2>4. CASE MakeDir(h)
    BY <2>4, MakeDirFacts
  <2>5. CASE ReadTarget(h) \/ ReadForDelete(h)
    BY <2>5, ReadRowDown DEF DownStep
  <2>6. CASE ReadSegments(h) \/ PutSegment(h) \/ RecordSegment(h) \/ WriteSLO(h)
    BY <2>6, ReadSegmentsFacts, PutSegmentFacts, RecordSegmentFacts, WriteSLOFacts
  <2> QED BY <2>1, <2>2, <2>3, <2>4, <2>5, <2>6 DEF Step
<1>2. Alone(h) /\ SameCall(m, handler'[h]) /\ m.todo # <<>>
  BY <1>1 DEF StepBy, At
<1>3. m.op # "idle"
  BY <1>2 DEF StoreInv, HandlerOK
<1>4. m \in HandlerRec /\ m.wr \in WriterRec \cup {NoWriter}
  BY HandlerTypes DEF HandlerRec
<1>5. m.wr.loc # NoLoc => m.wr \in WriterRec
  BY <1>4 DEF NoWriter
<1>6. CASE ~(ReadSegments(h) \/ PutSegment(h) \/ RecordSegment(h))
  <2>1. PICK q : handler' = [handler EXCEPT ![h] = Then(h, q)]
    BY <1>6 DEF Step, ListObjects, BulkDelete, DeleteChildren, DeleteRow, UpsertRow,
         MakeDir, Upload, ReadTarget, Rename, WriteSLO, ReadForDelete, Continue
  <2>2. handler'[h].val = m.val /\ handler'[h].wr = m.wr
    BY <2>1, ThenSame
  <2> QED BY <1>0, <1>2, <1>3, <2>2
<1>7. CASE ReadSegments(h)
  <2>1. m.wr.loc # NoLoc
        /\ handler'[h].wr = [m.wr EXCEPT !.segs = readSegmentInfo(Now(h).loc)]
    BY <1>7, ReadSegmentsFacts
  <2>2. handler' = [handler EXCEPT ![h] = [Then(h, <<>>) EXCEPT
                       !.wr = [@ EXCEPT !.segs = readSegmentInfo(Now(h).loc)]]]
    BY <1>7 DEF ReadSegments
  <2>3. handler'[h].val = m.val
    BY <2>2, <1>4, HandlerTypes DEF Then, HandlerRec
  <2> QED BY <1>0, <1>2, <1>3, <1>5, <2>1, <2>3 DEF WriterRec
<1>8. CASE PutSegment(h)
  <2> DEFINE num == IF m.wr.segs = <<>> THEN 1 ELSE Last(m.wr.segs).num + 1
             sg == Append(m.wr.segs, [num |-> num, unit |-> m.wr.buf])
  <2>1. m.wr.loc # NoLoc /\ handler'[h].wr = [m.wr EXCEPT !.segs = sg]
    BY <1>8, PutSegmentFacts DEF PutFlush
  <2>2. \E s : handler' = [handler EXCEPT ![h] =
                  [Then(h, <<>>) EXCEPT !.wr = [@ EXCEPT !.segs = s]]]
    BY <1>8 DEF PutSegment
  <2>3. handler'[h].val = m.val
    BY <2>2, <1>4, HandlerTypes DEF Then, HandlerRec
  <2> HIDE DEF sg
  <2> QED BY <1>0, <1>2, <1>3, <1>5, <2>1, <2>3 DEF WriterRec
<1>9. CASE RecordSegment(h)
  <2>1. m.wr.loc # NoLoc
    BY <1>9, RecordSegmentFacts DEF RecordFlush
  <2>2. handler' = [handler EXCEPT ![h] =
                  [Then(h, <<>>) EXCEPT !.wr = [@ EXCEPT !.buf = NoUnit]]]
    BY <1>9 DEF RecordSegment
  <2>3. handler'[h].val = m.val /\ handler'[h].wr = [m.wr EXCEPT !.buf = NoUnit]
    BY <2>2, <1>4, HandlerTypes DEF Then, HandlerRec
  <2> QED BY <1>0, <1>2, <1>3, <1>5, <2>1, <2>3 DEF WriterRec
<1> QED BY <1>6, <1>7, <1>8, <1>9

(* A loop over rows that was cut short. *)
LEMMA CutSame ==
    ASSUME StoreInv, NEW h \in Handlers, Shape(handler[h]), CutShort(h)
    PROVE  /\ Alone(h) /\ SameCall(handler[h], handler'[h]) /\ Quiet
           /\ handler[h].op # "idle"
           /\ \/ /\ CutSegments(h) /\ Misled(handler'[h])
                 /\ handler'[h].val = handler[h].val
                 /\ acked' = Forget({handler[h].wr.path})
              \/ /\ CutChildren(h) /\ handler[h].op = "delete"
                 /\ handler'[h].val = Unknown
                 /\ handler'[h].wr = handler[h].wr
                 /\ acked' = acked
<1> DEFINE m == handler[h]
<1>1. CASE CutSegments(h)
  <2>1. /\ StepBy(h, "readsegments", <<>>) /\ Quiet /\ m.wr.loc # NoLoc
        /\ handler'[h].wr.lost /\ handler'[h].val = m.val
    BY <1>1, CutSegmentsFacts
  <2>2. Alone(h) /\ SameCall(m, handler'[h]) /\ m.todo # <<>>
    BY <2>1 DEF StepBy, At
  <2>3. m.op # "idle"
    BY <2>2 DEF StoreInv, HandlerOK
  <2>4. Misled(handler'[h])
    BY <2>1, <2>2 DEF Misled, SameCall
  <2>5. acked' = Forget({m.wr.path})
    BY <1>1 DEF CutSegments
  <2> QED BY <1>1, <2>1, <2>2, <2>3, <2>4, <2>5
<1>2. CASE CutChildren(h)
  <2>1. PICK xs, tasks : Children(h, Now(h).path, xs, tasks)
    BY <1>2, CutChildrenFacts
  <2>2. Quiet /\ m.op = "delete" /\ handler'[h].val = Unknown
    BY <1>2, CutChildrenFacts
  <2>3. Alone(h) /\ SameCall(m, handler'[h]) /\ handler'[h].wr = m.wr
    BY <2>1 DEF Children, StepBy
  <2>4. acked' = acked
    BY <1>2 DEF CutChildren
  <2> QED BY <1>2, <2>2, <2>3, <2>4
<1> QED BY <1>1, <1>2 DEF CutShort

-----------------------------------------------------------------------------
(* What other handlers and files do not notice. *)

LEMMA RowHoldsKept ==
    ASSUME NEW p, NEW v, NEW row, NEW os, NEW ot, RowHolds(p, v, row, os),
           row.loc # NoLoc => \A o \in os : o.loc = row.loc => o \in ot
    PROVE  RowHolds(p, v, row, ot)
  BY DEF RowHolds, Delivers

LEMMA HoldsKept ==
    ASSUME NEW p, NEW v, NEW fs, NEW gs, NEW os, NEW ot, Holds(p, v, fs, os),
           gs[p] = fs[p],
           fs[p] # NoRow /\ fs[p].loc # NoLoc =>
             \A o \in os : o.loc = fs[p].loc => o \in ot
    PROVE  Holds(p, v, gs, ot)
<1>1. CASE v = Absent
  BY <1>1 DEF Holds
<1>2. CASE v # Absent
  <2>1. fs[p] # NoRow /\ RowHolds(p, v, fs[p], os)
    BY <1>2 DEF Holds
  <2>2. RowHolds(p, v, fs[p], ot)
    BY <2>1, RowHoldsKept
  <2> QED BY <1>2, <2>1, <2>2 DEF Holds
<1> QED BY <1>1, <1>2

LEMMA KeptPut ==
    ASSUME StoreInv, NEW g \in Handlers, Undisturbed(handler[g]), Shape(handler[g]),
           PutKeeps(handler[g], files, objects)
    PROVE  PutKeeps(handler[g], files', objects')
<1> DEFINE n == handler[g]
<1>1. SUFFICES ASSUME n.op = "put" PROVE PutKeeps(n, files', objects')
  BY DEF PutKeeps
<1>2. n.path \in Paths /\ n.path \in RegionOf(n)
  BY <1>1, RegionPaths DEF Shape
<1>3. files'[n.path] = files[n.path]
  BY <1>2 DEF Undisturbed
<1>4. files[n.path] # NoRow /\ files[n.path].loc # NoLoc =>
        \A o \in objects : o.loc = files[n.path].loc => o \in objects'
  BY <1>2 DEF Undisturbed
<1>5. NoTask(n, {"upsert", "upload"}) => NoTask(n, {"upsert"})
  BY DEF NoTask
<1>6. NoTask(n, {"upsert", "upload"}) =>
        files[n.path] # NoRow /\ RowHolds(n.path, n.val, files[n.path], objects)
  BY <1>1, <1>5 DEF PutKeeps
<1>7. NoTask(n, {"upsert", "upload"}) =>
        RowHolds(n.path, n.val, files[n.path], objects')
  BY <1>4, <1>6, RowHoldsKept
<1> QED BY <1>3, <1>7 DEF PutKeeps

LEMMA KeptMove ==
    ASSUME StoreInv, NEW g \in Handlers, Undisturbed(handler[g]), Shape(handler[g]),
           CallOK(handler[g]), MoveKeeps(handler[g], files, objects)
    PROVE  MoveKeeps(handler[g], files', objects')
<1> DEFINE n == handler[g]
<1>1. SUFFICES ASSUME n.op = "move" PROVE MoveKeeps(n, files', objects')
  BY DEF MoveKeeps
<1>2. n.path \in Paths /\ n.dest \in Paths
  BY <1>1, SwiftPlusAssumption DEF CallOK, Files
<1>3. n.path \in RegionOf(n) /\ n.dest \in RegionOf(n)
  BY <1>2, RegionPaths
<1>4. files'[n.path] = files[n.path] /\ files'[n.dest] = files[n.dest]
  BY <1>3 DEF Undisturbed
<1>5. \A x \in {n.path, n.dest} : files[x] # NoRow /\ files[x].loc # NoLoc =>
        \A o \in objects : o.loc = files[x].loc => o \in objects'
  BY <1>3 DEF Undisturbed
<1>6. /\ Holds(n.path, n.val, files, objects) => Holds(n.path, n.val, files', objects')
      /\ Holds(n.dest, n.val, files, objects) => Holds(n.dest, n.val, files', objects')
  BY <1>4, <1>5, HoldsKept
<1>7. \A l : HasLoc(files', n.path, l) <=> HasLoc(files, n.path, l)
  BY <1>4 DEF HasLoc
<1> QED BY <1>1, <1>4, <1>6, <1>7 DEF MoveKeeps

LEMMA KeptDelete ==
    ASSUME StoreInv, NEW g \in Handlers, Undisturbed(handler[g]), Shape(handler[g]),
           CallOK(handler[g]), DeleteKeeps(handler[g], files)
    PROVE  DeleteKeeps(handler[g], files')
<1> DEFINE n == handler[g]
<1>1. n.op \in {"delete", "create"} /\ Gone(n.path, files) => Gone(n.path, files')
  <2>1. SUFFICES ASSUME n.op \in {"delete", "create"}, Gone(n.path, files)
                 PROVE  Gone(n.path, files')
    OBVIOUS
  <2>2. n.path \in Paths /\ n.path \in RegionOf(n)
    BY <2>1, RegionPaths DEF Shape
  <2>3. \A x \in Paths : Parent[x] = n.path => x \in RegionOf(n)
    BY <2>2, RegionDown
  <2> QED BY <2>1, <2>2, <2>3 DEF Gone, Undisturbed
<1>2. n.op = "cancel" => files'[n.wr.path] = files[n.wr.path]
  BY RegionPaths DEF CallOK, WriterOps, Undisturbed
<1> QED BY <1>1, <1>2 DEF DeleteKeeps

LEMMA KeptCommit ==
    ASSUME StoreInv, NEW g \in Handlers, Undisturbed(handler[g]), Shape(handler[g]),
           CallOK(handler[g]), CommitKeeps(handler[g], files, objects)
    PROVE  CommitKeeps(handler[g], files', objects')
<1> DEFINE n == handler[g]
<1>1. SUFFICES ASSUME n.op \in {"commit", "close"}
               PROVE  CommitKeeps(n, files', objects')
  BY DEF CommitKeeps
<1>2. n.wr.loc # NoLoc
  BY <1>1 DEF CallOK, WriterOps
<1>3. files'[n.wr.path] = files[n.wr.path]
  BY <1>2, RegionPaths DEF Undisturbed
<1>4. \A o \in objects : o.loc = n.wr.loc => o \in objects'
  BY <1>2 DEF Undisturbed, UsesOf
<1>5. ASSUME NEW o \in objects, o.loc = n.wr.loc, NEW v, Delivers(o, v, objects)
      PROVE  o \in objects' /\ Delivers(o, v, objects')
  BY <1>4, <1>5 DEF Delivers
<1> QED BY <1>1, <1>3, <1>5 DEF CommitKeeps

LEMMA KeptAppend ==
    ASSUME NEW g \in Handlers, Undisturbed(handler[g]),
           AppendKeeps(handler[g], segments)
    PROVE  AppendKeeps(handler[g], segments')
<1> DEFINE n == handler[g]
<1>1. SUFFICES ASSUME n.wr.loc # NoLoc PROVE AppendKeeps(n, segments')
  BY DEF AppendKeeps, Misled
<1>2. \A i, u : SegmentRow(n.wr.loc, i, u) \in segments =>
                SegmentRow(n.wr.loc, i, u) \in segments'
  BY <1>1 DEF Undisturbed, UsesOf, SegmentRow
<1> QED BY <1>2 DEF AppendKeeps

LEMMA KeptKeeps ==
    ASSUME StoreInv, NEW g \in Handlers, Undisturbed(handler[g]), Shape(handler[g]),
           CallOK(handler[g]), Keeps(handler[g], files, objects, segments)
    PROVE  Keeps(handler[g], files', objects', segments')
  BY KeptPut, KeptMove, KeptDelete, KeptCommit, KeptAppend DEF Keeps

-----------------------------------------------------------------------------
(* What is in doubt. *)

LEMMA ForgetIs ==
    ASSUME NEW ps, acked' = Forget(ps), NEW p \in Files
    PROVE  acked'[p] = IF p \in ps THEN Unknown ELSE acked[p]
  BY DEF Forget

LEMMA NextOK ==
    ASSUME StoreInv, [Next]_vars
    PROVE  StoreInv' /\ \A h \in Handlers : CallOK(handler'[h])
  BY NextStoreInv, AllCallOK

LEMMA EnterVal ==
    ASSUME StoreInv, NEW h \in Handlers, NEW op, NEW p, NEW d, NEW v, NEW q,
           handler' = [handler EXCEPT ![h] = Enter(h, op, p, d, v, q)]
    PROVE  handler'[h].val = v
<1> DEFINE r == q \o <<Return>>
<1>1. handler[h] \in HandlerRec /\ handler \in [Handlers -> HandlerRec]
  BY HandlerTypes
<1>2. handler' = [handler EXCEPT ![h] = [handler[h] EXCEPT !.op = op, !.path = p,
                                           !.dest = d, !.val = v, !.todo = r]]
  BY DEF Enter
<1> HIDE DEF r
<1> QED BY <1>1, <1>2 DEF HandlerRec

LEMMA CallDoubt ==
    ASSUME StoreInv, NEW h \in Handlers, Call(h)
    PROVE  /\ PathOK(handler'[h])
           /\ \A p \in Files : acked'[p] \in {acked[p], Unknown}
           /\ \A p \in Files : p \in Doubtful(handler'[h]) =>
                acked'[p] = Unknown \/ p \in Doubtful(handler[h])
           /\ \A p \in Files : p \notin Doubtful(handler'[h]) => acked'[p] = acked[p]
<1> DEFINE k == handler'[h]
<1>1. Shape(k) /\ CallOK(k)
  BY CallsShape, NextOK DEF Next
<1>2. ASSUME NEW p \in Blobs, NEW large \in BOOLEAN, PutContent(h, p, large)
      PROVE  k.op = "put" /\ k.path = p /\ acked' = Forget({p})
  BY <1>2, PutFacts DEF PutCall, CallRec, PutContent
<1>3. ASSUME NEW s \in Uploads, NEW d \in Blobs, Move(h, s, d)
      PROVE  k.op = "move" /\ k.path = s /\ k.dest = d /\ acked' = Forget({s, d})
  BY <1>3, MoveFacts DEF MoveCall, CallRec, Move
<1>4. ASSUME NEW p \in Files \cup UploadDirs, Delete(h, p)
      PROVE  /\ k.op = "delete" /\ k.path = p /\ k.val = Absent
             /\ acked' = Forget(Below(p))
  BY <1>4, DeleteFacts, EnterVal DEF DeleteCall, CallRec, Delete
<1>5. ASSUME NEW p \in Uploads, NEW append \in BOOLEAN, Writer(h, p, append)
      PROVE  /\ k.op = (IF append THEN "append" ELSE "create") /\ k.wr.path = p
             /\ ~k.wr.lost
             /\ acked' = IF append THEN acked ELSE Forget({p})
  <2>1. WriterCall(h, p, append)
    BY <1>5, WriterCallFacts
  <2>2. k.op = (IF append THEN "append" ELSE "create") /\ k.wr.path = p /\ ~k.wr.lost
    BY <2>1 DEF WriterCall, CallRec
  <2>3. acked' = IF append THEN acked ELSE Forget({p})
    BY <1>5 DEF Writer
  <2> QED BY <2>2, <2>3
<1>6. Write(h) => /\ k.op = "write" /\ k.wr = handler[h].wr /\ acked' = acked
                  /\ handler[h].op = "idle"
  BY WriteFacts DEF UseCall, CallRec, Write, MayUse
<1>7. ASSUME NEW op \in {"commit", "close"}, Commit(h, op)
      PROVE  k.op = op /\ k.wr = handler[h].wr /\ acked' = Forget({handler[h].wr.path})
  BY <1>7, CommitFacts DEF UseCall, CallRec, Commit
<1>8. Cancel(h) => /\ k.op = "cancel" /\ k.wr = handler[h].wr
                   /\ acked' = Forget({handler[h].wr.path})
  BY CancelFacts DEF UseCall, CallRec, Cancel
<1>9. Close(h) \/ GiveUp(h) => k.op = "idle" /\ k.wr.loc = NoLoc /\ acked' = acked
  BY LeaveFacts DEF Close, GiveUp, IdleHandler, NoWriter
<1>10. PathOK(k)
  BY <1>2, <1>3, <1>4, <1>5, <1>6, <1>7, <1>8, <1>9 DEF Call, PathOK
<1>11. /\ k.op = "put" => RegionOf(k) = {k.path}
       /\ k.op = "move" => RegionOf(k) = {k.path, k.dest}
       /\ k.op = "delete" => RegionOf(k) \cap Files = Below(k.path)
       /\ k.op \in WriterOps => RegionOf(k) = {k.wr.path}
  BY <1>1, <1>10, RegionIs
<1>12. \A ps : acked' = Forget(ps) =>
         \A p \in Files : /\ acked'[p] \in {acked[p], Unknown}
                          /\ p \in ps => acked'[p] = Unknown
                          /\ p \notin ps => acked'[p] = acked[p]
  BY ForgetIs
<1>13. \A p \in Files : acked'[p] \in {acked[p], Unknown}
  BY <1>2, <1>3, <1>4, <1>5, <1>6, <1>7, <1>8, <1>9, <1>12 DEF Call
<1>14. ASSUME NEW p \in Files, p \in Doubtful(k)
       PROVE  acked'[p] = Unknown \/ p \in Doubtful(handler[h])
  <2>1. CASE k.op \notin {"idle", "append", "write"}
    <3>1. p \in RegionOf(k)
      BY <1>14, <2>1 DEF Doubtful
    <3>2. \E ps : acked' = Forget(ps) /\ p \in ps
      BY <1>2, <1>3, <1>4, <1>5, <1>6, <1>7, <1>8, <1>9, <1>11, <2>1, <3>1
         DEF Call, WriterOps
    <3> QED BY <1>12, <3>2
  <2>2. CASE k.op \in {"idle", "append", "write"}
    <3>1. Misled(k) /\ p = k.wr.path
      BY <1>14, <2>2 DEF Doubtful
    <3>2. k.wr.loc # NoLoc /\ k.wr.lost
      BY <3>1 DEF Misled
    <3>3. Write(h)
      BY <1>2, <1>3, <1>4, <1>5, <1>7, <1>8, <1>9, <2>2, <3>2 DEF Call
    <3>4. Misled(handler[h]) /\ p = handler[h].wr.path /\ handler[h].op = "idle"
      BY <1>6, <3>1, <3>3 DEF Misled
    <3> QED BY <3>4 DEF Doubtful
  <2> QED BY <2>1, <2>2
<1>15. ASSUME NEW p \in Files, p \notin Doubtful(k) PROVE acked'[p] = acked[p]
  <2>1. p \notin RegionOf(k) \/ k.op \in {"idle", "append", "write"}
    BY <1>15 DEF Doubtful
  <2>2. acked' = acked \/ \E ps : acked' = Forget(ps) /\ p \notin ps
    BY <1>2, <1>3, <1>4, <1>5, <1>6, <1>7, <1>8, <1>9, <1>11, <2>1 DEF Call, WriterOps
  <2> QED BY <1>12, <2>2
<1> QED BY <1>10, <1>13, <1>14, <1>15

LEMMA EndIdle ==
    ASSUME StoreInv, NEW h \in Handlers, Finish(h) \/ Conflict(h) \/ Fault(h)
    PROVE  Alone(h) /\ IdleRec(handler'[h])
  BY FinishFacts, ErrorFacts DEF FinishRec, ErrorRec, Conflict, Fault

LEMMA PathIdle ==
    ASSUME NEW k, k.op = "idle"
    PROVE  /\ PathOK(k) /\ Doubtful(k) = (IF Misled(k) THEN {k.wr.path} ELSE {})
           /\ k.wr = NoWriter => Doubtful(k) = {}
  BY DEF PathOK, Doubtful, Misled, NoWriter

(* A writer that knows too little stays one. *)
LEMMA EndDoubt ==
    ASSUME StoreInv, NEW h \in Handlers, Finish(h) \/ Conflict(h) \/ Fault(h),
           Misled(handler'[h])
    PROVE  Misled(handler[h]) /\ handler'[h].wr.path = handler[h].wr.path
<1>1. handler'[h].wr # NoWriter /\ handler'[h].wr.lost
  BY DEF Misled, NoWriter
<1>2. /\ handler[h].wr.loc # NoLoc /\ handler[h].wr.lost = handler'[h].wr.lost
      /\ handler'[h].wr.path = handler[h].wr.path
  BY <1>1, FinishFacts, ErrorFacts DEF FinishRec, ErrorRec, Conflict, Fault
<1> QED BY <1>1, <1>2 DEF Misled

LEMMA DoubtInRegion ==
    ASSUME StoreInv, NEW h \in Handlers, Shape(handler[h])
    PROVE  /\ Misled(handler[h]) => handler[h].wr.path \in Doubtful(handler[h])
           /\ \A p \in Doubtful(handler[h]) : p \in RegionOf(handler[h])
<1>1. handler[h].wr.loc # NoLoc => handler[h].wr.path \in RegionOf(handler[h])
  BY RegionPaths
<1> QED BY <1>1 DEF Doubtful, Misled

LEMMA NextPathInv ==
    ASSUME StoreInv, ShapeInv, PathInv, [Next]_vars
    PROVE  PathInv'
<1>1. ASSUME NEW h \in Handlers, Call(h) \/ Step(h) \/ Conflict(h) \/ Fault(h) \/ CutShort(h)
      PROVE  Alone(h) /\ PathOK(handler'[h])
  <2>0. Shape(handler[h]) /\ PathOK(handler[h])
    BY DEF ShapeInv, PathInv
  <2>1. CASE Call(h)
    BY <2>1, CallDoubt, CallsShape
  <2>2. CASE Step(h) /\ ~Finish(h)
    BY <2>0, <2>2, StepSame DEF PathOK, SameCall
  <2>3. CASE Finish(h) \/ Conflict(h) \/ Fault(h)
    BY <2>3, EndIdle, PathIdle DEF IdleRec
  <2>4. CASE CutShort(h)
    BY <2>0, <2>4, CutSame DEF PathOK, SameCall
  <2> QED BY <1>1, <2>1, <2>2, <2>3, <2>4
<1>2. CASE \E h \in Handlers :
         Call(h) \/ Step(h) \/ Conflict(h) \/ Fault(h) \/ CutShort(h)
  BY <1>1, <1>2 DEF PathInv, Alone
<1>3. CASE Crash
  BY <1>3, IdleHandlers, PathIdle DEF PathInv, Crash, IdleRec
<1>4. CASE UNCHANGED vars
  BY <1>4 DEF PathInv, vars
<1> QED BY <1>2, <1>3, <1>4 DEF Next

(* The effects of a call. *)
LEMMA EffectIs ==
    ASSUME NEW h \in Handlers, NEW e \in Effect(h)
    PROVE  LET m == handler[h]
           IN  \/ Misled(m) /\ e[1] = m.wr.path /\ e[2] = Unknown
               \/ m.op = "put" /\ e[1] = m.path /\ e[2] = m.val
               \/ m.op = "move" /\ e[1] = m.path /\ e[2] = Absent
               \/ m.op = "move" /\ e[1] = m.dest /\ e[2] = m.val
               \/ m.op = "delete" /\ e[1] \in Below(m.path) /\ e[2] = m.val
               \/ m.op = "create" /\ e[1] = m.path /\ e[2] = Absent
               \/ /\ m.op \in {"commit", "close"} /\ e[1] = m.wr.path /\ e[2] = Stored(h)
                  /\ ~Misled(m)
               \/ m.op = "cancel" /\ e[1] = m.wr.path /\ e[2] = Absent
<1>0. Lost(h) <=> Misled(handler[h])
  BY DEF Lost, Misled, HasWriter
<1>1. CASE Lost(h)
  BY <1>0, <1>1 DEF Effect
<1>2. CASE ~Lost(h)
  <2>1. /\ handler[h].op = "put" => e = <<handler[h].path, handler[h].val>>
        /\ handler[h].op = "move" => \/ e = <<handler[h].path, Absent>>
                                     \/ e = <<handler[h].dest, handler[h].val>>
        /\ handler[h].op = "delete" => e \in Below(handler[h].path) \X {handler[h].val}
        /\ handler[h].op = "create" => e = <<handler[h].path, Absent>>
        /\ handler[h].op \in {"commit", "close"} => e = <<handler[h].wr.path, Stored(h)>>
        /\ handler[h].op = "cancel" => e = <<handler[h].wr.path, Absent>>
        /\ handler[h].op \in {"put", "move", "delete", "create", "commit", "close", "cancel"}
    BY <1>2 DEF Effect
  <2> QED BY <1>0, <1>2, <2>1
<1> QED BY <1>1, <1>2

LEMMA EffectInRegion ==
    ASSUME StoreInv, NEW h \in Handlers, Shape(handler[h]), PathOK(handler[h]),
           CallOK(handler[h]), NEW e \in Effect(h), e[1] \in Files
    PROVE  e[1] \in Doubtful(handler[h])
<1> DEFINE m == handler[h]
<1>1. /\ m.op = "put" => RegionOf(m) = {m.path}
      /\ m.op = "move" => RegionOf(m) = {m.path, m.dest}
      /\ m.op = "delete" => RegionOf(m) \cap Files = Below(m.path)
      /\ m.op \in WriterOps => RegionOf(m) = {m.wr.path}
      /\ m.op = "create" => m.path = m.wr.path
  BY RegionIs
<1>2. \/ Misled(m) /\ e[1] = m.wr.path
      \/ m.op = "put" /\ e[1] = m.path
      \/ m.op = "move" /\ e[1] = m.path
      \/ m.op = "move" /\ e[1] = m.dest
      \/ m.op = "delete" /\ e[1] \in Below(m.path)
      \/ m.op = "create" /\ e[1] = m.path
      \/ m.op \in {"commit", "close"} /\ e[1] = m.wr.path
      \/ m.op = "cancel" /\ e[1] = m.wr.path
  BY EffectIs
<1> QED BY <1>1, <1>2, DoubtInRegion DEF Doubtful, WriterOps

LEMMA FinishAcked ==
    ASSUME NEW h \in Handlers, Finish(h), NEW p \in Files
    PROVE  acked'[p] = acked[p]
             \/ \E e \in Effect(h) : e[1] = p /\ acked'[p] = e[2]
<1> DEFINE vs == {v[2] : v \in {e \in Effect(h) : e[1] = p}}
<1>1. acked'[p] = IF Exclusive /\ vs # {} THEN CHOOSE v \in vs : TRUE ELSE acked[p]
  BY DEF Finish
<1>2. vs # {} => (CHOOSE v \in vs : TRUE) \in vs
  OBVIOUS
<1> QED BY <1>1, <1>2

LEMMA NextInDoubt ==
    ASSUME StoreInv, ShapeInv, LocInv, PathInv, InDoubt, [Next]_vars
    PROVE  InDoubt'
<1>1. ASSUME NEW h \in Handlers,
             Call(h) \/ Step(h) \/ Conflict(h) \/ Fault(h) \/ CutShort(h),
             NEW g \in Handlers, NEW p \in Files, p \in Doubtful(handler'[g])
      PROVE  acked'[p] = Unknown
  <2>0. Shape(handler[h]) /\ PathOK(handler[h]) /\ CallOK(handler[h])
    BY AllCallOK DEF ShapeInv, PathInv
  <2>1. CASE Call(h)
    <3>1. CASE g = h
      BY <1>1, <2>1, <3>1, CallDoubt DEF InDoubt
    <3>2. CASE g # h
      <4>1. acked[p] = Unknown
        BY <1>1, <2>1, <3>2, CallsShape DEF Alone, InDoubt
      <4> QED BY <2>1, <4>1, CallDoubt
    <3> QED BY <3>1, <3>2
  <2>2. CASE Step(h) /\ ~Finish(h)
    <3>1. /\ Alone(h) /\ SameCall(handler[h], handler'[h]) /\ acked' = acked
          /\ Misled(handler'[h]) <=> Misled(handler[h])
      BY <2>0, <2>2, StepSame DEF Misled, SameCall
    <3>2. Doubtful(handler'[h]) = Doubtful(handler[h])
      BY <3>1, SameClaims DEF Doubtful, SameCall
    <3> QED BY <1>1, <3>1, <3>2 DEF Alone, InDoubt
  <2>3. CASE Finish(h)
    <3>1. Alone(h) /\ IdleRec(handler'[h])
      BY <2>3, EndIdle
    <3>2. CASE g = h
      <4>1. Misled(handler'[h]) /\ p = handler'[h].wr.path
        BY <1>1, <3>1, <3>2, PathIdle DEF IdleRec
      <4>2. Misled(handler[h]) /\ p = handler[h].wr.path
        BY <2>3, <4>1, EndDoubt
      <4>3. acked[p] = Unknown
        BY <2>0, <4>2, DoubtInRegion DEF InDoubt
      <4>4. Lost(h)
        BY <4>2 DEF Misled, Lost, HasWriter
      <4>5. \A e \in Effect(h) : e[2] = Unknown
        BY <4>4 DEF Effect
      <4> QED BY <2>3, <4>3, <4>5, FinishAcked
    <3>3. CASE g # h
      <4>1. p \in Doubtful(handler[g]) /\ acked[p] = Unknown
        BY <1>1, <3>1, <3>3 DEF Alone, InDoubt
      <4>2. p \in RegionOf(handler[g])
        BY <4>1, DoubtInRegion DEF ShapeInv
      <4>3. p \notin RegionOf(handler[h])
        BY <3>3, <4>2, RegionsApart, ClaimsArePaths DEF LocInv, Apart
      <4>4. p \notin Doubtful(handler[h])
        BY <2>0, <4>3, DoubtInRegion
      <4>5. acked'[p] = acked[p]
        BY <2>0, <2>3, <4>4, FinishAcked, EffectInRegion
      <4> QED BY <4>1, <4>5
    <3> QED BY <3>2, <3>3
  <2>4. CASE Conflict(h) \/ Fault(h)
    <3>1. Alone(h) /\ IdleRec(handler'[h]) /\ acked' = acked
      BY <2>4, EndIdle DEF Conflict, Fault, ghosts
    <3>2. CASE g = h
      <4>1. Misled(handler'[h]) /\ p = handler'[h].wr.path
        BY <1>1, <3>1, <3>2, PathIdle DEF IdleRec
      <4>2. Misled(handler[h]) /\ p = handler[h].wr.path
        BY <2>4, <4>1, EndDoubt
      <4> QED BY <2>0, <3>1, <4>2, DoubtInRegion DEF InDoubt
    <3>3. CASE g # h
      BY <1>1, <3>1, <3>3 DEF Alone, InDoubt
    <3> QED BY <3>2, <3>3
  <2>5. CASE CutShort(h)
    <3>1. Alone(h) /\ SameCall(handler[h], handler'[h])
      BY <2>0, <2>5, CutSame
    <3>2. acked'[p] \in {acked[p], Unknown}
      BY <2>0, <2>5, CutSame, ForgetIs
    <3>3. CASE g # h
      BY <1>1, <3>1, <3>2, <3>3 DEF Alone, InDoubt
    <3>4. CASE g = h /\ p \in Doubtful(handler[h])
      BY <3>2, <3>4 DEF InDoubt
    <3>5. CASE g = h /\ p \notin Doubtful(handler[h])
      <4>1. /\ handler'[h].op \in {"idle", "append", "write"}
            /\ Misled(handler'[h]) /\ p = handler'[h].wr.path
        BY <1>1, <3>1, <3>5, SameClaims DEF Doubtful, SameCall
      <4>2. p = handler[h].wr.path /\ handler[h].op # "delete"
        BY <3>1, <4>1 DEF SameCall
      <4>3. acked' = Forget({p})
        BY <2>0, <2>5, <4>2, CutSame
      <4> QED BY <4>3, ForgetIs
    <3> QED BY <3>3, <3>4, <3>5
  <2> QED BY <1>1, <2>1, <2>2, <2>3, <2>4, <2>5
<1>2. CASE \E h \in Handlers :
         Call(h) \/ Step(h) \/ Conflict(h) \/ Fault(h) \/ CutShort(h)
  BY <1>1, <1>2 DEF InDoubt
<1>3. CASE Crash
  <2>1. \A g \in Handlers : Doubtful(handler'[g]) = {}
    BY <1>3, IdleHandlers, PathIdle DEF Crash, IdleRec, IdleHandler
  <2> QED BY <2>1 DEF InDoubt
<1>4. CASE UNCHANGED vars
  BY <1>4 DEF InDoubt, vars
<1> QED BY <1>2, <1>3, <1>4 DEF Next

-----------------------------------------------------------------------------
(* Manifests name segments that are recorded. *)

LEMMA WriterParts ==
    ASSUME StoreInv, NEW h \in Handlers, At(h, "manifest")
    PROVE  LET w == handler[h].wr
           IN  /\ w.segs \in Seq(Part) /\ w.loc # NoLoc
               /\ \A i \in 1..Len(w.segs) :
                    /\ w.segs[i].num = i
                    /\ SegmentRow(w.loc, i, w.segs[i].unit) \in segments
<1> DEFINE m == handler[h]
<1>1. /\ HandlerOK(m, nextLoc, nextUnit, written, segments) /\ m \in HandlerRec
      /\ m.todo # <<>> /\ Head(m.todo).do = "manifest"
  BY HandlerTypes DEF StoreInv, At
<1>2. Now(h) \in TasksOf(m.todo) /\ Now(h).do = "manifest"
  BY NowUsed
<1>3. m.wr.loc # NoLoc
  BY <1>2, TaskTypes DEF TaskSet, WriterTasks
<1>4. m.wr # NoWriter /\ m.wr \in WriterRec
  BY <1>1, <1>3 DEF NoWriter, HandlerRec
<1>5. Numbered(m, nextUnit, segments) /\ ~m.wr.err
  BY <1>1, <1>4 DEF HandlerOK
<1>6. ~Pending(m)
  BY <1>1 DEF Pending, RecordTask, Task
<1> QED BY <1>3, <1>4, <1>5, <1>6 DEF Numbered, SegmentRow, WriterRec

LEMMA NextManifestInv ==
    ASSUME StoreInv, ShapeInv, ManifestInv, [Next]_vars
    PROVE  ManifestInv'
<1>1. segments \subseteq segments'
  <2>1. ASSUME NEW h \in Handlers, Call(h) PROVE segments' = segments
    BY <2>1 DEF Call, PutContent, Move, Delete, Writer, Write, Commit, Close,
                Cancel, GiveUp
  <2>2. ASSUME NEW h \in Handlers, Step(h) PROVE segments \subseteq segments'
    BY <2>2 DEF Step, ListObjects, BulkDelete, DeleteChildren, DeleteRow, UpsertRow,
         MakeDir, Upload, ReadTarget, Rename, ReadSegments, PutSegment,
         RecordSegment, WriteSLO, ReadForDelete, Finish
  <2>3. ASSUME NEW h \in Handlers, Conflict(h) \/ Fault(h) \/ CutShort(h)
        PROVE  segments' = segments
    BY <2>3 DEF Conflict, Fault, CutShort
  <2>4. Crash \/ UNCHANGED vars => segments' = segments
    BY DEF Crash, vars
  <2> QED BY <2>1, <2>2, <2>3, <2>4 DEF Next
<1>2. ASSUME NEW o \in objects', o.slo
      PROVE  o \in objects \/ \E h \in Handlers :
               At(h, "manifest") /\ o = Manifest(handler[h].wr.loc, handler[h].wr.segs)
  <2>1. ASSUME NEW h \in Handlers, Call(h) PROVE objects' = objects
    BY <2>1 DEF Call, PutContent, Move, Delete, Writer, Write, Commit, Close,
                Cancel, GiveUp
  <2>2. ASSUME NEW h \in Handlers, Step(h), ~WriteSLO(h) PROVE o \in objects
    BY <1>2, <2>2 DEF Step, ListObjects, BulkDelete, DeleteChildren, DeleteRow,
         UpsertRow, MakeDir, Upload, ReadTarget, Rename, ReadSegments, PutSegment,
         RecordSegment, ReadForDelete, Finish, PutObject, Plain
  <2>3. ASSUME NEW h \in Handlers, WriteSLO(h)
        PROVE  \/ o \in objects
               \/ At(h, "manifest") /\ o = Manifest(handler[h].wr.loc, handler[h].wr.segs)
    BY <2>3 DEF WriteSLO, PutObject
  <2>4. ASSUME NEW h \in Handlers, Conflict(h) \/ Fault(h) \/ CutShort(h)
        PROVE  objects' \subseteq objects
    BY <2>4 DEF Conflict, Fault, CutShort
  <2>5. Crash \/ UNCHANGED vars => objects' = objects
    BY DEF Crash, vars
  <2> QED BY <2>1, <2>2, <2>3, <2>4, <2>5 DEF Next
<1>3. ASSUME NEW h \in Handlers, At(h, "manifest"), NEW o,
             o = Manifest(handler[h].wr.loc, handler[h].wr.segs)
      PROVE  Recorded(o, segments)
  <2>1. o.loc = handler[h].wr.loc /\ o.parts = handler[h].wr.segs
    BY <1>3 DEF Manifest
  <2> QED BY <1>3, <2>1, WriterParts DEF Recorded
<1>4. ASSUME NEW o \in objects', o.slo PROVE Recorded(o, segments)
  BY <1>2, <1>3, <1>4 DEF ManifestInv
<1>5. \A o : Recorded(o, segments) => Recorded(o, segments')
  BY <1>1 DEF Recorded
<1> QED BY <1>4, <1>5 DEF ManifestInv

-----------------------------------------------------------------------------
(* What was acknowledged stays. *)

LEMMA FileElsewhere ==
    ASSUME StoreInv, NEW h \in Handlers, Confined(h), OwnLocs(handler[h], files),
           NEW p \in Files, p \notin RegionOf(handler[h]),
           NEW v, Holds(p, v, files, objects)
    PROVE  Holds(p, v, files', objects')
<1> DEFINE m == handler[h]
<1>1. p \in Paths /\ ClaimsOf(m) \subseteq Paths /\ ClaimsOf(m) \subseteq RegionOf(m)
  BY SwiftPlusAssumption, ClaimsArePaths
<1>2. \A c \in ClaimsOf(m) : p \notin Above[c]
  BY <1>1, FileBelow
<1>3. files'[p] = files[p]
  BY <1>1, <1>2 DEF Confined
<1>4. ASSUME files[p] # NoRow, files[p].loc # NoLoc
      PROVE  \A o \in objects : o.loc = files[p].loc => o \in objects'
  <2>1. files[p].loc \notin UsesOf(m)
    BY <1>1, <1>4 DEF OwnLocs, HasLoc
  <2> QED BY <2>1 DEF Confined
<1> QED BY <1>3, <1>4, HoldsKept

(* The number of a new segment. *)
LEMMA NewNumber ==
    ASSUME StoreInv, NEW h \in Handlers, handler[h].wr.loc # NoLoc
    PROVE  LET w == handler[h].wr
           IN  /\ (IF w.segs = <<>> THEN 1 ELSE Last(w.segs).num + 1) = Len(w.segs) + 1
               /\ Len(w.segs) \in Nat /\ w.segs \in Seq(Part)
<1> DEFINE w == handler[h].wr
<1>1. w \in WriterRec /\ w # NoWriter
  BY HandlerTypes DEF HandlerRec, NoWriter
<1>2. Numbered(handler[h], nextUnit, segments)
  BY <1>1 DEF StoreInv, HandlerOK
<1>3. w.segs \in Seq(Part) /\ \A i \in 1..Len(w.segs) : w.segs[i].num = i
  BY <1>1, <1>2 DEF Numbered, WriterRec
<1>4. w.segs # <<>> => Last(w.segs) = w.segs[Len(w.segs)] /\ Len(w.segs) \in 1..Len(w.segs)
  BY <1>3 DEF Last
<1> QED BY <1>3, <1>4

LEMMA FileFlushed ==
    ASSUME StoreInv, NEW h \in Handlers, Shape(handler[h]),
           DataOK(handler[h], files, objects, segments), ManifestInv, PutSegment(h),
           NEW p, p = handler[h].wr.path, p \in Uploads, handler[h].op = "write",
           ~handler[h].wr.lost, NEW v, Holds(p, v, files, objects)
    PROVE  Holds(p, v, files', objects')
<1> DEFINE m == handler[h]
           num == IF m.wr.segs = <<>> THEN 1 ELSE Last(m.wr.segs).num + 1
           new == Plain(m.wr.loc, num, <<m.wr.buf>>)
<1>1. StepBy(h, "putsegment", <<>>) /\ PutFlush(h)
  BY PutSegmentFacts
<1>2. objects' = PutObject(new) /\ files' = files /\ m.wr.loc # NoLoc
  BY <1>1 DEF PutFlush
<1>3. num = Len(m.wr.segs) + 1 /\ Len(m.wr.segs) \in Nat
  BY <1>2, NewNumber
<1>4. new.loc = m.wr.loc /\ new.num = Len(m.wr.segs) + 1
  BY <1>3 DEF Plain
<1> HIDE DEF new, num
<1>5. CASE v = Absent \/ files[p].loc = NoLoc
  BY <1>2, <1>5 DEF Holds, RowHolds
<1>6. CASE v # Absent /\ files[p].loc # NoLoc
  <2>1. files[p] # NoRow /\ RowHolds(p, v, files[p], objects)
    BY <1>6 DEF Holds
  <2>2. files[p].loc = m.wr.loc
    BY <1>2, <1>6, <2>1 DEF DataOK, WriterRow
  <2>3. PICK o \in objects : /\ o.loc = m.wr.loc /\ o.slo /\ o.num = 0
                             /\ Units(o.parts) = v
                             /\ \A i \in 1..Len(o.parts) :
                                  \E x \in objects : /\ x.loc = o.loc /\ x.num = i
                                                     /\ x.data = <<o.parts[i].unit>>
    BY <1>6, <2>1, <2>2 DEF RowHolds, Delivers
  <2>4. \A t \in TasksOf(m.todo) : t.do # "readsegments"
    BY KindsTable DEF Shape, TaskShape, FlushTasks
  <2>5. \A i \in 1..Len(o.parts) : i <= Len(m.wr.segs)
    <3>1. \A i \in 1..Len(o.parts) : SegmentRow(m.wr.loc, i, o.parts[i].unit) \in segments
      BY <2>3 DEF ManifestInv, Recorded
    <3>2. \A s \in segments : s.loc = m.wr.loc => s.num <= Len(m.wr.segs)
      BY <1>2, <2>4 DEF DataOK, KnowsSegments
    <3> QED BY <3>1, <3>2 DEF SegmentRow
  <2>6. Len(o.parts) \in Nat
    BY <2>3 DEF StoreInv, ObjectsOK, ObjectRec
  <2>7. \A x \in objects : x.num \in 0..Len(m.wr.segs) => x \in objects'
    BY <1>2, <1>3, <1>4 DEF PutObject
  <2>8. o \in objects'
    BY <1>3, <2>3, <2>7
  <2>9. \A i \in 1..Len(o.parts) :
          \E x \in objects' : /\ x.loc = o.loc /\ x.num = i
                              /\ x.data = <<o.parts[i].unit>>
    <3> SUFFICES ASSUME NEW i \in 1..Len(o.parts)
                 PROVE  \E x \in objects' : /\ x.loc = o.loc /\ x.num = i
                                            /\ x.data = <<o.parts[i].unit>>
      OBVIOUS
    <3>1. PICK x \in objects : /\ x.loc = o.loc /\ x.num = i
                               /\ x.data = <<o.parts[i].unit>>
      BY <2>3
    <3>2. i \in 0..Len(m.wr.segs)
      BY <1>3, <2>5, <2>6
    <3>3. x \in objects'
      BY <2>7, <3>1, <3>2
    <3> QED BY <3>1, <3>3
  <2>10. Delivers(o, v, objects')
    BY <2>3, <2>9 DEF Delivers
  <2>11. RowHolds(p, v, files[p], objects')
    BY <1>6, <2>1, <2>2, <2>3, <2>8, <2>10 DEF RowHolds
  <2> QED BY <1>2, <1>6, <2>1, <2>11 DEF Holds
<1> QED BY <1>5, <1>6

LEMMA FileWritten ==
    ASSUME StoreInv, NEW h \in Handlers, Shape(handler[h]), PathOK(handler[h]),
           CallOK(handler[h]), DataOK(handler[h], files, objects, segments),
           ManifestInv, Step(h) \/ Conflict(h) \/ Fault(h) \/ CutShort(h),
           NEW p \in Files, p \in RegionOf(handler[h]), p \notin Doubtful(handler[h]),
           NEW v, Holds(p, v, files, objects)
    PROVE  Holds(p, v, files', objects')
<1> DEFINE m == handler[h]
<1>1. m.op \in {"idle", "append", "write"}
  BY DEF Doubtful
<1>2. \A t \in TasksOf(m.todo) :
        t.do \in {"readsegments", "putsegment", "recordsegment", "return"}
  BY <1>1, KindsTable DEF Shape, TaskShape, FlushTasks
<1>3. CASE Step(h) /\ ~PutSegment(h)
  <2>1. \A do : At(h, do) => do \in {"readsegments", "putsegment", "recordsegment", "return"}
    BY <1>2, NowUsed
  <2>2. ReadSegments(h) \/ RecordSegment(h) \/ Finish(h)
    BY <1>3, <2>1 DEF Step, ListObjects, BulkDelete, DeleteChildren, DeleteRow,
         UpsertRow, MakeDir, Upload, ReadTarget, Rename, WriteSLO, ReadForDelete
  <2>3. files' = files /\ objects' = objects
    BY <2>2 DEF ReadSegments, RecordSegment, Finish
  <2> QED BY <2>3
<1>4. CASE PutSegment(h)
  <2>1. At(h, "putsegment")
    BY <1>4 DEF PutSegment
  <2>2. "putsegment" \in KindsOf(m.op) \cup {"return"}
    BY <2>1, NowUsed DEF Shape, TaskShape
  <2>3. m.op = "write"
    BY <1>1, <2>2, KindsTable
  <2>4. RegionOf(m) = {m.wr.path} /\ m.wr.path \in Uploads
    BY <2>3, RegionIs DEF CallOK, WriterOps
  <2>5. ~m.wr.lost
    BY <2>3, <2>4 DEF Doubtful, Misled, CallOK, WriterOps
  <2> QED BY <1>4, <2>3, <2>4, <2>5, FileFlushed
<1>5. CASE Conflict(h) \/ Fault(h)
  <2>1. ~At(h, "bulkdelete")
    BY <1>2, NowUsed
  <2>2. files' = files /\ objects' = objects
    BY <1>5, <2>1 DEF Conflict, Fault
  <2> QED BY <2>2
<1>6. CASE CutShort(h)
  BY <1>6 DEF CutShort
<1> QED BY <1>3, <1>4, <1>5, <1>6

-----------------------------------------------------------------------------
(* Promises that the steps of a call keep. *)

LEMMA TasksLeft ==
    ASSUME StoreInv, NEW h \in Handlers, NEW do, NEW tasks, StepBy(h, do, tasks),
           NEW K, \A t \in TasksOf(tasks) : t.do \notin K
    PROVE  LET m == handler[h]
               k == handler'[h]
           IN  /\ \A t \in TasksOf(k.todo) : t.do \in K => t \in TasksOf(m.todo)
               /\ NoTask(m, K) => NoTask(k, K)
               /\ do \notin K /\ NoTask(k, K) => NoTask(m, K)
               /\ \A t \in TasksOf(m.todo) : t.do # do => t \in TasksOf(k.todo)
<1> DEFINE m == handler[h]
           k == handler'[h]
           T == TasksOf(Tail(m.todo))
<1>1. /\ TasksOf(k.todo) = TasksOf(tasks) \cup T
      /\ TasksOf(m.todo) = {Now(h)} \cup T
      /\ Now(h).do = do
  BY StepTodo
<1> HIDE DEF T
<1>2. \A t \in TasksOf(k.todo) : t.do \in K => t \in TasksOf(m.todo)
  BY <1>1
<1>3. \A t \in TasksOf(m.todo) : t.do # do => t \in TasksOf(k.todo)
  BY <1>1
<1>4. NoTask(m, K) => NoTask(k, K)
  BY <1>2 DEF NoTask
<1>5. do \notin K /\ NoTask(k, K) => NoTask(m, K)
  BY <1>3 DEF NoTask
<1> QED BY <1>2, <1>3, <1>4, <1>5

LEMMA DoneLeft ==
    ASSUME StoreInv, NEW h \in Handlers, NEW do, StepBy(h, do, <<>>)
    PROVE  LET m == handler[h]
               k == handler'[h]
           IN  /\ TasksOf(k.todo) \subseteq TasksOf(m.todo)
               /\ \A K : NoTask(m, K) => NoTask(k, K)
               /\ \A K : do \notin K /\ NoTask(k, K) => NoTask(m, K)
               /\ \A t \in TasksOf(m.todo) : t.do # do => t \in TasksOf(k.todo)
<1> DEFINE m == handler[h]
           k == handler'[h]
           T == TasksOf(Tail(m.todo))
<1>1. /\ TasksOf(k.todo) = T
      /\ TasksOf(m.todo) = {Now(h)} \cup T
      /\ Now(h).do = do
  BY StepTodo, DoneTasks
<1> HIDE DEF T
<1>2. /\ TasksOf(k.todo) \subseteq TasksOf(m.todo)
      /\ \A t \in TasksOf(m.todo) : t.do # do => t \in TasksOf(k.todo)
  BY <1>1
<1> QED BY <1>2 DEF NoTask

LEMMA KindNow ==
    ASSUME StoreInv, NEW h \in Handlers, Shape(handler[h]), NEW do, At(h, do)
    PROVE  /\ do \in KindsOf(handler[h].op) \cup {"return"}
           /\ Now(h) \in TasksOf(handler[h].todo) /\ Now(h).do = do
           /\ TaskShape(handler[h], Now(h))
  BY NowUsed DEF Shape, TaskShape

LEMMA SamePut ==
    ASSUME NEW m, NEW k, NEW fs, NEW gs, NEW os, NEW ot, PutKeeps(m, fs, os),
           SameCall(m, k), k.val = m.val, gs[m.path] = fs[m.path],
           m.op = "put" =>
             /\ ~NoTask(k, {"list", "bulkdelete"}) => ~NoTask(k, {"upsert"})
             /\ \A t \in TasksOf(k.todo) : t.do = "upsert" => t \in TasksOf(m.todo)
             /\ NoTask(k, {"upsert"}) => NoTask(m, {"upsert"})
             /\ NoTask(k, {"upsert", "upload"}) =>
                  /\ NoTask(m, {"upsert", "upload"})
                  /\ \A o \in os : o.loc = fs[m.path].loc => o \in ot
    PROVE  PutKeeps(k, gs, ot)
<1>1. SUFFICES ASSUME m.op = "put" PROVE PutKeeps(k, gs, ot)
  BY DEF PutKeeps, SameCall
<1>2. k.path = m.path
  BY DEF SameCall
<1>3. NoTask(k, {"upsert", "upload"}) => RowHolds(m.path, m.val, fs[m.path], os)
  BY <1>1 DEF PutKeeps
<1>4. NoTask(k, {"upsert", "upload"}) => RowHolds(m.path, m.val, fs[m.path], ot)
  BY <1>1, <1>3, RowHoldsKept
<1> QED BY <1>1, <1>2, <1>4 DEF PutKeeps

LEMMA PutStepKeeps ==
    ASSUME StoreInv, NEW h \in Handlers, Shape(handler[h]), PathOK(handler[h]),
           DataOK(handler[h], files, objects, segments), Step(h), ~Finish(h),
           PutKeeps(handler[h], files, objects)
    PROVE  PutKeeps(handler'[h], files', objects')
<1> DEFINE m == handler[h]
           k == handler'[h]
<1>1. SameCall(m, k) /\ k.val = m.val
  BY StepSame
<1>2. SUFFICES ASSUME m.op = "put" PROVE PutKeeps(k, files', objects')
  BY <1>1 DEF PutKeeps, SameCall
<1>3. m.path \in Blobs /\ m.path \in Files /\ m.path \in Paths /\ m.path \notin Dirs
      /\ m.path \notin Uploads
  BY <1>2, SwiftPlusAssumption DEF PathOK, Files, Dirs
<1>4. \A do : At(h, do) => do \in {"list", "bulkdelete", "upsert", "mkdir", "upload", "return"}
  BY <1>2, KindNow, KindsTable
<1>5. ListObjects(h) \/ BulkDelete(h) \/ UpsertRow(h) \/ MakeDir(h) \/ Upload(h)
  BY <1>4 DEF Step, ListObjects, BulkDelete, DeleteChildren, DeleteRow,
         UpsertRow, MakeDir, Upload, ReadTarget, Rename, WriteSLO, ReadForDelete,
         ReadSegments, PutSegment, RecordSegment
<1>6. CASE ListObjects(h)
  <2>1. PICK b, tasks : /\ StepBy(h, "list", tasks) /\ TasksOf(tasks) = {b}
                        /\ b.do = "bulkdelete" /\ Quiet
    BY <1>6, ListFacts
  <2>2. /\ \A t \in TasksOf(k.todo) : t.do = "upsert" => t \in TasksOf(m.todo)
        /\ NoTask(k, {"upsert"}) <=> NoTask(m, {"upsert"})
        /\ NoTask(k, {"upsert", "upload"}) => NoTask(m, {"upsert", "upload"})
    BY <2>1, TasksLeft
  <2>3. ~NoTask(m, {"upsert"})
    BY <1>2, <1>6, NowUsed DEF ListObjects, PutKeeps, NoTask
  <2>4. files' = files /\ objects' = objects
    BY <2>1 DEF Quiet
  <2> QED BY <1>1, <2>2, <2>3, <2>4, SamePut
<1>7. CASE BulkDelete(h)
  <2>1. StepBy(h, "bulkdelete", <<>>) /\ files' = files
    BY <1>7, DoneFacts DEF BulkDelete
  <2>2. /\ \A t \in TasksOf(k.todo) : t.do = "upsert" => t \in TasksOf(m.todo)
        /\ NoTask(k, {"upsert"}) <=> NoTask(m, {"upsert"})
    BY <2>1, DoneLeft
  <2>3. ~NoTask(m, {"upsert"})
    BY <1>2, <1>7, NowUsed DEF BulkDelete, PutKeeps, NoTask
  <2>4. ~NoTask(k, {"upsert", "upload"})
    BY <2>2, <2>3 DEF NoTask
  <2> QED BY <1>1, <2>1, <2>2, <2>3, <2>4, SamePut
<1>8. CASE MakeDir(h)
  <2> DEFINE d == Now(h).path
  <2>1. /\ d \in Dirs /\ StepBy(h, "mkdir", mkdirAll(Parent[d]))
        /\ TasksOf(mkdirAll(Parent[d])) = DirTasks(Parent[d])
        /\ objects' = objects
        /\ files' = [files EXCEPT ![d] = IF files[d] = NoRow THEN DirRow ELSE files[d]]
    BY <1>8, MakeDirFacts
  <2>2. \A t \in DirTasks(Parent[d]) : t.do = "mkdir"
    BY DEF DirTasks, Task
  <2>3. files'[m.path] = files[m.path]
    BY <1>3, <2>1
  <2>4. \A t \in TasksOf(Tail(m.todo)) : t.do \in {"upload", "return"}
    BY <2>1, RestAfter, AfterTable
  <2>5. NoTask(k, {"list", "bulkdelete"})
    BY <2>1, <2>2, <2>4, StepTodo DEF NoTask
  <2>6. /\ \A t \in TasksOf(k.todo) : t.do = "upsert" => t \in TasksOf(m.todo)
        /\ NoTask(k, {"upsert"}) => NoTask(m, {"upsert"})
        /\ NoTask(k, {"upsert", "upload"}) => NoTask(m, {"upsert", "upload"})
    BY <2>1, <2>2, TasksLeft
  <2>7. objects' = objects
    BY <2>1
  <2> QED BY <1>1, <2>3, <2>5, <2>6, <2>7, SamePut
<1>9. CASE UpsertRow(h)
  <2> DEFINE row == Now(h).row
  <2>1. /\ StepBy(h, "upsert", <<>>) /\ objects' = objects
        /\ files' = [files EXCEPT ![m.path] = row]
        /\ row \in FileRow(nextLoc, written)
        /\ row.loc # NoLoc => \E s \in TasksOf(m.todo) : s.do = "upload"
        /\ \A t \in TasksOf(k.todo) : t.do \in {"mkdir", "upload", "return"}
    BY <1>2, <1>9, UpsertFacts
  <2>2. /\ row.size = Len(m.val)
        /\ row.data = IF row.loc = NoLoc THEN m.val ELSE <<>>
    BY <1>2, <1>9, KindNow DEF PutKeeps, UpsertRow
  <2>3. files'[m.path] = row /\ row # NoRow
    BY <1>3, <2>1, RealRows DEF StoreInv, RowsOK
  <2>4. \A t \in TasksOf(m.todo) : t.do = "upload" => t \in TasksOf(k.todo)
    BY <2>1, DoneLeft
  <2>5. NoTask(k, {"upsert", "upload"}) => RowHolds(m.path, m.val, row, objects')
    BY <1>3, <2>1, <2>2, <2>4 DEF NoTask, RowHolds
  <2> QED BY <1>1, <2>1, <2>2, <2>3, <2>5 DEF PutKeeps, SameCall, NoTask
<1>10. CASE Upload(h)
  <2> DEFINE new == Plain(Now(h).loc, 0, m.val)
  <2>1. StepBy(h, "upload", <<>>) /\ files' = files /\ objects' = PutObject(new)
    BY <1>10, DoneFacts DEF Upload
  <2>2. \A t \in TasksOf(Tail(m.todo)) : t.do = "return"
    BY <2>1, RestAfter, AfterTable
  <2>3. Now(h) \in TasksOf(m.todo) /\ Now(h).do = "upload" /\ Now(h).loc # NoLoc
    BY <1>10, NowUsed, TaskFacts DEF Upload
  <2>4. \A t \in TasksOf(m.todo) : t.do \in {"upload", "return"}
    BY <2>1, <2>2, <2>3, StepTodo
  <2>5. \A t \in TasksOf(k.todo) : t.do = "return"
    BY <2>1, <2>2, DoneTasks
  <2>6. HasLoc(files, m.path, Now(h).loc)
    BY <2>3, <2>4 DEF DataOK, UploadRow, HasTask
  <2>7. /\ files[m.path] # NoRow /\ files[m.path].size = Len(m.val)
        /\ files[m.path].data = IF files[m.path].loc = NoLoc THEN m.val ELSE <<>>
    BY <1>2, <2>4 DEF PutKeeps, NoTask
  <2>8. /\ new \in objects' /\ new.loc = Now(h).loc /\ new.num = 0 /\ ~new.slo
        /\ new.data = m.val
    BY <2>1 DEF PutObject, Plain
  <2>9. Delivers(new, m.val, objects')
    BY <2>8 DEF Delivers
  <2> HIDE DEF new
  <2>10. RowHolds(m.path, m.val, files[m.path], objects')
    BY <1>3, <2>3, <2>6, <2>7, <2>8, <2>9 DEF RowHolds, HasLoc
  <2> QED BY <1>1, <2>1, <2>5, <2>7, <2>10 DEF PutKeeps, SameCall, NoTask
<1> QED BY <1>5, <1>6, <1>7, <1>8, <1>9, <1>10

LEMMA StepKinds ==
    ASSUME NEW h
    PROVE  /\ ListObjects(h) => At(h, "list")
           /\ BulkDelete(h) => At(h, "bulkdelete")
           /\ DeleteChildren(h) => At(h, "children")
           /\ DeleteRow(h) => At(h, "unlink")
           /\ UpsertRow(h) => At(h, "upsert")
           /\ MakeDir(h) => At(h, "mkdir")
           /\ Upload(h) => At(h, "upload")
           /\ ReadTarget(h) => At(h, "target")
           /\ Rename(h) => At(h, "rename")
           /\ ReadSegments(h) => At(h, "readsegments")
           /\ PutSegment(h) => At(h, "putsegment")
           /\ RecordSegment(h) => At(h, "recordsegment")
           /\ WriteSLO(h) => At(h, "manifest")
           /\ ReadForDelete(h) => At(h, "delete")
           /\ Finish(h) => At(h, "return")
  BY DEF ListObjects, BulkDelete, DeleteChildren, DeleteRow, UpsertRow, MakeDir,
         Upload, ReadTarget, Rename, ReadSegments, PutSegment, RecordSegment,
         WriteSLO, ReadForDelete, Finish

LEMMA SameMove ==
    ASSUME NEW m, NEW k, NEW fs, NEW gs, NEW os, NEW ot, MoveKeeps(m, fs, os),
           SameCall(m, k), k.val = m.val,
           m.op = "move" =>
             /\ gs[m.path] = fs[m.path] /\ gs[m.dest] = fs[m.dest]
             /\ ~NoTask(k, Deleting \cup {"target"}) => ~NoTask(k, {"rename"})
             /\ NoTask(k, {"rename"}) <=> NoTask(m, {"rename"})
             /\ \A t \in TasksOf(k.todo) :
                  /\ t.do = "unlink" => t.path = m.dest
                  /\ t.do \in {"list", "bulkdelete"} => ~HasLoc(fs, m.path, t.loc)
             /\ NoTask(m, {"rename"}) => ot = os
             /\ fs[m.path] # NoRow /\ fs[m.path].loc # NoLoc =>
                  \A o \in os : o.loc = fs[m.path].loc => o \in ot
    PROVE  MoveKeeps(k, gs, ot)
<1>1. SUFFICES ASSUME m.op = "move" PROVE MoveKeeps(k, gs, ot)
  BY DEF MoveKeeps, SameCall
<1>2. k.path = m.path /\ k.dest = m.dest
  BY DEF SameCall
<1>3. \A l : HasLoc(gs, m.path, l) <=> HasLoc(fs, m.path, l)
  BY <1>1 DEF HasLoc
<1>4. NoTask(k, {"rename"}) =>
        /\ gs[m.path] = NoRow
        /\ m.val # Unknown => Holds(m.dest, m.val, gs, ot)
  <2>1. SUFFICES ASSUME NoTask(m, {"rename"})
                 PROVE  gs[m.path] = NoRow
                        /\ (m.val # Unknown => Holds(m.dest, m.val, gs, ot))
    BY <1>1
  <2>2. fs[m.path] = NoRow /\ (m.val # Unknown => Holds(m.dest, m.val, fs, os))
    BY <1>1, <2>1 DEF MoveKeeps
  <2>3. ot = os
    BY <1>1, <2>1
  <2> QED BY <1>1, <2>2, <2>3, HoldsKept
<1>5. ~NoTask(k, {"rename"}) /\ m.val # Unknown => Holds(m.path, m.val, gs, ot)
  <2>1. ~NoTask(k, {"rename"}) /\ m.val # Unknown => Holds(m.path, m.val, fs, os)
    BY <1>1 DEF MoveKeeps
  <2> QED BY <1>1, <2>1, HoldsKept
<1> QED BY <1>1, <1>2, <1>3, <1>4, <1>5 DEF MoveKeeps

LEMMA RenameKeeps ==
    ASSUME StoreInv, NEW h \in Handlers, Shape(handler[h]),
           TargetFree(handler[h], files), Rename(h),
           MoveKeeps(handler[h], files, objects)
    PROVE  MoveKeeps(handler'[h], files', objects')
<1> DEFINE m == handler[h]
           k == handler'[h]
<1>1. /\ StepBy(h, "rename", <<>>) /\ m.op = "move"
      /\ m.path \in Uploads /\ m.dest \in Blobs /\ m.path # m.dest
      /\ m.path \in Paths /\ m.dest \in Paths
      /\ objects' = objects
      /\ files' = IF files[m.path] = NoRow THEN files
                  ELSE [files EXCEPT ![m.path] = NoRow, ![m.dest] = files[m.path]]
  BY RenameFacts
<1>2. SameCall(m, k) /\ k.val = m.val
  BY StepSame DEF Step, Rename, Finish, At
<1>3. At(h, "rename") /\ Now(h) \in TasksOf(m.todo) /\ Now(h).do = "rename"
  BY NowUsed DEF Rename
<1>4. \A t \in TasksOf(Tail(m.todo)) : t.do \in {"mkdir", "return"}
  BY <1>1, RestAfter, AfterTable
<1>5. /\ \A t \in TasksOf(k.todo) : t.do \in {"mkdir", "return"}
      /\ \A t \in TasksOf(m.todo) : t.do \in {"rename", "mkdir", "return"}
  BY <1>1, <1>3, <1>4, StepTodo, DoneTasks
<1>6. ~NoTask(m, {"rename"}) /\ NoTask(k, {"rename"})
      /\ NoTask(k, Deleting \cup {"target"})
  BY <1>3, <1>5 DEF NoTask, Deleting
<1>7. files[m.dest] = NoRow
  BY <1>3, <1>5 DEF TargetFree, HasTask
<1>8. m.val # Unknown => Holds(m.path, m.val, files, objects)
  BY <1>1, <1>6 DEF MoveKeeps
<1>9. files'[m.path] = NoRow /\ files'[m.dest] = files[m.path]
  <2>1. files \in [Paths -> Row \cup {NoRow}]
    BY DEF StoreInv, RowsOK
  <2>2. CASE files[m.path] = NoRow
    BY <1>1, <1>7, <2>2
  <2>3. CASE files[m.path] # NoRow
    BY <1>1, <2>1, <2>3
  <2> QED BY <2>2, <2>3
<1>10. m.dest \notin Uploads
  BY <1>1, SwiftPlusAssumption
<1>11. m.val # Unknown => Holds(m.dest, m.val, files', objects')
  <2>1. CASE m.val = Absent
    BY <1>8, <1>9, <2>1 DEF Holds
  <2>2. CASE m.val # Absent
    <3>1. m.val # Unknown =>
            files[m.path] # NoRow /\ RowHolds(m.path, m.val, files[m.path], objects)
      BY <1>8, <2>2 DEF Holds
    <3>2. m.val # Unknown => RowHolds(m.dest, m.val, files[m.path], objects')
      BY <1>1, <1>10, <3>1 DEF RowHolds
    <3> QED BY <1>9, <2>2, <3>1, <3>2 DEF Holds
  <2> QED BY <2>1, <2>2
<1> QED BY <1>2, <1>5, <1>6, <1>9, <1>11 DEF MoveKeeps, SameCall

LEMMA MoveStepKeeps ==
    ASSUME StoreInv, NEW h \in Handlers, Shape(handler[h]), PathOK(handler[h]),
           CallOK(handler[h]), UniqueLocs(files), TargetFree(handler[h], files),
           Step(h), ~Finish(h), MoveKeeps(handler[h], files, objects)
    PROVE  MoveKeeps(handler'[h], files', objects')
<1> DEFINE m == handler[h]
           k == handler'[h]
<1>1. SameCall(m, k) /\ k.val = m.val
  BY StepSame
<1>2. SUFFICES ASSUME m.op = "move" PROVE MoveKeeps(k, files', objects')
  BY <1>1 DEF MoveKeeps, SameCall
<1>3. /\ m.path \in Uploads /\ m.dest \in Blobs /\ m.path # m.dest
      /\ m.path \in Paths /\ m.dest \in Paths
      /\ m.path \notin Dirs /\ m.dest \notin Dirs
      /\ RegionOf(m) = {m.path, m.dest}
  BY <1>2, RegionIs, SwiftPlusAssumption DEF CallOK, Files, Dirs
<1>4. \A do : At(h, do) => do \in {"list", "bulkdelete", "children", "unlink",
                                   "target", "rename", "mkdir", "return"}
  BY <1>2, KindNow, KindsTable DEF Deleting
<1>5. \/ ListObjects(h) \/ BulkDelete(h) \/ DeleteChildren(h) \/ DeleteRow(h)
      \/ ReadTarget(h) \/ Rename(h) \/ MakeDir(h)
  BY <1>4, StepKinds DEF Step
<1>6. /\ ~NoTask(m, Deleting \cup {"target"}) => ~NoTask(m, {"rename"})
      /\ \A t \in TasksOf(m.todo) :
           /\ t.do = "unlink" => t.path = m.dest
           /\ t.do \in {"list", "bulkdelete"} => ~HasLoc(files, m.path, t.loc)
  BY <1>2 DEF MoveKeeps
<1>7. ASSUME NEW do \in Deleting \cup {"target"}, At(h, do)
      PROVE  ~NoTask(m, {"rename"})
  BY <1>6, <1>7, NowUsed DEF NoTask
<1>8. CASE ListObjects(h)
  <2>1. PICK b, tasks : /\ StepBy(h, "list", tasks) /\ TasksOf(tasks) = {b}
                        /\ b.do = "bulkdelete" /\ b.loc = Now(h).loc /\ Quiet
    BY <1>8, ListFacts
  <2>2. Now(h) \in TasksOf(m.todo) /\ Now(h).do = "list" /\ ~NoTask(m, {"rename"})
    BY <1>7, <1>8, NowUsed DEF ListObjects, Deleting
  <2>3. NoTask(k, {"rename"}) <=> NoTask(m, {"rename"})
    BY <2>1, TasksLeft
  <2>4. \A t \in TasksOf(k.todo) : t = b \/ t \in TasksOf(m.todo)
    BY <2>1, StepTodo
  <2>5. \A t \in TasksOf(k.todo) :
          /\ t.do = "unlink" => t.path = m.dest
          /\ t.do \in {"list", "bulkdelete"} => ~HasLoc(files, m.path, t.loc)
    BY <1>6, <2>1, <2>2, <2>4
  <2>6. files' = files /\ objects' = objects
    BY <2>1 DEF Quiet
  <2> QED BY <1>1, <2>2, <2>3, <2>5, <2>6, SameMove
<1>9. CASE BulkDelete(h)
  <2>1. /\ StepBy(h, "bulkdelete", <<>>) /\ files' = files
        /\ \A o \in objects : o.loc # Now(h).loc => o \in objects'
    BY <1>9, DoneFacts DEF BulkDelete
  <2>2. Now(h) \in TasksOf(m.todo) /\ Now(h).do = "bulkdelete" /\ ~NoTask(m, {"rename"})
    BY <1>7, <1>9, NowUsed DEF BulkDelete, Deleting
  <2>3. /\ TasksOf(k.todo) \subseteq TasksOf(m.todo)
        /\ NoTask(k, {"rename"}) <=> NoTask(m, {"rename"})
    BY <2>1, DoneLeft
  <2>4. ~HasLoc(files, m.path, Now(h).loc)
    BY <1>6, <2>2
  <2>5. files[m.path] # NoRow => files[m.path].loc # Now(h).loc
    BY <2>4 DEF HasLoc
  <2>6. files[m.path] # NoRow /\ files[m.path].loc # NoLoc =>
          \A o \in objects : o.loc = files[m.path].loc => o \in objects'
    BY <2>1, <2>5
  <2> QED BY <1>1, <1>6, <2>1, <2>2, <2>3, <2>6, SameMove
<1>10. CASE DeleteChildren(h)
  <2>1. Now(h) \in TasksOf(m.todo) /\ Now(h).do = "children"
    BY <1>10, NowUsed DEF DeleteChildren
  <2>2. Now(h).path \in Dirs /\ Now(h).path \in RegionOf(m)
    BY <2>1, TaskFacts, RegionPaths
  <2> QED BY <1>3, <2>2
<1>11. CASE DeleteRow(h)
  <2>1. /\ StepBy(h, "unlink", <<>>) /\ objects' = objects
        /\ files' = [files EXCEPT ![Now(h).path] = NoRow]
    BY <1>11, DoneFacts DEF DeleteRow
  <2>2. Now(h) \in TasksOf(m.todo) /\ Now(h).do = "unlink" /\ ~NoTask(m, {"rename"})
    BY <1>7, <1>11, NowUsed DEF DeleteRow, Deleting
  <2>3. /\ TasksOf(k.todo) \subseteq TasksOf(m.todo)
        /\ NoTask(k, {"rename"}) <=> NoTask(m, {"rename"})
    BY <2>1, DoneLeft
  <2>4. Now(h).path = m.dest
    BY <1>6, <2>2
  <2>5. files'[m.path] = files[m.path]
    BY <1>3, <2>1, <2>4
  <2>7. \A l : HasLoc(files', m.path, l) <=> HasLoc(files, m.path, l)
    BY <2>5 DEF HasLoc
  <2>8. m.val # Unknown => Holds(m.path, m.val, files', objects')
    <3>1. m.val # Unknown => Holds(m.path, m.val, files, objects)
      BY <1>2, <2>2 DEF MoveKeeps
    <3> QED BY <2>1, <2>5, <3>1, HoldsKept
  <2>9. /\ ~NoTask(k, {"rename"})
        /\ \A t \in TasksOf(k.todo) :
             /\ t.do = "unlink" => t.path = m.dest
             /\ t.do \in {"list", "bulkdelete"} => ~HasLoc(files', m.path, t.loc)
    BY <1>6, <2>2, <2>3, <2>7
  <2> QED BY <1>1, <2>8, <2>9 DEF MoveKeeps, SameCall
<1>12. CASE ReadTarget(h)
  <2>1. PICK do \in {"target", "delete"} : \E tasks :
          /\ DownStep(h, do, tasks)
          /\ do = (IF ReadTarget(h) THEN "target" ELSE "delete")
          /\ LET p == Now(h).path
             IN  tasks = IF files[p] = NoRow THEN <<>>
                         ELSE deleteDownwards(p, files[p])
    BY <1>12, ReadRowDown
  <2>2. PICK tasks : /\ StepBy(h, "target", tasks) /\ Quiet
                     /\ tasks = IF files[Now(h).path] = NoRow THEN <<>>
                                ELSE deleteDownwards(Now(h).path, files[Now(h).path])
    BY <1>12, <2>1 DEF DownStep
  <2>3. At(h, "target") /\ Now(h).path = m.dest
    BY <1>12, KindNow DEF ReadTarget, TaskShape
  <2>4. \A t \in TasksOf(tasks) :
          files[m.dest] # NoRow /\ t \in DownTasks(m.dest, files[m.dest])
    <3>1. CASE files[m.dest] = NoRow
      BY <2>2, <2>3, <3>1, TasksOne
    <3>2. CASE files[m.dest] # NoRow
      BY <1>3, <2>2, <2>3, <3>2, DownReturn
    <3> QED BY <3>1, <3>2
  <2>5. \A t \in DownTasks(m.dest, files[m.dest]) :
          /\ t.do \in {"list", "children", "unlink"}
          /\ t.do = "unlink" => t.path = m.dest
          /\ t.do = "list" => t.loc = files[m.dest].loc /\ t.loc # NoLoc
    BY DEF DownTasks, ListTasks, Task
  <2>6. \A t \in TasksOf(tasks) :
          /\ t.do \in {"list", "children", "unlink"}
          /\ t.do = "unlink" => t.path = m.dest
          /\ t.do = "list" => ~HasLoc(files, m.path, t.loc)
    BY <1>3, <2>4, <2>5 DEF UniqueLocs, HasLoc
  <2>7. \A t \in TasksOf(k.todo) : t \in TasksOf(tasks) \/ t \in TasksOf(m.todo)
    BY <2>2, StepTodo
  <2>8. NoTask(k, {"rename"}) <=> NoTask(m, {"rename"})
    BY <2>2, <2>6, TasksLeft
  <2>9. \A t \in TasksOf(k.todo) :
          /\ t.do = "unlink" => t.path = m.dest
          /\ t.do \in {"list", "bulkdelete"} => ~HasLoc(files, m.path, t.loc)
    BY <1>6, <2>6, <2>7
  <2>10. ~NoTask(m, {"rename"}) /\ files' = files /\ objects' = objects
    BY <1>7, <2>2, <2>3 DEF Quiet
  <2> QED BY <1>1, <2>8, <2>9, <2>10, SameMove
<1>13. CASE Rename(h)
  BY <1>13, RenameKeeps
<1>14. CASE MakeDir(h)
  <2> DEFINE d == Now(h).path
  <2>1. /\ d \in Dirs /\ StepBy(h, "mkdir", mkdirAll(Parent[d]))
        /\ TasksOf(mkdirAll(Parent[d])) = DirTasks(Parent[d])
        /\ objects' = objects
        /\ files' = [files EXCEPT ![d] = IF files[d] = NoRow THEN DirRow ELSE files[d]]
    BY <1>14, MakeDirFacts
  <2>2. \A t \in DirTasks(Parent[d]) : t.do = "mkdir"
    BY DEF DirTasks, Task
  <2>3. files'[m.path] = files[m.path] /\ files'[m.dest] = files[m.dest]
    BY <1>3, <2>1
  <2>4. \A t \in TasksOf(Tail(m.todo)) : t.do \in {"upload", "return"}
    BY <2>1, RestAfter, AfterTable
  <2>5. \A t \in TasksOf(k.todo) : t.do \in {"mkdir", "upload", "return"}
    BY <2>1, <2>2, <2>4, StepTodo
  <2>6. NoTask(k, Deleting \cup {"target"})
    BY <2>5 DEF NoTask, Deleting
  <2>7. NoTask(k, {"rename"}) <=> NoTask(m, {"rename"})
    BY <2>1, <2>2, TasksLeft
  <2>8. objects' = objects
    BY <2>1
  <2> QED BY <1>1, <2>3, <2>5, <2>6, <2>7, <2>8, SameMove
<1> QED BY <1>5, <1>8, <1>9, <1>10, <1>11, <1>12, <1>13, <1>14

(* A row is deleted when nothing is left in its directory. *)
LEMMA UnlinkGone ==
    ASSUME StoreInv, NEW h \in Handlers, Covered(handler[h].todo, files), DeleteRow(h)
    PROVE  Gone(Now(h).path, files')
<1> DEFINE q == handler[h].todo
           p == Now(h).path
<1>1. /\ files' = [files EXCEPT ![p] = NoRow] /\ q # <<>> /\ Head(q).do = "unlink"
      /\ q \in Seq(AnyTask) /\ p = Head(q).path
  BY HandlerTypes DEF DeleteRow, At, Now
<1>2. 1 \in DOMAIN q /\ q[1] = Head(q) /\ DOMAIN q = 1..Len(q)
  BY <1>1
<1>3. p \in Paths
  BY <1>1, NowUsed, TaskFacts DEF DeleteRow
<1>4. \A x \in Paths : Parent[x] = p /\ files[x] # NoRow => \E j \in DOMAIN q : j < 1
  BY <1>1, <1>2 DEF Covered
<1>5. \A x \in Paths : Parent[x] = p => files[x] = NoRow
  BY <1>2, <1>4
<1>6. files \in [Paths -> Row \cup {NoRow}]
  BY DEF StoreInv, RowsOK
<1> QED BY <1>1, <1>3, <1>5, <1>6 DEF Gone

LEMMA DeleteStepKeeps ==
    ASSUME StoreInv, NEW h \in Handlers, Shape(handler[h]), CallOK(handler[h]),
           Incomplete(handler[h]) \/ Covered(handler[h].todo, files),
           Step(h), ~Finish(h), DeleteKeeps(handler[h], files)
    PROVE  DeleteKeeps(handler'[h], files')
<1> DEFINE m == handler[h]
           k == handler'[h]
<1>1. SameCall(m, k) /\ (Incomplete(k) <=> Incomplete(m))
  BY StepSame DEF Incomplete, SameCall
<1>2. SUFFICES ASSUME m.op \in {"delete", "create", "cancel"}, ~Incomplete(m)
               PROVE  DeleteKeeps(k, files')
  BY <1>1 DEF DeleteKeeps, SameCall, Incomplete
<1>3. \A do : At(h, do) => do \in {"list", "bulkdelete", "children", "unlink",
                                   "putsegment", "recordsegment", "delete", "return"}
  BY <1>2, KindNow, KindsTable DEF Deleting, FlushTasks
<1>4. \/ ListObjects(h) \/ BulkDelete(h) \/ DeleteChildren(h) \/ DeleteRow(h)
      \/ PutSegment(h) \/ RecordSegment(h) \/ ReadForDelete(h)
  BY <1>3, StepKinds DEF Step
<1>5. m.path \in Paths \/ m.op = "cancel"
  BY <1>2 DEF Shape
<1>6. CASE ~DeleteRow(h)
  <2>1. PICK do : \E tasks : /\ StepBy(h, do, tasks) /\ files' = files
                             /\ do # "unlink" /\ (do = "delete" => ReadForDelete(h))
    <3>1. CASE ListObjects(h)
      <4>1. \E tasks : StepBy(h, "list", tasks) /\ files' = files
        BY <3>1, ListFacts DEF Quiet
      <4> QED BY <4>1
    <3>2. CASE BulkDelete(h)
      <4>1. StepBy(h, "bulkdelete", <<>>) /\ files' = files
        BY <3>2, DoneFacts DEF BulkDelete
      <4> QED BY <4>1
    <3>3. CASE DeleteChildren(h)
      <4>1. \E tasks : StepBy(h, "children", tasks) /\ files' = files
        BY <3>3, ChildrenDown DEF DownStep, Quiet
      <4> QED BY <4>1
    <3>4. CASE PutSegment(h)
      <4>1. StepBy(h, "putsegment", <<>>) /\ files' = files
        BY <3>4, PutSegmentFacts DEF PutFlush
      <4> QED BY <4>1
    <3>5. CASE RecordSegment(h)
      <4>1. StepBy(h, "recordsegment", <<>>) /\ files' = files
        BY <3>5, RecordSegmentFacts DEF RecordFlush
      <4> QED BY <4>1
    <3>6. CASE ReadForDelete(h)
      <4>1. \E do \in {"target", "delete"} : \E tasks : DownStep(h, do, tasks)
        BY <3>6, ReadRowDown
      <4>2. PICK do \in {"target", "delete"} : \E tasks : DownStep(h, do, tasks)
        BY <4>1
      <4>3. PICK tasks : StepBy(h, do, tasks) /\ files' = files
        BY <4>2 DEF DownStep, Quiet
      <4> QED BY <3>6, <4>3
    <3> QED BY <1>4, <1>6, <3>1, <3>2, <3>3, <3>4, <3>5, <3>6
  <2>2. PICK tasks : StepBy(h, do, tasks)
    BY <2>1
  <2>3. \A t \in TasksOf(m.todo) : t.do # do => t \in TasksOf(k.todo)
    BY <2>2, StepTodo
  <2>4. \A p : HasTask(m, "unlink", p) => HasTask(k, "unlink", p)
    BY <2>1, <2>3 DEF HasTask
  <2>5. CASE do # "delete"
    <3>1. \A p : HasTask(m, "delete", p) => HasTask(k, "delete", p)
      BY <2>3, <2>5 DEF HasTask
    <3>2. files' = files
      BY <2>1
    <3> QED BY <1>1, <2>4, <3>1, <3>2 DEF DeleteKeeps, SameCall
  <2>6. CASE do = "delete"
    <3>1. ReadForDelete(h) /\ files' = files
      BY <2>1, <2>6
    <3>2. At(h, "delete") /\ Now(h).path = m.wr.path
      BY <3>1, KindNow DEF ReadForDelete, TaskShape
    <3>3. m.op = "cancel"
      BY <3>2, KindNow, <1>2, KindsTable DEF Deleting
    <3>4. Now(h).path \in Paths
      BY <3>2, NowClaimed
    <3>5. files[m.wr.path] # NoRow => HasTask(k, "unlink", m.wr.path)
      <4>1. SUFFICES ASSUME files[m.wr.path] # NoRow
                     PROVE  HasTask(k, "unlink", m.wr.path)
        OBVIOUS
      <4>2. \E dd \in {"target", "delete"} : \E ts :
              DownStep(h, dd, ts) /\ ts = deleteDownwards(m.wr.path, files[m.wr.path])
        BY <3>1, <3>2, <4>1, ReadRowDown
      <4>3. PICK dd \in {"target", "delete"} : \E ts :
              DownStep(h, dd, ts) /\ ts = deleteDownwards(m.wr.path, files[m.wr.path])
        BY <4>2
      <4>4. PICK ts : StepBy(h, dd, ts) /\ ts = deleteDownwards(m.wr.path, files[m.wr.path])
        BY <4>3 DEF DownStep
      <4>5. TasksOf(ts) = DownTasks(m.wr.path, files[m.wr.path])
        BY <3>2, <3>4, <4>1, <4>4, DownReturn
      <4>6. Task("unlink", m.wr.path, NoLoc, NoRow) \in TasksOf(k.todo)
        BY <4>4, <4>5, StepTodo DEF DownTasks
      <4> QED BY <4>6 DEF HasTask, Task
    <3> QED BY <1>1, <3>1, <3>3, <3>5 DEF DeleteKeeps, SameCall
  <2> QED BY <2>5, <2>6
<1>7. CASE DeleteRow(h)
  <2>1. /\ StepBy(h, "unlink", <<>>) /\ files' = [files EXCEPT ![Now(h).path] = NoRow]
    BY <1>7, DoneFacts DEF DeleteRow
  <2>2. Gone(Now(h).path, files')
    BY <1>2, <1>7, UnlinkGone
  <2>3. Now(h).do = "unlink" /\ TasksOf(m.todo) = {Now(h)} \cup TasksOf(k.todo)
    BY <2>1, StepTodo, DoneTasks
  <2>4. \A p : HasTask(m, "unlink", p) => p = Now(h).path \/ HasTask(k, "unlink", p)
    BY <2>3 DEF HasTask
  <2>5. \A p : HasTask(m, "delete", p) => HasTask(k, "delete", p)
    BY <2>3 DEF HasTask
  <2>6. files \in [Paths -> Row \cup {NoRow}]
    BY DEF StoreInv, RowsOK
  <2>7. \A x \in Paths : files[x] = NoRow => files'[x] = NoRow
    BY <2>1, <2>6
  <2>8. m.path \in Paths /\ Gone(m.path, files) => Gone(m.path, files')
    BY <2>7 DEF Gone
  <2>9. m.op = "cancel" => m.wr.path \in Paths
    BY SwiftPlusAssumption DEF CallOK, WriterOps, Files
  <2>10. m.op # "cancel" => HasTask(k, "unlink", m.path) \/ Gone(m.path, files')
    BY <1>2, <1>5, <2>2, <2>4, <2>8 DEF DeleteKeeps
  <2>11. m.op = "cancel" => \/ HasTask(k, "delete", m.wr.path)
                            \/ HasTask(k, "unlink", m.wr.path)
                            \/ files'[m.wr.path] = NoRow
    BY <2>2, <2>4, <2>5, <2>7, <2>9 DEF DeleteKeeps, Gone
  <2> QED BY <1>1, <2>10, <2>11 DEF DeleteKeeps, SameCall
<1> QED BY <1>6, <1>7

(* A segment that was uploaded is recorded next. *)
LEMMA RecordNext ==
    ASSUME StoreInv, NEW h \in Handlers, Shape(handler[h]), PutSegment(h)
    PROVE  /\ ~NoTask(handler'[h], FlushTasks)
           /\ handler'[h].todo # <<>> /\ Head(handler'[h].todo).do = "recordsegment"
<1> DEFINE m == handler[h]
           k == handler'[h]
<1>1. StepBy(h, "putsegment", <<>>) /\ m.todo # <<>> /\ Head(m.todo).do = "putsegment"
  BY PutSegmentFacts DEF PutSegment, At
<1>2. TasksOf(k.todo) = TasksOf(Tail(m.todo)) /\ Tail(m.todo) \in Seq(AnyTask)
      /\ m.todo \in Seq(AnyTask)
  BY <1>1, DoneTasks, StepTodo
<1>3. \/ m.todo \in Seq(TaskSet(m.op, m.wr.loc, nextLoc, written))
      \/ Flushing(m.todo, m.wr.loc, TaskSet(m.op, m.wr.loc, nextLoc, written))
  BY DEF StoreInv, HandlerOK
<1>4. m.todo \notin Seq(TaskSet(m.op, m.wr.loc, nextLoc, written))
  <2>1. SUFFICES ASSUME m.todo \in Seq(TaskSet(m.op, m.wr.loc, nextLoc, written))
                 PROVE  FALSE
    OBVIOUS
  <2>2. Head(m.todo) \in TaskSet(m.op, m.wr.loc, nextLoc, written)
    BY <1>1, <2>1
  <2> QED BY <1>1, <2>2 DEF TaskSet, FlushTasks
<1>5. Head(m.todo) # RecordTask(m.wr.loc)
  BY <1>1 DEF RecordTask, Task
<1>6. Tail(m.todo) # <<>> /\ Head(Tail(m.todo)) = RecordTask(m.wr.loc)
  BY <1>3, <1>4, <1>5 DEF Flushing
<1>7. RecordTask(m.wr.loc) \in TasksOf(k.todo)
  BY <1>2, <1>6, HeadIn
<1>8. RecordTask(m.wr.loc).do = "recordsegment"
  BY DEF RecordTask, Task
<1>9. k.todo = Tail(m.todo)
  <2>1. k.todo = <<>> \o Tail(m.todo)
    BY <1>1 DEF StepBy
  <2> QED BY <1>2, <2>1
<1> QED BY <1>6, <1>7, <1>8, <1>9 DEF NoTask, FlushTasks

(* The manifest that was written delivers the segments of the writer. *)
LEMMA ManifestDelivers ==
    ASSUME StoreInv, NEW h \in Handlers, WriteSLO(h)
    PROVE  LET w == handler[h].wr
           IN  \E o \in objects' : /\ o.loc = w.loc /\ o.slo /\ o.parts = w.segs
                                   /\ Delivers(o, Units(w.segs), objects')
<1> DEFINE w == handler[h].wr
           new == Manifest(w.loc, w.segs)
<1>1. /\ objects' = PutObject(new) /\ At(h, "manifest")
      /\ \A i \in DOMAIN w.segs : PartFound(w.loc, w.segs[i])
  BY WriteSLOFacts DEF WriteSLO, ManifestRefused
<1>2. w.segs \in Seq(Part) /\ \A i \in 1..Len(w.segs) : w.segs[i].num = i
  BY <1>1, WriterParts
<1>3. new.loc = w.loc /\ new.num = 0 /\ new.slo /\ new.parts = w.segs
  BY DEF Manifest
<1> HIDE DEF new
<1>4. new \in objects' /\ \A x \in objects : x.num # 0 => x \in objects'
  BY <1>1, <1>3 DEF PutObject
<1>5. \A i \in 1..Len(w.segs) :
        \E x \in objects' : x.loc = w.loc /\ x.num = i /\ x.data = <<w.segs[i].unit>>
  <2> SUFFICES ASSUME NEW i \in 1..Len(w.segs)
               PROVE  \E x \in objects' : /\ x.loc = w.loc /\ x.num = i
                                          /\ x.data = <<w.segs[i].unit>>
    OBVIOUS
  <2>1. PartFound(w.loc, w.segs[i]) /\ w.segs[i].num = i
    BY <1>1, <1>2
  <2>2. PICK x \in objects : x.loc = w.loc /\ x.num = i /\ x.data = <<w.segs[i].unit>>
    BY <2>1 DEF PartFound, ObjectAt
  <2>3. x \in objects'
    BY <1>4, <2>2
  <2> QED BY <2>2, <2>3
<1>6. Delivers(new, Units(w.segs), objects')
  <2>1. \A i \in 1..Len(new.parts) :
          \E x \in objects' : /\ x.loc = new.loc /\ x.num = i
                              /\ x.data = <<new.parts[i].unit>>
    <3> SUFFICES ASSUME NEW i \in 1..Len(new.parts)
                 PROVE  \E x \in objects' : /\ x.loc = new.loc /\ x.num = i
                                            /\ x.data = <<new.parts[i].unit>>
      OBVIOUS
    <3>1. i \in 1..Len(w.segs) /\ new.parts[i] = w.segs[i] /\ new.loc = w.loc
      BY <1>3
    <3>2. PICK x \in objects' : /\ x.loc = w.loc /\ x.num = i
                                /\ x.data = <<w.segs[i].unit>>
      BY <1>5, <3>1
    <3> QED BY <3>1, <3>2
  <2>2. Units(new.parts) = Units(w.segs)
    BY <1>3
  <2> QED BY <1>3, <2>1, <2>2 DEF Delivers
<1> QED BY <1>3, <1>4, <1>6

LEMMA CommitStepKeeps ==
    ASSUME StoreInv, NEW h \in Handlers, Shape(handler[h]), CallOK(handler[h]),
           Step(h), ~Finish(h), CommitKeeps(handler[h], files, objects)
    PROVE  CommitKeeps(handler'[h], files', objects')
<1> DEFINE m == handler[h]
           k == handler'[h]
<1>1. SameCall(m, k)
  BY StepSame
<1>2. SUFFICES ASSUME m.op \in {"commit", "close"}
               PROVE  CommitKeeps(k, files', objects')
  BY <1>1 DEF CommitKeeps, SameCall
<1>3. \A do : At(h, do) => do \in {"putsegment", "recordsegment", "manifest", "upsert",
                                   "mkdir", "return"}
  BY <1>2, KindNow, KindsTable DEF FlushTasks
<1>4. PutSegment(h) \/ RecordSegment(h) \/ WriteSLO(h) \/ UpsertRow(h) \/ MakeDir(h)
  BY <1>3, StepKinds DEF Step
<1>5. m.wr.path \in Paths /\ m.wr.path \notin Dirs /\ k.op = m.op
  BY <1>1, <1>2, SwiftPlusAssumption DEF CallOK, WriterOps, Files, Dirs, SameCall
<1>6. /\ NoTask(m, FlushTasks) => m.wr.buf = NoUnit
      /\ ~NoTask(m, FlushTasks) => ~NoTask(m, {"manifest"})
      /\ \A t \in TasksOf(m.todo) : t.do = "upsert" => t.row = ManifestRow(m.wr)
      /\ NoTask(m, {"manifest"}) =>
           \E o \in objects : /\ o.loc = m.wr.loc /\ o.slo /\ o.parts = m.wr.segs
                              /\ Delivers(o, Units(m.wr.segs), objects)
      /\ NoTask(m, {"manifest", "upsert"}) => files[m.wr.path] = ManifestRow(m.wr)
  BY <1>2 DEF CommitKeeps
<1>7. CASE PutSegment(h) \/ RecordSegment(h)
  <2>1. PICK do \in FlushTasks : StepBy(h, do, <<>>)
    BY <1>7, PutSegmentFacts, RecordSegmentFacts DEF FlushTasks
  <2>2. At(h, do) /\ Now(h) \in TasksOf(m.todo) /\ Now(h).do = do
    BY <2>1, NowUsed DEF StepBy
  <2>3. ~NoTask(m, FlushTasks)
    BY <2>2 DEF NoTask
  <2>4. ~NoTask(k, {"manifest"})
    BY <1>6, <2>1, <2>3, DoneLeft DEF FlushTasks
  <2>5. ~NoTask(k, {"manifest", "upsert"})
    BY <2>4 DEF NoTask
  <2>6. \A t \in TasksOf(k.todo) : t.do # "upsert"
    BY <2>1, RestAfter, DoneTasks, AfterTable DEF FlushTasks
  <2>7. NoTask(k, FlushTasks) => k.wr.buf = NoUnit
    <3>1. CASE PutSegment(h)
      BY <3>1, RecordNext
    <3>2. CASE RecordSegment(h)
      <4>1. k.wr = [m.wr EXCEPT !.buf = NoUnit]
        BY <3>2, HandlerTypes DEF RecordSegment, Then, HandlerRec
      <4>2. m.wr.loc # NoLoc
        BY <1>2 DEF CallOK, WriterOps
      <4>3. m.wr \in WriterRec
        BY <4>2, HandlerTypes DEF HandlerRec, NoWriter
      <4> QED BY <4>1, <4>3 DEF WriterRec
    <3> QED BY <1>7, <3>1, <3>2
  <2> QED BY <2>4, <2>5, <2>6, <2>7 DEF CommitKeeps
<1>8. CASE WriteSLO(h)
  <2> DEFINE w == m.wr
             tasks == writeFileInfo(w.path, ManifestRow(w))
  <2>1. /\ StepBy(h, "manifest", tasks) /\ k.wr = w
        /\ TasksOf(tasks) = RowTasks(w.path, ManifestRow(w))
    BY <1>8, WriteSLOFacts
  <2>2. \A t \in TasksOf(Tail(m.todo)) : t.do = "return"
    BY <2>1, RestAfter, AfterTable
  <2>3. Task("upsert", w.path, NoLoc, ManifestRow(w)) \in TasksOf(tasks)
        /\ Task("upsert", w.path, NoLoc, ManifestRow(w)).do = "upsert"
    BY <2>1 DEF RowTasks, Task
  <2>4. \A t \in TasksOf(tasks) : /\ t.do \in {"upsert", "mkdir"}
                                  /\ t.do = "upsert" => t.row = ManifestRow(w)
    BY <2>1 DEF RowTasks, DirTasks, Task
  <2> HIDE DEF tasks
  <2>5. TasksOf(k.todo) = TasksOf(tasks) \cup TasksOf(Tail(m.todo))
    BY <2>1, StepTodo
  <2>6. /\ \A t \in TasksOf(k.todo) : t.do = "upsert" => t.row = ManifestRow(w)
        /\ NoTask(k, FlushTasks)
        /\ ~NoTask(k, {"manifest", "upsert"})
    BY <2>2, <2>3, <2>4, <2>5 DEF NoTask, FlushTasks
  <2>7. NoTask(m, FlushTasks)
    <3>1. \A t \in TasksOf(m.todo) : t.do \in {"manifest", "return"}
      BY <2>1, <2>2, StepTodo
    <3> QED BY <3>1 DEF NoTask, FlushTasks
  <2>8. w.buf = NoUnit
    BY <1>6, <2>7
  <2>9. \E o \in objects' : /\ o.loc = w.loc /\ o.slo /\ o.parts = w.segs
                            /\ Delivers(o, Units(w.segs), objects')
    BY <1>8, ManifestDelivers
  <2> QED BY <2>1, <2>6, <2>8, <2>9 DEF CommitKeeps
<1>9. CASE UpsertRow(h)
  <2>1. /\ StepBy(h, "upsert", <<>>) /\ k.wr = m.wr /\ objects' = objects
        /\ files' = [files EXCEPT ![Now(h).path] = Now(h).row]
        /\ Now(h).path = m.wr.path
        /\ \A t \in TasksOf(k.todo) : t.do \in {"mkdir", "upload", "return"}
    BY <1>2, <1>9, UpsertFacts
  <2>2. Now(h) \in TasksOf(m.todo) /\ Now(h).do = "upsert"
    BY <1>9, NowUsed DEF UpsertRow
  <2>3. Now(h).row = ManifestRow(m.wr)
    BY <1>6, <2>2
  <2>4. files'[m.wr.path] = ManifestRow(m.wr)
    BY <1>5, <2>1, <2>3 DEF StoreInv, RowsOK
  <2>5. /\ NoTask(k, FlushTasks) /\ NoTask(k, {"manifest"})
        /\ \A t \in TasksOf(k.todo) : t.do # "upsert"
    BY <2>1 DEF NoTask, FlushTasks
  <2>6. NoTask(m, FlushTasks) /\ NoTask(m, {"manifest"})
    BY <2>1, <2>5, DoneLeft DEF FlushTasks
  <2> QED BY <1>6, <2>1, <2>4, <2>5, <2>6 DEF CommitKeeps
<1>10. CASE MakeDir(h)
  <2> DEFINE d == Now(h).path
  <2>1. /\ d \in Dirs /\ StepBy(h, "mkdir", mkdirAll(Parent[d])) /\ k.wr = m.wr
        /\ TasksOf(mkdirAll(Parent[d])) = DirTasks(Parent[d])
        /\ files' = [files EXCEPT ![d] = IF files[d] = NoRow THEN DirRow ELSE files[d]]
        /\ objects' = objects
    BY <1>10, MakeDirFacts
  <2>2. \A t \in DirTasks(Parent[d]) : t.do = "mkdir"
    BY DEF DirTasks, Task
  <2>3. files'[m.wr.path] = files[m.wr.path]
    BY <1>5, <2>1
  <2>4. /\ NoTask(k, FlushTasks) <=> NoTask(m, FlushTasks)
        /\ NoTask(k, {"manifest"}) <=> NoTask(m, {"manifest"})
        /\ NoTask(k, {"manifest", "upsert"}) <=> NoTask(m, {"manifest", "upsert"})
        /\ \A t \in TasksOf(k.todo) : t.do = "upsert" => t \in TasksOf(m.todo)
    BY <2>1, <2>2, TasksLeft DEF FlushTasks
  <2>5. k.wr = m.wr /\ objects' = objects
    BY <2>1
  <2> QED BY <1>6, <2>3, <2>4, <2>5 DEF CommitKeeps
<1> QED BY <1>4, <1>7, <1>8, <1>9, <1>10

LEMMA SegmentsGrow ==
    ASSUME NEW h, Step(h)
    PROVE  segments \subseteq segments'
  BY DEF Step, ListObjects, BulkDelete, DeleteChildren, DeleteRow, UpsertRow,
         MakeDir, Upload, ReadTarget, Rename, ReadSegments, PutSegment,
         RecordSegment, WriteSLO, ReadForDelete, Finish

OnlyReturn(k) ==
    k.todo \in Seq(AnyTask) /\ \A t \in TasksOf(k.todo) : t.do = "return"

InTable(k, sg) ==
    \A i, u : SegmentRow(k.wr.loc, i, u) \in sg =>
      i \in 1..Len(k.wr.segs) /\ k.wr.segs[i].unit = u

(* The writer has read its segments: it knows what is in the table. *)
LEMMA KnownSegments ==
    ASSUME NEW k, NEW nl, NEW nu, NEW wn, NEW sg, HandlerOK(k, nl, nu, wn, sg),
           TableOK(sg, nl, nu), KnowsSegments(k, sg), k.wr.loc # NoLoc, ~k.wr.lost,
           OnlyReturn(k), k.op = "append"
    PROVE  InTable(k, sg)
<1>0. SUFFICES ASSUME NEW i, NEW u, SegmentRow(k.wr.loc, i, u) \in sg
               PROVE  i \in 1..Len(k.wr.segs) /\ k.wr.segs[i].unit = u
  BY DEF InTable
<1>1. k.wr # NoWriter /\ k.wr \in WriterRec /\ ~k.wr.err
  BY DEF HandlerOK, HandlerRec, NoWriter
<1>2. ~Pending(k) /\ \A t \in TasksOf(k.todo) : t.do # "readsegments"
  BY NotPending DEF OnlyReturn
<1>3. k.wr.segs \in Seq(Part) /\ Len(k.wr.segs) \in Nat
  BY <1>1 DEF WriterRec
<1>4. \A j \in 1..Len(k.wr.segs) : SegmentRow(k.wr.loc, j, k.wr.segs[j].unit) \in sg
  BY <1>1, <1>2 DEF HandlerOK, Numbered, SegmentRow
<1>5. i <= Len(k.wr.segs)
  BY <1>0, <1>2 DEF KnowsSegments, SegmentRow
<1>6. i \in 1..nu /\ i \in Nat
  BY <1>0 DEF TableOK, SegmentRow
<1>7. i \in 1..Len(k.wr.segs)
  BY <1>3, <1>5, <1>6
<1>8. SegmentRow(k.wr.loc, i, k.wr.segs[i].unit) = SegmentRow(k.wr.loc, i, u)
  BY <1>0, <1>4, <1>7 DEF TableOK, SegmentRow
<1> QED BY <1>7, <1>8 DEF SegmentRow

LEMMA AppendStepKeeps ==
    ASSUME StoreInv, StoreInv', NEW h \in Handlers, Shape(handler[h]), CallOK(handler[h]),
           KnowsSegments(handler'[h], segments'), Step(h), ~Finish(h),
           AppendKeeps(handler[h], segments)
    PROVE  AppendKeeps(handler'[h], segments')
<1> DEFINE m == handler[h]
           k == handler'[h]
<1>1. /\ SameCall(m, k) /\ (m.wr.loc # NoLoc => k.wr.base = m.wr.base)
      /\ Misled(k) <=> Misled(m)
  BY StepSame DEF Misled, SameCall
<1>2. SUFFICES ASSUME m.wr.loc # NoLoc, ~Misled(m), m.wr.base \notin {Absent, Unknown},
                      NEW i \in 1..Len(m.wr.base)
               PROVE  IF NoTask(k, {"readsegments"})
                      THEN i <= Len(k.wr.segs) /\ k.wr.segs[i].unit = m.wr.base[i]
                      ELSE SegmentRow(m.wr.loc, i, m.wr.base[i]) \in segments'
  BY <1>1 DEF AppendKeeps, SameCall, Misled
<1>3. IF NoTask(m, {"readsegments"})
      THEN i <= Len(m.wr.segs) /\ m.wr.segs[i].unit = m.wr.base[i]
      ELSE SegmentRow(m.wr.loc, i, m.wr.base[i]) \in segments
  BY <1>2 DEF AppendKeeps
<1>4. segments \subseteq segments'
  BY SegmentsGrow
<1>5. m.wr \in WriterRec /\ m.wr.segs \in Seq(Part)
  BY <1>2, HandlerTypes DEF HandlerRec, NoWriter, WriterRec
<1>6. CASE ReadSegments(h)
  <2>1. StepBy(h, "readsegments", <<>>)
    BY <1>6, ReadSegmentsFacts
  <2>2. \A t \in TasksOf(k.todo) : t.do = "return"
    BY <2>1, RestAfter, DoneTasks, AfterTable
  <2>3. ~NoTask(m, {"readsegments"}) /\ NoTask(k, {"readsegments"})
    BY <2>1, <2>2, NowUsed DEF StepBy, NoTask
  <2>4. k.op = "append"
    <3>1. At(h, "readsegments")
      BY <2>1 DEF StepBy
    <3>2. m.op \in Ops /\ "readsegments" \in KindsOf(m.op)
      BY <3>1, KindNow, HandlerTypes DEF HandlerRec
    <3> QED BY <1>1, <3>2, KindsFacts DEF SameCall
  <2>5. /\ HandlerOK(k, nextLoc', nextUnit', written', segments')
        /\ TableOK(segments', nextLoc', nextUnit')
    BY DEF StoreInv
  <2>6. k.wr.loc = m.wr.loc /\ k.wr.loc # NoLoc /\ k.todo \in Seq(AnyTask)
    BY <1>1, <1>2, <2>1, StepTodo DEF SameCall
  <2>7. SegmentRow(k.wr.loc, i, m.wr.base[i]) \in segments'
    BY <1>3, <1>4, <2>3, <2>6
  <2>8. InTable(k, segments')
    <3>1. KnowsSegments(k, segments')
      OBVIOUS
    <3>2. OnlyReturn(k)
      BY <2>2, <2>6 DEF OnlyReturn
    <3>3. ~k.wr.lost
      BY <1>1, <1>2, <2>6 DEF Misled
    <3> QED BY <2>4, <2>5, <2>6, <3>1, <3>2, <3>3, KnownSegments
  <2>9. i \in 1..Len(k.wr.segs) /\ k.wr.segs[i].unit = m.wr.base[i]
    BY <2>7, <2>8 DEF InTable
  <2> QED BY <2>3, <2>9
<1>7. CASE PutSegment(h)
  <2> DEFINE num == IF m.wr.segs = <<>> THEN 1 ELSE Last(m.wr.segs).num + 1
             sg == Append(m.wr.segs, [num |-> num, unit |-> m.wr.buf])
  <2>1. StepBy(h, "putsegment", <<>>) /\ k.wr = [m.wr EXCEPT !.segs = sg]
    BY <1>7, PutSegmentFacts DEF PutFlush
  <2>2. NoTask(m, {"readsegments"}) <=> NoTask(k, {"readsegments"})
    BY <2>1, DoneLeft
  <2>3. /\ Len(sg) = Len(m.wr.segs) + 1 /\ Len(m.wr.segs) \in Nat
        /\ \A j \in 1..Len(m.wr.segs) : sg[j] = m.wr.segs[j]
    BY <1>5
  <2> HIDE DEF sg
  <2>4. k.wr.segs = sg
    BY <1>5, <2>1 DEF WriterRec
  <2>5. i <= Len(m.wr.segs) /\ i \in Nat /\ i >= 1
          => i <= Len(k.wr.segs) /\ k.wr.segs[i] = m.wr.segs[i]
    BY <2>3, <2>4
  <2>6. i \in Nat /\ i >= 1
    <3>1. m.wr.base \in Seq(Unit)
      <4>1. m.wr.base \in Contentses
        BY <1>2, <1>5 DEF WriterRec, Value
      <4> QED BY <4>1, SeqDef DEF Contentses
    <3> QED BY <3>1
  <2> QED BY <1>3, <1>4, <2>2, <2>5, <2>6
<1>8. CASE RecordSegment(h)
  <2>1. StepBy(h, "recordsegment", <<>>) /\ k.wr.segs = m.wr.segs
    BY <1>8, RecordSegmentFacts DEF RecordFlush
  <2>2. NoTask(m, {"readsegments"}) <=> NoTask(k, {"readsegments"})
    BY <2>1, DoneLeft
  <2> QED BY <1>3, <1>4, <2>1, <2>2
<1>9. CASE ~(ReadSegments(h) \/ PutSegment(h) \/ RecordSegment(h))
  <2>1. PICK q : handler' = [handler EXCEPT ![h] = Then(h, q)]
    BY <1>9 DEF Step, ListObjects, BulkDelete, DeleteChildren, DeleteRow, UpsertRow,
         MakeDir, Upload, ReadTarget, Rename, WriteSLO, ReadForDelete, Continue
  <2>2. k.val = m.val /\ k.wr = m.wr
    BY <2>1, ThenSame
  <2>3. k.op = m.op
    BY <1>1 DEF SameCall
  <2>4. m.op # "append"
    <3>1. ASSUME m.op = "append" PROVE FALSE
      <4>1. \A do : At(h, do) => do \in {"readsegments", "return"}
        BY <3>1, KindNow, KindsTable
      <4> QED BY <1>9, <4>1, StepKinds DEF Step
    <3> QED BY <3>1
  <2>5. Shape(k)
    BY StepsShape
  <2>6. NoTask(m, {"readsegments"}) /\ NoTask(k, {"readsegments"})
    <3>1. m.op \in Ops /\ "readsegments" \notin KindsOf(m.op)
      BY <2>4, HandlerTypes, KindsFacts DEF HandlerRec
    <3> QED BY <2>3, <2>5, <3>1 DEF NoTask, Shape, TaskShape
  <2> QED BY <1>3, <2>2, <2>6
<1> QED BY <1>6, <1>7, <1>8, <1>9

-----------------------------------------------------------------------------
(* What calls promise when they begin. *)

LEMMA OtherKeeps ==
    ASSUME NEW k, NEW fs, NEW os, NEW sg
    PROVE  /\ k.op # "put" => PutKeeps(k, fs, os)
           /\ k.op # "move" => MoveKeeps(k, fs, os)
           /\ k.op \notin {"delete", "create", "cancel"} => DeleteKeeps(k, fs)
           /\ k.op \notin {"commit", "close"} => CommitKeeps(k, fs, os)
           /\ \/ k.wr.loc = NoLoc
              \/ k.wr.base \in {Absent, Unknown} /\ ~k.wr.lost
              => AppendKeeps(k, sg)
  BY DEF PutKeeps, MoveKeeps, DeleteKeeps, CommitKeeps, AppendKeeps, Misled

LEMMA PutCallKeeps ==
    ASSUME StoreInv, NEW h \in Handlers, NEW p \in Blobs, NEW large \in BOOLEAN,
           PutContent(h, p, large)
    PROVE  Keeps(handler'[h], files, objects, segments)
<1> DEFINE k == handler'[h]
<1>1. PICK row : PutCall(h, p, large, row)
  BY PutFacts
<1>2. /\ k.op = "put" /\ k.path = p /\ k.wr.loc = NoLoc
      /\ row.size = 1 /\ row.data = (IF large THEN <<>> ELSE <<nextUnit + 1>>)
      /\ row.loc = (IF large THEN nextLoc + 1 ELSE NoLoc)
      /\ TasksOf(k.todo) =
             (IF files[p] = NoRow THEN {} ELSE ListTasks(files[p].loc))
             \cup RowTasks(p, row)
             \cup (IF large THEN {Task("upload", Root, nextLoc + 1, row)} ELSE {})
             \cup {Return}
  BY <1>1 DEF PutCall, CallRec, MayCall, HasWriter
<1>3. k.val = <<nextUnit + 1>>
  <2>1. \E q : handler' = [handler EXCEPT ![h] =
                  Enter(h, "put", p, Root, <<nextUnit'>>, q)]
    BY DEF PutContent
  <2>2. PICK q : handler' = [handler EXCEPT ![h] =
                  Enter(h, "put", p, Root, <<nextUnit'>>, q)]
    BY <2>1
  <2>3. nextUnit' = nextUnit + 1
    BY DEF PutContent
  <2>4. handler'[h].val = <<nextUnit'>>
    BY <2>2, EnterVal
  <2> QED BY <2>3, <2>4
<1>4. Task("upsert", p, NoLoc, row) \in TasksOf(k.todo)
      /\ Task("upsert", p, NoLoc, row).do = "upsert"
  BY <1>2 DEF RowTasks, Task
<1>5. \A t \in TasksOf(k.todo) : t.do = "upsert" => t.row = row
  BY <1>2 DEF RowTasks, ListTasks, DirTasks, Task, Return
<1>6. ~NoTask(k, {"upsert"}) /\ ~NoTask(k, {"upsert", "upload"})
  BY <1>4 DEF NoTask
<1>7. row.size = Len(k.val) /\ row.data = IF row.loc = NoLoc THEN k.val ELSE <<>>
  <2>1. nextLoc + 1 # NoLoc /\ Len(<<nextUnit + 1>>) = 1
    BY BoundsNat DEF NoLoc
  <2> QED BY <1>2, <1>3, <2>1
<1>8. PutKeeps(k, files, objects)
  BY <1>5, <1>6, <1>7 DEF PutKeeps
<1> QED BY <1>2, <1>8, OtherKeeps DEF Keeps

LEMMA MoveCallKeeps ==
    ASSUME StoreInv, NEW h \in Handlers, NEW s \in Uploads, NEW d \in Blobs,
           Move(h, s, d), Sound, AckedHolds
    PROVE  Keeps(handler'[h], files, objects, segments)
<1> DEFINE k == handler'[h]
<1>1. MoveCall(h, s, d)
  BY MoveFacts
<1>2. /\ k.op = "move" /\ k.path = s /\ k.dest = d /\ k.wr.loc = NoLoc
      /\ TasksOf(k.todo) = {Task("target", d, NoLoc, NoRow),
                            Task("rename", s, NoLoc, NoRow)}
                           \cup DirTasks(Parent[d]) \cup {Return}
  BY <1>1 DEF MoveCall, CallRec, MayCall, HasWriter
<1>3. k.val = acked[s]
  BY EnterVal DEF Move
<1>4. Task("rename", s, NoLoc, NoRow) \in TasksOf(k.todo)
      /\ Task("rename", s, NoLoc, NoRow).do = "rename"
  BY <1>2 DEF Task
<1>5. \A t \in TasksOf(k.todo) : t.do \in {"target", "rename", "mkdir", "return"}
  BY <1>2 DEF DirTasks, Task, Return
<1>6. ~NoTask(k, {"rename"})
  BY <1>4 DEF NoTask
<1>7. k.val # Unknown => Holds(s, k.val, files, objects)
  BY <1>3, SwiftPlusAssumption DEF AckedHolds, Files, Safe, Sound, Shallow
<1>8. MoveKeeps(k, files, objects)
  BY <1>2, <1>5, <1>6, <1>7 DEF MoveKeeps
<1> QED BY <1>2, <1>8, OtherKeeps DEF Keeps

LEMMA DownHas ==
    ASSUME NEW p, NEW fi
    PROVE  /\ Task("unlink", p, NoLoc, NoRow) \in DownTasks(p, fi)
           /\ Task("unlink", p, NoLoc, NoRow).do = "unlink"
           /\ Task("unlink", p, NoLoc, NoRow).path = p
  BY DEF DownTasks, Task

LEMMA DeleteCallKeeps ==
    ASSUME StoreInv, NEW h \in Handlers, NEW p \in Files \cup UploadDirs, Delete(h, p)
    PROVE  Keeps(handler'[h], files, objects, segments)
<1> DEFINE k == handler'[h]
<1>1. DeleteCall(h, p)
  BY DeleteFacts
<1>2. /\ k.op = "delete" /\ k.path = p /\ k.wr.loc = NoLoc
      /\ TasksOf(k.todo) = DownTasks(p, files[p]) \cup {Return}
  BY <1>1 DEF DeleteCall, CallRec, MayCall, HasWriter
<1>3. HasTask(k, "unlink", p)
  BY <1>2, DownHas DEF HasTask
<1>4. DeleteKeeps(k, files)
  BY <1>2, <1>3 DEF DeleteKeeps
<1> QED BY <1>2, <1>4, OtherKeeps DEF Keeps

LEMMA FileAlone ==
    ASSUME NEW p \in Files, NEW x \in Paths
    PROVE  Parent[x] # p
  BY SwiftPlusAssumption DEF Dirs

LEMMA WriterBase ==
    ASSUME StoreInv, NEW h \in Handlers, NEW p \in Uploads,
           NEW append \in BOOLEAN, Writer(h, p, append)
    PROVE  handler'[h].wr.base = IF append THEN acked[p] ELSE Absent
<1> DEFINE fi == files[p]
           exists == append /\ fi # NoRow
           fresh == ~exists \/ fi.loc = NoLoc
           location == IF fresh THEN nextLoc + 1 ELSE fi.loc
           del == IF ~append /\ fi # NoRow THEN deleteDownwards(p, fi) ELSE <<>>
           rt == Task("readsegments", Root, location, NoRow)
           rd == IF exists THEN <<rt>> ELSE <<>>
           w == [path |-> p, loc |-> location, segs |-> <<>>, buf |-> NoUnit,
                 err |-> FALSE, committed |-> FALSE, lost |-> FALSE,
                 base |-> IF append THEN acked[p] ELSE Absent]
           o == IF append THEN "append" ELSE "create"
           q == del \o rd
           e == Enter(h, o, p, Root, Absent, q)
           r == q \o <<Return>>
<1>1. handler' = [handler EXCEPT ![h] = [e EXCEPT !.wr = w]]
  BY DEF Writer
<1>2. w.base = IF append THEN acked[p] ELSE Absent
  OBVIOUS
<1> HIDE DEF w, o, q
<1>3. handler[h] \in HandlerRec /\ handler \in [Handlers -> HandlerRec]
  BY HandlerTypes
<1>4. Enter(h, o, p, Root, Absent, q) =
        [handler[h] EXCEPT !.op = o, !.path = p, !.dest = Root, !.val = Absent, !.todo = r]
  BY DEF Enter
<1> HIDE DEF r, e
<1>5. [e EXCEPT !.wr = w].wr = w
  BY <1>3, <1>4 DEF HandlerRec, e
<1>6. handler'[h].wr = w
  BY <1>1, <1>3, <1>5
<1> QED BY <1>2, <1>6

LEMMA WriterCallKeeps ==
    ASSUME StoreInv, NEW h \in Handlers, NEW p \in Uploads,
           NEW append \in BOOLEAN, Writer(h, p, append), Sound, AckedHolds,
           ManifestInv
    PROVE  Keeps(handler'[h], files, objects, segments)
<1> DEFINE k == handler'[h]
           fi == files[p]
<1>1. WriterCall(h, p, append)
  BY WriterCallFacts
<1>2. p \in Files /\ p \in Paths
  BY SwiftPlusAssumption DEF Files
<1>3. k.wr.base = (IF append THEN acked[p] ELSE Absent) /\ ~k.wr.lost
  BY <1>1, WriterBase DEF WriterCall
<1>4. CASE ~append
  <2>1. /\ k.op = "create" /\ k.path = p
        /\ fi # NoRow => DownTasks(p, fi) \subseteq TasksOf(k.todo)
    BY <1>1, <1>4 DEF WriterCall, CallRec
  <2>2. fi # NoRow => HasTask(k, "unlink", p)
    BY <2>1, DownHas DEF HasTask
  <2>3. fi = NoRow => Gone(p, files)
    BY <1>2, FileAlone DEF Gone
  <2>4. DeleteKeeps(k, files)
    BY <2>1, <2>2, <2>3 DEF DeleteKeeps
  <2> QED BY <1>3, <1>4, <2>1, <2>4, OtherKeeps DEF Keeps
<1>5. CASE append
  <2>1. k.op = "append" /\ k.path = p
    BY <1>1, <1>5 DEF WriterCall, CallRec
  <2>2. ASSUME acked[p] \notin {Absent, Unknown}
        PROVE  AppendKeeps(k, segments)
    <3>1. fi # NoRow /\ RowHolds(p, acked[p], fi, objects)
      BY <1>2, <2>2 DEF AckedHolds, Holds, Safe, Sound, Shallow
    <3>2. fi.loc # NoLoc
      BY <3>1 DEF RowHolds
    <3>3. PICK o \in objects : /\ o.loc = fi.loc /\ o.slo
                               /\ Units(o.parts) = acked[p]
      BY <3>1, <3>2 DEF RowHolds, Delivers
    <3>4. /\ k.wr.loc = fi.loc
          /\ Task("readsegments", Root, k.wr.loc, NoRow) \in TasksOf(k.todo)
      BY <1>1, <1>5, <3>1, <3>2 DEF WriterCall
    <3>5. ~NoTask(k, {"readsegments"})
      BY <3>4 DEF NoTask, Task
    <3>6. o.parts \in Seq(Part)
      BY <3>3 DEF StoreInv, ObjectsOK, ObjectRec
    <3>7. /\ Len(acked[p]) = Len(o.parts)
          /\ \A i \in 1..Len(o.parts) : acked[p][i] = o.parts[i].unit
      BY <3>3, <3>6 DEF Units
    <3>8. \A i \in 1..Len(o.parts) : SegmentRow(fi.loc, i, o.parts[i].unit) \in segments
      BY <3>3 DEF ManifestInv, Recorded
    <3>9. \A i \in 1..Len(acked[p]) : SegmentRow(k.wr.loc, i, acked[p][i]) \in segments
      BY <3>4, <3>7, <3>8
    <3> QED BY <1>3, <1>5, <3>5, <3>9 DEF AppendKeeps, Misled
  <2> QED BY <1>3, <1>5, <2>1, <2>2, OtherKeeps DEF Keeps
<1> QED BY <1>4, <1>5

LEMMA UseCallKeeps ==
    ASSUME StoreInv, NEW h \in Handlers, NEW op \in {"write", "commit", "close", "cancel"},
           NEW extra, UseCall(h, op, extra),
           \A t \in extra : t.do \in {"manifest", "delete"},
           op \in {"commit", "close"} => \E t \in extra : t.do = "manifest",
           op = "cancel" =>
             \E t \in extra : t.do = "delete" /\ t.path = handler[h].wr.path,
           AppendKeeps(handler[h], segments)
    PROVE  Keeps(handler'[h], files, objects, segments)
<1> DEFINE m == handler[h]
           k == handler'[h]
<1>1. /\ m.op = "idle" /\ k.op = op /\ k.wr = m.wr
      /\ TasksOf(k.todo) = FlushSet(m.wr) \cup extra \cup {Return}
  BY DEF UseCall, CallRec, MayUse
<1>0. PutTask(m.wr.loc).do = "putsegment" /\ RecordTask(m.wr.loc).do = "recordsegment"
  BY DEF PutTask, RecordTask, Task
<1>2. /\ \A t \in FlushSet(m.wr) : t.do \in FlushTasks
      /\ m.wr.buf # NoUnit => FlushSet(m.wr) # {}
  BY <1>0 DEF FlushSet, FlushTasks
<1>3. /\ \A t \in TasksOf(k.todo) : t.do \in FlushTasks \cup {"manifest", "delete", "return"}
      /\ NoTask(k, FlushTasks) => m.wr.buf = NoUnit
  BY <1>1, <1>2, ReturnTask DEF NoTask
<1>4. op \in {"commit", "close"} => ~NoTask(k, {"manifest"}) /\ ~NoTask(k, {"manifest", "upsert"})
  BY <1>1 DEF NoTask
<1>5. op = "cancel" => HasTask(k, "delete", m.wr.path)
  BY <1>1 DEF HasTask
<1>6. NoTask(k, {"readsegments"}) /\ \A t \in TasksOf(k.todo) : t.do # "upsert"
  BY <1>3 DEF NoTask, FlushTasks
<1>7. m.todo = <<>>
  BY <1>1 DEF StoreInv, HandlerOK
<1>8. NoTask(m, {"readsegments"})
  BY <1>7, TasksOne DEF NoTask
<1>9. AppendKeeps(k, segments)
  BY <1>1, <1>6, <1>8 DEF AppendKeeps, Misled
<1>10. CommitKeeps(k, files, objects)
  BY <1>1, <1>3, <1>4, <1>6 DEF CommitKeeps
<1>11. DeleteKeeps(k, files)
  BY <1>1, <1>5 DEF DeleteKeeps
<1> QED BY <1>1, <1>9, <1>10, <1>11, OtherKeeps DEF Keeps

LEMMA CallsKeep ==
    ASSUME StoreInv, NEW h \in Handlers, Call(h), Sound, AckedHolds, ManifestInv,
           AppendKeeps(handler[h], segments)
    PROVE  Keeps(handler'[h], files, objects, segments)
<1> DEFINE w == handler[h].wr
           mt == Task("manifest", w.path, w.loc, NoRow)
           dt == Task("delete", w.path, NoLoc, NoRow)
<1>0. mt.do = "manifest" /\ dt.do = "delete" /\ dt.path = w.path
  BY DEF Task
<1> HIDE DEF mt, dt
<1>1. CASE Write(h)
  BY <1>1, WriteFacts, UseCallKeeps
<1>2. ASSUME NEW op \in {"commit", "close"}, Commit(h, op)
      PROVE  Keeps(handler'[h], files, objects, segments)
  <2>1. UseCall(h, op, {mt})
    BY <1>2, CommitFacts DEF mt
  <2> QED BY <1>0, <2>1, UseCallKeeps
<1>3. CASE Cancel(h)
  <2>1. UseCall(h, "cancel", {dt})
    BY <1>3, CancelFacts DEF dt
  <2> QED BY <1>0, <2>1, UseCallKeeps
<1>4. CASE Close(h) \/ GiveUp(h)
  <2>1. handler'[h].op = "idle" /\ handler'[h].wr.loc = NoLoc
    BY <1>4, LeaveFacts, IdleWith DEF IdleRec, NoWriter
  <2> QED BY <2>1, OtherKeeps DEF Keeps
<1> QED BY <1>1, <1>2, <1>3, <1>4, PutCallKeeps, MoveCallKeeps, DeleteCallKeeps,
           WriterCallKeeps DEF Call

-----------------------------------------------------------------------------
(* Contents. *)

LEMMA ContentsSeq ==
    ASSUME NEW v \in Contentses
    PROVE  /\ v \in Seq(Nat) /\ Len(v) \in 0..MaxUnits
           /\ v \notin {Absent, Unknown, Unreadable}
<1>1. PICK n \in 0..MaxUnits : v \in [1..n -> Unit]
  BY DEF Contentses
<1>2. n \in Nat /\ Unit \subseteq Nat
  BY <1>1, SwiftPlusAssumption DEF Unit
<1>3. v \in [1..n -> Nat]
  BY <1>1, <1>2
<1>4. v \in Seq(Nat) /\ Len(v) = n
  BY <1>2, <1>3
<1> QED BY <1>4, SwiftPlusAssumption

LEMMA UnitsIs ==
    ASSUME NEW parts \in Seq(Part)
    PROVE  /\ Units(parts) \in Seq(Nat) /\ Len(Units(parts)) = Len(parts)
           /\ \A i \in 1..Len(parts) : Units(parts)[i] = parts[i].unit
<1> DEFINE n == Len(parts)
           u == Units(parts)
<1>1. n \in Nat /\ DOMAIN parts = 1..n
  OBVIOUS
<1>2. \A i \in 1..n : parts[i].unit \in Nat
  <2> TAKE i \in 1..n
  <2>1. parts[i] \in Part
    OBVIOUS
  <2> QED BY <2>1 DEF Part
<1> HIDE DEF n
<1>3. u = [i \in 1..n |-> parts[i].unit]
  BY DEF Units, n
<1>4. u \in [1..n -> Nat]
  BY <1>2, <1>3
<1>5. u \in Seq(Nat) /\ Len(u) = n
  BY <1>1, <1>4
<1> QED BY <1>3, <1>5 DEF n

-----------------------------------------------------------------------------
(* What calls have done when they return. *)

LEMMA FinishReturn ==
    ASSUME StoreInv, NEW h \in Handlers, Shape(handler[h]), Finish(h)
    PROVE  /\ \A t \in TasksOf(handler[h].todo) : t.do = "return"
           /\ \A K : "return" \notin K => NoTask(handler[h], K)
           /\ At(h, "return")
<1>1. At(h, "return")
  BY StepKinds
<1>2. handler[h].todo \in Seq(AnyTask) /\ handler[h].todo # <<>>
      /\ Head(handler[h].todo).do = "return"
  BY <1>1, HandlerTypes DEF At
<1>3. \A t \in TasksOf(handler[h].todo) : t.do = "return"
  BY <1>2, OrderedTail, TasksHead, AfterTable DEF Shape
<1> QED BY <1>1, <1>3 DEF NoTask

(* A writer that outlives a call knows what it knew. *)
LEMMA ErrorBase ==
    ASSUME StoreInv, NEW h \in Handlers, ReturnError(h), handler'[h].wr.loc # NoLoc
    PROVE  handler'[h].wr.base = handler[h].wr.base
<1> DEFINE m == handler[h]
           w == [m.wr EXCEPT !.err = (Now(h).do \in {"putsegment", "recordsegment"})]
<1>1. m.wr.loc # NoLoc /\ m.op \notin {"create", "append", "cancel"}
  BY ErrorFacts DEF ErrorRec, NoWriter
<1>2. handler' = [handler EXCEPT ![h] = [IdleHandler EXCEPT !.wr = w]]
  BY <1>1 DEF ReturnError, HasWriter
<1>3. w.base = m.wr.base
  BY <1>1, WriterFacts DEF WriterRec
<1> HIDE DEF w
<1>4. handler'[h] = [IdleHandler EXCEPT !.wr = w]
  BY <1>2 DEF StoreInv
<1>5. handler'[h].wr = w
  BY <1>4, IdleWith
<1> QED BY <1>3, <1>5

LEMMA FinishBase ==
    ASSUME StoreInv, NEW h \in Handlers, Finish(h), handler'[h].wr.loc # NoLoc
    PROVE  handler'[h].wr.base = handler[h].wr.base
<1> DEFINE m == handler[h]
           w == IF m.op = "write" THEN [m.wr EXCEPT !.buf = m.val[1]]
                ELSE IF m.op = "commit" THEN [m.wr EXCEPT !.committed = TRUE]
                ELSE m.wr
           keep == m.op \in {"create", "append", "write", "commit"}
<1>1. keep /\ m.wr.loc # NoLoc
  BY FinishFacts DEF FinishRec, NoWriter
<1>2. handler' = [handler EXCEPT ![h] = [IdleHandler EXCEPT !.wr = w]]
  BY <1>1 DEF Finish
<1>3. w.base = m.wr.base
  BY <1>1, WriterFacts DEF WriterRec
<1> HIDE DEF w
<1>4. handler'[h] = [IdleHandler EXCEPT !.wr = w]
  BY <1>2 DEF StoreInv
<1>5. handler'[h].wr = w
  BY <1>4, IdleWith
<1> QED BY <1>3, <1>5

LEMMA EndKeeps ==
    ASSUME StoreInv, NEW h \in Handlers, Shape(handler[h]),
           Finish(h) \/ Conflict(h) \/ Fault(h), AppendKeeps(handler[h], segments)
    PROVE  Keeps(handler'[h], files', objects', segments')
<1> DEFINE m == handler[h]
           k == handler'[h]
<1>1. k.op = "idle" /\ TasksOf(k.todo) = {}
  BY EndIdle, TasksOne DEF IdleRec
<1>2. segments' = segments
  BY DEF Finish, Conflict, Fault
<1>3. ASSUME k.wr.loc # NoLoc
      PROVE  /\ m.wr.loc # NoLoc /\ k.wr.loc = m.wr.loc /\ k.wr.base = m.wr.base
             /\ k.wr.segs = m.wr.segs /\ NoTask(m, {"readsegments"})
  <2>1. CASE Finish(h)
    <3>1. /\ m.wr.loc # NoLoc /\ k.wr.loc = m.wr.loc /\ k.wr.segs = m.wr.segs
      BY <1>3, <2>1, FinishFacts DEF FinishRec, NoWriter
    <3> QED BY <1>3, <2>1, <3>1, FinishBase, FinishReturn
  <2>2. CASE Conflict(h) \/ Fault(h)
    <3>1. ReturnError(h)
      BY <2>2 DEF Conflict, Fault
    <3>2. /\ m.wr.loc # NoLoc /\ k.wr.loc = m.wr.loc /\ k.wr.segs = m.wr.segs
          /\ m.op \notin {"create", "append"}
      BY <1>3, <3>1, ErrorFacts DEF ErrorRec, NoWriter
    <3>3. m.op \in Ops
      BY HandlerTypes DEF HandlerRec
    <3>4. NoTask(m, {"readsegments"})
      BY <3>2, <3>3, KindsFacts DEF NoTask, Shape, TaskShape
    <3> QED BY <1>3, <3>1, <3>2, <3>4, ErrorBase
  <2> QED BY <2>1, <2>2
<1>4. AppendKeeps(k, segments')
  <2>1. Misled(k) => Misled(m)
    BY EndDoubt
  <2> QED BY <1>1, <1>2, <1>3, <2>1 DEF AppendKeeps, NoTask, Misled
<1>5. /\ k.op # "put" /\ k.op # "move" /\ k.op \notin {"delete", "create", "cancel"}
      /\ k.op \notin {"commit", "close"}
  BY <1>1
<1> QED BY <1>4, <1>5, OtherKeeps DEF Keeps

-----------------------------------------------------------------------------
(* Delete leaves nothing below a directory: right in it by what it has      *)
(* deleted, further down because directories with something in them have    *)
(* rows, or nothing has failed.                                             *)

LEMMA DeletedBelow ==
    ASSUME StoreInv, ShapeInv, LocInv, ParentInv, faults = 0, NEW h \in Handlers,
           \A t \in TasksOf(handler[h].todo) : t.do = "return",
           NEW d \in Paths, d \in ClaimsOf(handler[h]), Gone(d, files),
           NEW p \in Paths, d \in Above[p]
    PROVE  files[p] = NoRow
<1> DEFINE T == {x \in Paths : files[x] # NoRow /\ d \in Above[x]}
<1>1. ASSUME NEW x \in T PROVE Parent[x] \in T
  <2>1. x # d /\ d \in Above[Parent[x]] /\ Parent[x] # d
    BY AboveSplit DEF Gone
  <2>2. Parent[x] \in Paths \cup {Root} /\ Root \notin Paths
    BY SwiftPlusAssumption DEF Dirs
  <2>3. Parent[x] # Root
    <3>1. Closed({Root})
      BY DEF Closed
    <3> QED BY <2>1, <2>2, <3>1, AboveIs
  <2>4. Parent[x] \in Paths
    BY <2>2, <2>3
  <2>5. ~Making(Parent[x], handler)
    <3> SUFFICES ASSUME NEW g \in Handlers, HasTask(handler[g], "mkdir", Parent[x])
                 PROVE  FALSE
      BY DEF Making
    <3>1. PICK t \in TasksOf(handler[g].todo) : t.do = "mkdir" /\ t.path = Parent[x]
      BY DEF HasTask
    <3>2. g # h
      BY <3>1
    <3>3. PICK c \in ClaimsOf(handler[g]) : Parent[x] \in Above[c]
      BY <3>1 DEF ShapeInv, Shape, TaskShape
    <3>4. c \in Paths
      BY <3>3, ClaimsArePaths
    <3>5. d \in Above[c]
      BY <2>1, <3>3, <3>4, AboveTrans
    <3> QED BY <3>2, <3>3, <3>5 DEF LocInv, Apart, Related
  <2> QED BY <2>1, <2>3, <2>4, <2>5 DEF ParentInv
<1>2. Closed(T)
  BY <1>1 DEF Closed
<1>3. d \notin T
  BY DEF Gone
<1> HIDE DEF T
<1>4. p \notin T
  BY <1>2, <1>3, AboveIs
<1> QED BY <1>4 DEF T

LEMMA FinishHolds ==
    ASSUME StoreInv, ShapeInv, LocInv, ParentInv, PathInv,
           NEW h \in Handlers, Finish(h), Keeps(handler[h], files, objects, segments),
           NEW e \in Effect(h), e[1] \in Files, Safe(e[1], faults), e[2] # Unknown
    PROVE  Holds(e[1], e[2], files, objects)
<1> DEFINE m == handler[h]
<1>1. /\ Shape(m) /\ PathOK(m) /\ CallOK(m) /\ m \in HandlerRec
  BY AllCallOK, HandlerTypes DEF ShapeInv, PathInv
<1>2. /\ \A t \in TasksOf(m.todo) : t.do = "return"
      /\ NoTask(m, {"upsert"}) /\ NoTask(m, {"upsert", "upload"})
      /\ NoTask(m, {"rename"}) /\ NoTask(m, FlushTasks)
      /\ NoTask(m, {"manifest"}) /\ NoTask(m, {"manifest", "upsert"})
      /\ At(h, "return")
  BY <1>1, FinishReturn DEF FlushTasks
<1>3. \A do, p : do # "return" => ~HasTask(m, do, p)
  BY <1>2 DEF HasTask
<1>4. CASE m.op = "put" /\ e[1] = m.path /\ e[2] = m.val
  <2>1. files[m.path] # NoRow /\ RowHolds(m.path, m.val, files[m.path], objects)
    BY <1>2, <1>4 DEF Keeps, PutKeeps
  <2>2. m.val # Absent
    <3>1. m.val \in Contentses
      BY <1>4 DEF StoreInv, HandlerOK, CountersOK
    <3> QED BY <3>1, ContentsSeq
  <2> QED BY <1>4, <2>1, <2>2 DEF Holds
<1>5. CASE m.op = "move" /\ e[1] = m.path /\ e[2] = Absent
  BY <1>2, <1>5 DEF Keeps, MoveKeeps, Holds
<1>6. CASE m.op = "move" /\ e[1] = m.dest /\ e[2] = m.val
  BY <1>2, <1>6 DEF Keeps, MoveKeeps
<1>7. CASE m.op = "delete" /\ e[1] \in Below(m.path) /\ e[2] = m.val
  <2>0. e[2] = Absent /\ ~Incomplete(m)
    BY <1>1, <1>7 DEF PathOK, Incomplete
  <2>1. Gone(m.path, files)
    BY <1>3, <1>7, <2>0 DEF Keeps, DeleteKeeps
  <2>2. /\ e[1] \in Files /\ e[1] \in Paths /\ m.path \in Above[e[1]]
        /\ m.path \in Files \cup UploadDirs /\ m.path \in Paths
    BY <1>1, <1>7, SwiftPlusAssumption DEF Below, PathOK, Dirs
  <2>3. m.path \in ClaimsOf(m)
    BY <2>2, SwiftPlusAssumption DEF ClaimsOf
  <2>4. CASE m.path \in Files
    BY <2>0, <2>1, <2>2, <2>4, FileBelow DEF Gone, Holds
  <2>5. CASE m.path \in UploadDirs /\ Direct(e[1])
    BY <2>0, <2>1, <2>2, <2>5 DEF Direct, Gone, Holds
  <2>6. CASE faults = 0
    <3>1. files[e[1]] = NoRow
      BY <1>2, <2>1, <2>2, <2>3, <2>6, DeletedBelow
    <3> QED BY <2>0, <3>1 DEF Holds
  <2> QED BY <2>2, <2>4, <2>5, <2>6 DEF Safe
<1>8. CASE m.op = "create" /\ e[1] = m.path /\ e[2] = Absent
  BY <1>3, <1>8 DEF Keeps, DeleteKeeps, Gone, Holds, Incomplete
<1>9. CASE m.op \in {"commit", "close"} /\ e[1] = m.wr.path /\ e[2] = Stored(h)
  <2> DEFINE w == m.wr
  <2>1. /\ w.buf = NoUnit /\ files[w.path] = ManifestRow(w)
        /\ \E o \in objects : /\ o.loc = w.loc /\ o.slo
                              /\ Delivers(o, Units(w.segs), objects)
    BY <1>2, <1>9 DEF Keeps, CommitKeeps
  <2>2. w.loc # NoLoc /\ w \in WriterRec
    BY <1>1, <1>9, WriterFacts DEF CallOK, WriterOps
  <2>3. w.segs \in Seq(Part) /\ Len(w.segs) \in Nat
    BY <2>2 DEF WriterRec
  <2>4. /\ Units(w.segs) \in Seq(Nat) /\ Len(Units(w.segs)) = Len(w.segs)
        /\ Contents(w) = Units(w.segs)
    BY <2>2, <2>3, UnitsIs, ContentsFacts
  <2>5. Stored(h) = Units(w.segs)
    <3>1. Stored(h) = Contents(w) \o <<>>
      BY <2>1 DEF Stored
    <3> QED BY <2>4, <3>1
  <2>6. Units(w.segs) # Absent
    BY <2>4, SwiftPlusAssumption
  <2>7. /\ files[w.path] # NoRow /\ files[w.path].size = Len(w.segs)
        /\ files[w.path].data = <<>> /\ files[w.path].loc = w.loc
    <3>1. ManifestRow(w) \in [size : Int, data : Seq(Nat), loc : Nat]
      BY <2>2, <2>3 DEF ManifestRow, WriterRec, Loc
    <3>2. ManifestRow(w) # NoRow
      BY <3>1, SwiftPlusAssumption
    <3>3. /\ ManifestRow(w).size = Len(w.segs) /\ ManifestRow(w).data = <<>>
          /\ ManifestRow(w).loc = w.loc
      BY DEF ManifestRow
    <3> QED BY <2>1, <3>2, <3>3
  <2> HIDE DEF w
  <2>8. RowHolds(w.path, Units(w.segs), files[w.path], objects)
    BY <2>1, <2>2, <2>4, <2>7 DEF RowHolds
  <2> QED BY <1>9, <2>5, <2>6, <2>7, <2>8 DEF Holds, w
<1>10. CASE m.op = "cancel" /\ e[1] = m.wr.path /\ e[2] = Absent
  BY <1>3, <1>10 DEF Keeps, DeleteKeeps, Holds
<1> QED BY <1>4, <1>5, <1>6, <1>7, <1>8, <1>9, <1>10, EffectIs

-----------------------------------------------------------------------------
(* The invariant. *)

AckedInv == PathInv /\ InDoubt /\ ManifestInv /\ KeepsInv

LEMMA StepKeeps ==
    ASSUME StoreInv, StoreInv', ShapeInv, LocInv, DataInv, DataInv', TreeInv, PathInv,
           NEW h \in Handlers, Step(h), ~Finish(h),
           Keeps(handler[h], files, objects, segments)
    PROVE  Keeps(handler'[h], files', objects', segments')
<1>1. /\ Shape(handler[h]) /\ PathOK(handler[h]) /\ CallOK(handler[h])
      /\ DataOK(handler[h], files, objects, segments)
      /\ KnowsSegments(handler'[h], segments')
      /\ Incomplete(handler[h]) \/ Covered(handler[h].todo, files)
      /\ TargetFree(handler[h], files) /\ UniqueLocs(files)
  BY AllCallOK DEF ShapeInv, PathInv, DataInv, DataOK, TreeInv, TreeOK, LocInv
<1>2. PutKeeps(handler'[h], files', objects')
  BY <1>1, PutStepKeeps DEF Keeps
<1>3. MoveKeeps(handler'[h], files', objects')
  BY <1>1, MoveStepKeeps DEF Keeps
<1>4. DeleteKeeps(handler'[h], files')
  BY <1>1, DeleteStepKeeps DEF Keeps
<1>5. CommitKeeps(handler'[h], files', objects')
  BY <1>1, CommitStepKeeps DEF Keeps
<1>6. AppendKeeps(handler'[h], segments')
  BY <1>1, AppendStepKeeps DEF Keeps
<1> QED BY <1>2, <1>3, <1>4, <1>5, <1>6 DEF Keeps

LEMMA CutKeeps ==
    ASSUME StoreInv, NEW h \in Handlers, Shape(handler[h]), CutShort(h)
    PROVE  Keeps(handler'[h], files', objects', segments')
<1> DEFINE m == handler[h]
           k == handler'[h]
<1>1. CASE CutSegments(h)
  <2>1. /\ StepBy(h, "readsegments", <<>>) /\ k.wr.lost /\ k.wr.base = Unknown
    BY <1>1, CutSegmentsFacts
  <2>2. At(h, "readsegments") /\ SameCall(m, k)
    BY <2>1 DEF StepBy
  <2>3. m.op \in Ops /\ "readsegments" \in KindsOf(m.op)
    BY <2>2, KindNow, HandlerTypes DEF HandlerRec
  <2>4. k.op = "append"
    BY <2>2, <2>3, KindsFacts DEF SameCall
  <2>5. AppendKeeps(k, segments')
    BY <2>1 DEF AppendKeeps
  <2> QED BY <2>4, <2>5, OtherKeeps DEF Keeps
<1>2. CASE CutChildren(h)
  <2>1. SameCall(m, k) /\ m.op = "delete" /\ k.val = Unknown
    BY <1>2, CutSame, CutChildrenFacts
  <2>2. k.op = "delete" /\ k.wr.loc = NoLoc
    BY <2>1 DEF SameCall, Shape
  <2>3. DeleteKeeps(k, files')
    BY <2>1, <2>2 DEF DeleteKeeps, Incomplete
  <2> QED BY <2>2, <2>3, OtherKeeps DEF Keeps
<1> QED BY <1>1, <1>2 DEF CutShort

(* What was acknowledged before a step and is not in doubt is there after   *)
(* it.                                                                      *)
LEMMA StillHolds ==
    ASSUME StoreInv, ShapeInv, LocInv, DataInv, PathInv, InDoubt, ManifestInv,
           NEW h \in Handlers, Step(h) \/ Conflict(h) \/ Fault(h) \/ CutShort(h),
           NEW p \in Files, acked[p] # Unknown, Holds(p, acked[p], files, objects)
    PROVE  Holds(p, acked[p], files', objects')
<1>1. /\ Shape(handler[h]) /\ PathOK(handler[h]) /\ CallOK(handler[h])
      /\ DataOK(handler[h], files, objects, segments)
      /\ OwnLocs(handler[h], files)
  BY AllCallOK DEF ShapeInv, PathInv, DataInv, LocInv, LocsOK
<1>2. CASE p \in RegionOf(handler[h])
  <2>1. p \notin Doubtful(handler[h])
    BY DEF InDoubt
  <2> QED BY <1>1, <1>2, <2>1, FileWritten
<1>3. CASE p \notin RegionOf(handler[h])
  <2>1. Confined(h)
    BY <1>1, StepsConfined
  <2> QED BY <1>1, <1>3, <2>1, FileElsewhere
<1> QED BY <1>2, <1>3

LEMMA ActKeeps ==
    ASSUME StoreInv, StoreInv', ShapeInv, LocInv, DataInv, DataInv', TreeInv, ParentInv,
           PathInv, InDoubt, ManifestInv, Sound, AckedHolds,
           \A g \in Handlers : Keeps(handler[g], files, objects, segments),
           NEW h \in Handlers,
           Call(h) \/ Step(h) \/ Conflict(h) \/ Fault(h) \/ CutShort(h),
           \A p \in Files : Safe(p, faults') => Safe(p, faults)
    PROVE  /\ AckedHolds'
           /\ \A g \in Handlers : Keeps(handler'[g], files', objects', segments')
<1>1. Shape(handler[h]) /\ Keeps(handler[h], files, objects, segments)
  BY DEF ShapeInv
<1>2. AppendKeeps(handler[h], segments)
  BY <1>1 DEF Keeps
<1>3. Call(h) => Quiet
  BY DEF Call, PutContent, Move, Delete, Writer, Write, Commit, Close, Cancel, GiveUp,
         Quiet
<1>4. Keeps(handler'[h], files', objects', segments')
  <2>1. CASE Call(h)
    BY <1>2, <1>3, <2>1, CallsKeep DEF Quiet
  <2>2. CASE Step(h) /\ ~Finish(h)
    BY <1>1, <2>2, StepKeeps
  <2>3. CASE Finish(h) \/ Conflict(h) \/ Fault(h)
    BY <1>1, <1>2, <2>3, EndKeeps
  <2>4. CASE CutShort(h)
    BY <1>1, <2>4, CutKeeps
  <2> QED BY <2>1, <2>2, <2>3, <2>4
<1>5. ASSUME NEW g \in Handlers, g # h
      PROVE  Keeps(handler'[g], files', objects', segments')
  <2>1. Confined(h)
    BY <1>1, StepsConfined
  <2>2. Undisturbed(handler[g])
    BY <1>5, <2>1, ApartUndisturbed DEF LocInv, LocsOK
  <2>3. handler'[g] = handler[g]
    BY <1>5, <2>1 DEF Confined, Alone
  <2>4. Keeps(handler[g], files', objects', segments')
    BY <2>2, KeptKeeps, AllCallOK DEF ShapeInv
  <2> QED BY <2>3, <2>4
<1>6. ASSUME NEW p \in Files, Safe(p, faults'), acked'[p] # Unknown
      PROVE  Holds(p, acked'[p], files', objects')
  <2>1. CASE acked'[p] = acked[p]
    <3>1. Holds(p, acked[p], files, objects)
      BY <1>6, <2>1 DEF AckedHolds
    <3>2. CASE Call(h)
      BY <1>3, <2>1, <3>1, <3>2 DEF Quiet
    <3>3. CASE Step(h) \/ Conflict(h) \/ Fault(h) \/ CutShort(h)
      BY <1>6, <2>1, <3>1, <3>3, StillHolds
    <3> QED BY <3>2, <3>3
  <2>2. CASE acked'[p] # acked[p]
    <3>1. ~Call(h)
      BY <1>6, <2>2, CallDoubt
    <3>2. Finish(h)
      <4>1. ~(Step(h) /\ ~Finish(h))
        BY <1>1, <2>2, StepSame
      <4>2. ~(Conflict(h) \/ Fault(h))
        BY <2>2 DEF Conflict, Fault, ghosts
      <4>3. ~CutShort(h)
        BY <1>1, <1>6, <2>2, CutSame, ForgetIs
      <4> QED BY <3>1, <4>1, <4>2, <4>3
    <3>3. PICK e \in Effect(h) : e[1] = p /\ acked'[p] = e[2]
      BY <2>2, <3>2, FinishAcked
    <3>4. Holds(e[1], e[2], files, objects)
      BY <1>1, <1>6, <3>2, <3>3, FinishHolds
    <3>5. files' = files /\ objects' = objects
      BY <3>2 DEF Finish
    <3> QED BY <3>3, <3>4, <3>5
  <2> QED BY <2>1, <2>2
<1>7. AckedHolds'
  BY <1>6 DEF AckedHolds
<1> QED BY <1>4, <1>5, <1>7

LEMMA NextKeepsInv ==
    ASSUME Exclusive, TreesInv, TreesInv', AckedInv, [Next]_vars
    PROVE  KeepsInv'
<1>1. /\ StoreInv /\ StoreInv' /\ ShapeInv /\ LocInv /\ DataInv /\ DataInv'
      /\ TreeInv /\ ParentInv /\ PathInv /\ InDoubt /\ ManifestInv
  BY DEF TreesInv, ExclusiveInv, AckedInv
<1> SUFFICES ASSUME Sound'
             PROVE  /\ AckedHolds'
                    /\ \A g \in Handlers : Keeps(handler'[g], files', objects', segments')
  BY DEF KeepsInv
<1>0. \A p \in Files : Safe(p, faults') => Safe(p, faults)
  BY <1>1, FaultsGrow DEF Safe
<1>2. Sound
  <2>1. CASE Shallow
    BY <2>1 DEF Sound
  <2>2. CASE ~Shallow
    <3>1. faults' = 0
      BY <2>2 DEF Sound, Shallow
    <3> QED BY <1>1, <3>1, FaultsGrow DEF Sound
  <2> QED BY <2>1, <2>2
<1>3. AckedHolds /\ \A g \in Handlers : Keeps(handler[g], files, objects, segments)
  BY <1>2 DEF AckedInv, KeepsInv
<1>4. CASE \E h \in Handlers :
         Call(h) \/ Step(h) \/ Conflict(h) \/ Fault(h) \/ CutShort(h)
  BY <1>0, <1>1, <1>2, <1>3, <1>4, ActKeeps
<1>5. CASE Crash
  <2>1. UNCHANGED <<files, segments, objects, acked>>
    BY <1>5 DEF Crash, ghosts
  <2>2. AckedHolds'
    BY <1>0, <1>3, <2>1 DEF AckedHolds
  <2>3. ASSUME NEW g \in Handlers
        PROVE  Keeps(handler'[g], files', objects', segments')
    <3>1. handler'[g].op = "idle" /\ handler'[g].wr.loc = NoLoc
      BY <1>5, IdleHandlers DEF Crash, IdleRec
    <3> QED BY <3>1, OtherKeeps DEF Keeps
  <2> QED BY <2>2, <2>3
<1>6. CASE UNCHANGED vars
  BY <1>3, <1>6 DEF AckedHolds, vars
<1> QED BY <1>4, <1>5, <1>6 DEF Next

LEMMA InitAcked ==
    Exclusive => (Init => AckedInv)
<1> SUFFICES ASSUME Exclusive, Init PROVE AckedInv
  OBVIOUS
<1>1. ASSUME NEW h \in Handlers
      PROVE  handler[h].op = "idle" /\ handler[h].wr.loc = NoLoc
  BY IdleHandlers DEF Init, IdleRec
<1>2. PathInv /\ InDoubt
  BY <1>1, PathIdle DEF PathInv, InDoubt, Misled
<1>3. ManifestInv
  BY DEF Init, ManifestInv
<1>4. AckedHolds
  <2> SUFFICES ASSUME NEW p \in Files PROVE Holds(p, acked[p], files, objects)
    BY DEF AckedHolds
  <2>1. acked[p] = Absent /\ p \in Paths
    BY SwiftPlusAssumption DEF Init
  <2> QED BY <2>1 DEF Holds, Init
<1>5. ASSUME NEW h \in Handlers PROVE Keeps(handler[h], files, objects, segments)
  BY <1>1, OtherKeeps DEF Keeps
<1> QED BY <1>2, <1>3, <1>4, <1>5 DEF AckedInv, KeepsInv

(* When no two calls at a time work on one path: every call keeps what it   *)
(* has promised so far, and what was acknowledged is in the two stores      *)
(* (KeepsInv), as long as uploads lie directly in the directories that are  *)
(* deleted, or nothing fails (Sound).  A call whose loop over rows was cut  *)
(* short without an error promises nothing: its files are in doubt.         *)
THEOREM PromisesAreKept == Exclusive => (Spec => []AckedInv)
<1> SUFFICES ASSUME Exclusive PROVE Spec => []AckedInv
  OBVIOUS
<1>1. Init => AckedInv
  BY InitAcked
<1>2. AckedInv /\ TreesInv /\ TreesInv' /\ [Next]_vars => AckedInv'
  <2> SUFFICES ASSUME AckedInv, TreesInv, TreesInv', [Next]_vars PROVE AckedInv'
    OBVIOUS
  <2>1. StoreInv /\ ShapeInv /\ LocInv /\ PathInv /\ InDoubt /\ ManifestInv
    BY DEF AckedInv, TreesInv, ExclusiveInv
  <2>2. PathInv'
    BY <2>1, NextPathInv
  <2>3. InDoubt'
    BY <2>1, NextInDoubt
  <2>4. ManifestInv'
    BY <2>1, NextManifestInv
  <2>5. KeepsInv'
    BY NextKeepsInv
  <2> QED BY <2>2, <2>3, <2>4, <2>5 DEF AckedInv
<1>3. Spec => []TreesInv
  BY TreesStayWhole
<1> QED BY <1>1, <1>2, <1>3, PTL DEF Spec

-----------------------------------------------------------------------------
(* What the stores hold can be read. *)

LEMMA SwiftDelivers ==
    ASSUME StoreInv, ManifestInv, NEW o \in objects, NEW v, Delivers(o, v, objects)
    PROVE  SwiftReader(o.loc) = v
<1> DEFINE l == o.loc
           Object(n) == CHOOSE x \in ObjectAt(l, n) : TRUE
           parts == Object(0).parts
           found == \A i \in DOMAIN parts : PartFound(l, parts[i])
           data == [i \in DOMAIN parts |-> Object(parts[i].num).data]
<1>1. SwiftReader(l) = IF ObjectAt(l, 0) = {} THEN Unreadable
                       ELSE IF ~Object(0).slo THEN Object(0).data
                       ELSE IF found THEN FlattenSeq(data) ELSE Unreadable
  BY DEF SwiftReader
<1>2. ObjectsOK(objects, nextLoc, written)
  BY DEF StoreInv
<1>3. ASSUME NEW x \in objects, x.loc = l
      PROVE  Object(x.num) = x
  <2>1. x \in ObjectAt(l, x.num)
    BY <1>3 DEF ObjectAt
  <2>2. Object(x.num) \in ObjectAt(l, x.num)
    BY <2>1
  <2> HIDE DEF Object
  <2> QED BY <1>2, <2>1, <2>2 DEF ObjectAt, ObjectsOK
<1>4. o \in ObjectAt(l, 0) /\ Object(0) = o
  BY <1>3 DEF Delivers, ObjectAt
<1>5. CASE ~o.slo
  BY <1>1, <1>4, <1>5 DEF Delivers
<1>6. CASE o.slo
  <2> DEFINE u == Units(o.parts)
  <2>1. o.parts \in Seq(Part) /\ v = u
    BY <1>2, <1>6 DEF ObjectsOK, ObjectRec, Delivers
  <2>2. /\ u \in Seq(Nat) /\ Len(u) = Len(o.parts) /\ DOMAIN o.parts = 1..Len(u)
        /\ \A i \in 1..Len(u) : u[i] = o.parts[i].unit
    BY <2>1, UnitsIs
  <2> HIDE DEF u
  <2>3. ASSUME NEW i \in 1..Len(u)
        PROVE  /\ PartFound(l, o.parts[i])
               /\ Object(o.parts[i].num).data = <<u[i]>>
    <3>1. o.parts[i].num = i
      BY <1>6, <2>2 DEF ManifestInv, Recorded
    <3>2. PICK x \in objects : x.loc = l /\ x.num = i /\ x.data = <<o.parts[i].unit>>
      BY <1>6, <2>2 DEF Delivers
    <3>3. x \in ObjectAt(l, i)
      BY <3>2 DEF ObjectAt
    <3>4. PartFound(l, o.parts[i])
      BY <3>1, <3>2, <3>3 DEF PartFound
    <3>5. Object(i) = x
      BY <1>3, <3>2
    <3> HIDE DEF Object
    <3> QED BY <2>2, <3>1, <3>2, <3>4, <3>5
  <2> HIDE DEF Object
  <2>4. parts = o.parts
    BY <1>4
  <2>5. found
    BY <2>2, <2>3, <2>4
  <2>6. data = [i \in 1..Len(u) |-> <<u[i]>>]
    BY <2>2, <2>3, <2>4
  <2>7. FlattenSeq(data) = u
    BY <2>2, <2>6, FlattenSingletons
  <2> QED BY <1>1, <1>4, <1>6, <2>1, <2>5, <2>7
<1> QED BY <1>5, <1>6

(* A file that is there with contents v: GetContent, Reader and Stat. *)
LEMMA HoldsReads ==
    ASSUME StoreInv, ManifestInv, NEW p \in Files, NEW v \in Contentses,
           files[p] # NoRow, RowHolds(p, v, files[p], objects)
    PROVE  /\ GetContent(p) = v
           /\ Stat(p).size = Len(v)
           /\ \A i \in 0..Len(v) + 1 : Reader(p, i) = SubSeq(v, i + 1, Len(v))
<1> DEFINE fi == files[p]
<1>1. /\ v \in Seq(Nat) /\ Len(v) \in Nat
      /\ v \notin {Absent, Unknown, Unreadable}
  BY ContentsSeq, SwiftPlusAssumption
<1>2. fi.size = Len(v) /\ ~(fi.size < 0)
  BY <1>1 DEF RowHolds
<1>3. fi.loc # NoLoc => fi.data = <<>> /\ SwiftReader(fi.loc) = v
  BY SwiftDelivers DEF RowHolds
<1>4. fi.loc = NoLoc => fi.data = v
  BY DEF RowHolds
<1>5. fi.size = 0 => v = <<>>
  <2>1. v \in Seq(Nat) /\ Len(v) = 0 => v = <<>>
    BY EmptySeq
  <2> QED BY <1>1, <1>2, <2>1
<1>6. GetContent(p) = v
  <2>1. GetContent(p) = IF fi.size = 0 THEN <<>>
                        ELSE IF fi.data # <<>> THEN fi.data ELSE SwiftReader(fi.loc)
    BY <1>2 DEF GetContent
  <2>2. fi.loc = NoLoc /\ fi.data = <<>> => fi.size = 0
    BY <1>2, <1>4
  <2> QED BY <1>3, <1>4, <1>5, <2>1, <2>2
<1>7. p # Root
  BY SwiftPlusAssumption
<1>8. ASSUME NEW i \in 0..Len(v) + 1
      PROVE  Reader(p, i) = SubSeq(v, i + 1, Len(v))
  <2>1. Reader(p, i) = IF i > fi.size THEN <<>>
                       ELSE IF fi.loc = NoLoc
                            THEN SubSeq(fi.data, i + 1, Len(fi.data))
                       ELSE IF SwiftReader(fi.loc) = Unreadable THEN Unreadable
                       ELSE SubSeq(SwiftReader(fi.loc), i + 1, Len(SwiftReader(fi.loc)))
    BY <1>2 DEF Reader
  <2>2. CASE i > fi.size
    <3>1. i + 1 > Len(v)
      BY <1>1, <1>2, <2>2
    <3>2. SubSeq(v, i + 1, Len(v)) = <<>>
      BY <1>1, <3>1
    <3> QED BY <2>1, <2>2, <3>2
  <2>3. CASE ~(i > fi.size)
    BY <1>1, <1>3, <1>4, <2>1, <2>3
  <2> QED BY <2>2, <2>3
<1> QED BY <1>2, <1>6, <1>7, <1>8 DEF Stat

LEMMA AckedReadable ==
    ASSUME StoreInv, ManifestInv, AckedHolds, NEW p \in Files, Safe(p, faults)
    PROVE  ReadsAsAcked(p)
<1>1. acked[p] \in Contentses \cup {Absent, Unknown}
  BY DEF StoreInv, CountersOK, Value
<1>2. CASE acked[p] = Unknown
  BY <1>2, SwiftPlusAssumption DEF ReadsAsAcked
<1>3. CASE acked[p] = Absent
  <2>1. files[p] = NoRow
    BY <1>3, SwiftPlusAssumption DEF AckedHolds, Holds
  <2>2. p # Root
    BY SwiftPlusAssumption
  <2> QED BY <1>3, <2>1, <2>2 DEF GetContent, Stat, Reader, ReadsAsAcked
<1>4. CASE acked[p] \notin {Absent, Unknown}
  <2>1. files[p] # NoRow /\ RowHolds(p, acked[p], files[p], objects)
    BY <1>4 DEF AckedHolds, Holds
  <2> QED BY <1>1, <1>4, <2>1, HoldsReads DEF ReadsAsAcked
<1> QED BY <1>2, <1>3, <1>4

(* When no two calls at a time work on one path, what PutContent, Commit,   *)
(* Move, Delete or Cancel has acknowledged for a file is what GetContent,   *)
(* Reader and Stat say until the next call on that file: as long as nothing *)
(* fails, for every file; and whatever fails, errors that the driver misses *)
(* included, for the files that lie directly in the directories that are    *)
(* deleted, if all uploads do.                                              *)
THEOREM AcknowledgedStaysReadable ==
    Exclusive => (Spec => []AcknowledgedIsReadable)
<1> SUFFICES ASSUME Exclusive PROVE Spec => []AcknowledgedIsReadable
  OBVIOUS
<1>1. TreesInv /\ AckedInv => AcknowledgedIsReadable
  <2> SUFFICES ASSUME TreesInv, AckedInv, NEW p \in Files,
                      faults = 0 \/ (Direct(p) /\ \A q \in Uploads : Direct(q))
               PROVE  ReadsAsAcked(p)
    BY DEF AcknowledgedIsReadable
  <2>1. Sound /\ Safe(p, faults)
    BY DEF Sound, Shallow, Safe
  <2>2. StoreInv /\ ManifestInv /\ AckedHolds
    BY <2>1 DEF TreesInv, ExclusiveInv, AckedInv, KeepsInv
  <2> QED BY <2>1, <2>2, AckedReadable
<1>2. Spec => []TreesInv
  BY TreesStayWhole
<1>3. Spec => []AckedInv
  BY PromisesAreKept
<1> QED BY <1>1, <1>2, <1>3, PTL

-----------------------------------------------------------------------------
(* Appending. *)

LEMMA PrefixIs ==
    ASSUME NEW s \in Seq(Nat), NEW t \in Seq(Nat), Len(s) <= Len(t),
           \A i \in 1..Len(s) : t[i] = s[i]
    PROVE  IsPrefix(s, t)
<1> DEFINE n == Len(s)
           a == SubSeq(s, 1, n)
           b == SubSeq(t, 1, n)
<1>1. n \in Nat /\ Len(t) \in Nat /\ n <= Len(t)
  OBVIOUS
<1>2. /\ a \in Seq(Nat) /\ Len(a) = n
      /\ b \in Seq(Nat) /\ Len(b) = n
      /\ \A i \in 1..n : a[i] = s[i] /\ b[i] = t[i]
  BY <1>1
<1>3. a = b
  <2> HIDE DEF a, b, n
  <2>1. \A i \in 1..n : a[i] = b[i]
    BY <1>2 DEF n
  <2> QED BY <1>1, <1>2, <2>1
<1> QED BY <1>3 DEF IsPrefix

LEMMA AppendKept ==
    ASSUME StoreInv, ShapeInv, NEW h \in Handlers, AppendKeeps(handler[h], segments),
           HasWriter(h), handler[h].op # "append",
           handler[h].wr.base \notin {Absent, Unknown}
    PROVE  IsPrefix(handler[h].wr.base, Contents(handler[h].wr))
<1> DEFINE w == handler[h].wr
           v == w.base
           u == Units(w.segs)
<1>1. w.loc # NoLoc /\ w \in WriterRec /\ handler[h].op \in Ops
  BY WriterFacts, HandlerTypes DEF HasWriter, HandlerRec
<1>2. w.segs \in Seq(Part) /\ v \in Contentses
  BY <1>1 DEF WriterRec, Value
<1>3. /\ u \in Seq(Nat) /\ Len(u) = Len(w.segs) /\ Contents(w) = u
      /\ \A i \in 1..Len(w.segs) : u[i] = w.segs[i].unit
  BY <1>1, <1>2, UnitsIs, ContentsFacts
<1>4. NoTask(handler[h], {"readsegments"})
  BY <1>1, KindsFacts DEF NoTask, ShapeInv, Shape, TaskShape
<1>5. \A i \in 1..Len(v) : i <= Len(w.segs) /\ w.segs[i].unit = v[i]
  BY <1>1, <1>4 DEF AppendKeeps
<1> HIDE DEF u, v
<1>6. v \in Seq(Nat) /\ Len(v) \in Nat
  BY <1>2, ContentsSeq
<1>7. Len(v) <= Len(u)
  <2>1. CASE Len(v) = 0
    BY <1>2, <1>3, <2>1
  <2>2. CASE Len(v) # 0
    <3>1. Len(v) \in 1..Len(v)
      BY <1>6, <2>2
    <3> QED BY <1>3, <1>5, <3>1
  <2> QED BY <2>1, <2>2
<1>8. \A i \in 1..Len(v) : u[i] = v[i]
  BY <1>2, <1>3, <1>5, <1>6
<1>9. IsPrefix(v, u)
  BY <1>3, <1>6, <1>7, <1>8, PrefixIs
<1> QED BY <1>3, <1>9 DEF v

(* When uploads lie directly in the directories that are deleted, a writer  *)
(* that was opened for appending has found all that was acknowledged, in    *)
(* the order in which it was written, whatever fails and whatever an        *)
(* earlier writer that failed or crashed has left in the table, unless the  *)
(* loop over the segments was cut short and nobody has noticed.             *)
THEOREM AppendsExtend == Exclusive /\ Shallow => (Spec => []AppendExtends)
<1> SUFFICES ASSUME Exclusive, Shallow PROVE Spec => []AppendExtends
  OBVIOUS
<1>1. TreesInv /\ AckedInv => AppendExtends
  BY AppendKept DEF TreesInv, ExclusiveInv, AckedInv, KeepsInv, Sound, Keeps, AppendExtends
<1>2. Spec => []TreesInv
  BY TreesStayWhole
<1>3. Spec => []AckedInv
  BY PromisesAreKept
<1> QED BY <1>1, <1>2, <1>3, PTL

-----------------------------------------------------------------------------
(* The refinement. *)

LEMMA IdleEffect ==
    ASSUME NEW h
    PROVE  /\ handler[h].op \in {"idle", "append", "write"} /\ ~Misled(handler[h])
                => Effect(h) = {}
           /\ handler'[h].op \in {"idle", "append", "write"} /\ ~Misled(handler'[h])
                => Effect(h)' = {}
           /\ Misled(handler[h]) => Effect(h) = {<<handler[h].wr.path, Unknown>>}
           /\ Misled(handler'[h]) => Effect(h)' = {<<handler'[h].wr.path, Unknown>>}
<1>1. (Lost(h) <=> Misled(handler[h])) /\ (Lost(h)' <=> Misled(handler'[h]))
  BY DEF Lost, Misled, HasWriter
<1>2. ASSUME handler[h].op \in {"idle", "append", "write"}, ~Misled(handler[h])
      PROVE  Effect(h) = {}
  BY <1>1, <1>2 DEF Effect
<1>3. ASSUME handler'[h].op \in {"idle", "append", "write"}, ~Misled(handler'[h])
      PROVE  Effect(h)' = {}
  BY <1>1, <1>3 DEF Effect
<1>4. Misled(handler[h]) => Effect(h) = {<<handler[h].wr.path, Unknown>>}
  BY <1>1 DEF Effect
<1>5. Misled(handler'[h]) => Effect(h)' = {<<handler'[h].wr.path, Unknown>>}
  BY <1>1 DEF Effect
<1> QED BY <1>2, <1>3, <1>4, <1>5

(* No call and no writer. *)
LEMMA GoneEffect ==
    ASSUME NEW h, IdleRec(handler'[h]), ~Misled(handler'[h])
    PROVE  Effect(h)' = {}
  BY IdleEffect DEF IdleRec

LEMMA InitRegister ==
    Exclusive => (Init => Register!AbsInit)
<1> SUFFICES ASSUME Exclusive, Init PROVE Register!AbsInit
  OBVIOUS
<1>1. [p \in Files |-> GetContent(p)] = [p \in Files |-> Absent]
  <2>1. ASSUME NEW p \in Files PROVE GetContent(p) = Absent
    BY SwiftPlusAssumption DEF Init, GetContent
  <2> QED BY <2>1
<1>2. acked = [p \in Files |-> Absent] /\ written = {}
  BY DEF Init
<1>3. [h \in Handlers |-> Effect(h)] = [h \in Handlers |-> {}]
  <2>1. ASSUME NEW h \in Handlers PROVE Effect(h) = {}
    BY IdleEffect, IdleHandlers DEF Init, IdleRec, Misled, NoWriter
  <2> QED BY <2>1
<1> QED BY <1>1, <1>2, <1>3 DEF Register!AbsInit

LEMMA CalmRegister ==
    ASSUME UNCHANGED vars
    PROVE  UNCHANGED Register!absVars
<1>1. \A p : GetContent(p)' = GetContent(p)
  BY DEF vars, GetContent, SwiftReader, ObjectAt, PartFound
<1>2. \A h : Effect(h)' = Effect(h)
  BY DEF vars, Effect, Stored, At, Lost, HasWriter
<1> QED BY <1>1, <1>2 DEF Register!absVars, vars

LEMMA WorkIs ==
    ASSUME \A f \in Files : GetContent(f)' # GetContent(f) =>
             /\ \E c \in Handlers : \E e \in Effect(c) : e[1] = f
             /\ GetContent(f)' \in written' \cup {Absent, Unreadable},
           written \subseteq written', acked' = acked,
           \A c \in Handlers :
             Effect(c)' \in {Effect(c), {e[1] : e \in Effect(c)} \X {Unknown}, {}}
    PROVE  Register!Work
<1> DEFINE C == [p \in Files |-> GetContent(p)]
           E == [h \in Handlers |-> Effect(h)]
<1>1. \A f \in Files : C[f] = GetContent(f) /\ C'[f] = GetContent(f)'
  OBVIOUS
<1>2. \A c \in Handlers : E[c] = Effect(c) /\ E'[c] = Effect(c)'
  OBVIOUS
<1>3. \A f \in Files : C'[f] # C[f] =>
             /\ \E c \in Handlers : f \in Register!Touched(E[c])
             /\ C'[f] \in written' \cup {Absent, Unreadable}
  BY <1>1, <1>2 DEF Register!Touched
<1>4. ASSUME NEW c \in Handlers
      PROVE  E'[c] \in {E[c], Register!InDoubt(E[c]), {}}
  <2>1. Register!InDoubt(E[c]) = {e[1] : e \in Effect(c)} \X {Unknown}
    BY <1>2 DEF Register!InDoubt, Register!Touched
  <2> HIDE DEF E
  <2> QED BY <1>2, <2>1
<1> QED BY <1>3, <1>4 DEF Register!Work

(* What a reader finds depends only on the content object of the location   *)
(* and on the segments that it names.                                       *)
LEMMA ReaderKept ==
    ASSUME NEW l, ObjectAt(l, 0)' = ObjectAt(l, 0),
           \A o \in ObjectAt(l, 0) : \A i \in DOMAIN o.parts :
             ObjectAt(l, o.parts[i].num)' = ObjectAt(l, o.parts[i].num)
    PROVE  SwiftReader(l)' = SwiftReader(l)
<1> DEFINE at(n) == ObjectAt(l, n)
           now(n) == CHOOSE o \in ObjectAt(l, n) : TRUE
           ps == now(0).parts
           found == \A i \in DOMAIN ps : PartFound(l, ps[i])
           data == [i \in DOMAIN ps |-> now(ps[i].num).data]
<1>1. SwiftReader(l) = IF ObjectAt(l, 0) = {} THEN Unreadable
                       ELSE IF ~now(0).slo THEN now(0).data
                       ELSE IF found THEN FlattenSeq(data) ELSE Unreadable
  BY DEF SwiftReader
<1>2. SwiftReader(l)' = IF ObjectAt(l, 0)' = {} THEN Unreadable
                        ELSE IF ~now(0)'.slo THEN now(0)'.data
                        ELSE IF found' THEN FlattenSeq(data') ELSE Unreadable
  BY DEF SwiftReader
<1>3. CASE ObjectAt(l, 0) = {}
  BY <1>1, <1>2, <1>3
<1>4. CASE ObjectAt(l, 0) # {}
  <2>1. now(0)' = now(0) /\ now(0) \in ObjectAt(l, 0)
    BY <1>4
  <2>2. ps' = ps
    BY <2>1
  <2>3. ASSUME NEW i \in DOMAIN ps
        PROVE  /\ ObjectAt(l, ps[i].num)' = ObjectAt(l, ps[i].num)
               /\ PartFound(l, ps[i])' <=> PartFound(l, ps[i])
               /\ now(ps[i].num)' = now(ps[i].num)
    <3>1. ObjectAt(l, ps[i].num)' = ObjectAt(l, ps[i].num)
      BY <2>1
    <3>2. now(ps[i].num)' = now(ps[i].num)
      BY <2>2, <3>1
    <3>3. PartFound(l, ps[i])' <=> PartFound(l, ps[i])
      BY <2>2, <3>1 DEF PartFound
    <3> QED BY <3>1, <3>2, <3>3
  <2>4. found' <=> found
    BY <2>2, <2>3
  <2>5. data' = data
    <3> DEFINE d == data
               e == data'
               S == DOMAIN ps
    <3>1. d = [i \in S |-> now(ps[i].num).data]
      OBVIOUS
    <3>2. e = [i \in DOMAIN ps' |-> now(ps[i].num)'.data]
      OBVIOUS
    <3>3. DOMAIN ps' = S
      BY <2>2
    <3>4. \A i \in S : now(ps[i].num)'.data = now(ps[i].num).data
      BY <2>3
    <3>5. e = [i \in S |-> now(ps[i].num)'.data]
      BY <3>2, <3>3
    <3>6. /\ d = [i \in S |-> d[i]] /\ e = [i \in S |-> e[i]]
          /\ \A i \in S : d[i] = e[i]
      BY <3>1, <3>4, <3>5
    <3> HIDE DEF d, e, S
    <3>7. d = e
      BY <3>6
    <3> QED BY <3>7 DEF d, e
  <2> DEFINE a == now(0)
             f == found
             d == data
  <2>6. /\ now(0)' = a /\ (found' <=> f) /\ data' = d
    BY <2>1, <2>4, <2>5
  <2>7. SwiftReader(l) = IF ~a.slo THEN a.data
                         ELSE IF f THEN FlattenSeq(d) ELSE Unreadable
    BY <1>1, <1>4
  <2>8. SwiftReader(l)' = IF ~a.slo THEN a.data
                          ELSE IF f THEN FlattenSeq(d) ELSE Unreadable
    BY <1>2, <1>4, <2>6
  <2> QED BY <2>7, <2>8
<1> QED BY <1>3, <1>4

LEMMA ContentKept ==
    ASSUME NEW p, files'[p] = files[p],
           files[p] # NoRow => SwiftReader(files[p].loc)' = SwiftReader(files[p].loc)
    PROVE  GetContent(p)' = GetContent(p)
<1> DEFINE row == files[p]
           c == SwiftReader(row.loc)
<1>1. GetContent(p) = IF row = NoRow \/ row.size < 0 THEN Absent
                      ELSE IF row.size = 0 THEN <<>>
                      ELSE IF row.data # <<>> THEN row.data ELSE c
  BY DEF GetContent
<1>2. GetContent(p)' = IF row = NoRow \/ row.size < 0 THEN Absent
                       ELSE IF row.size = 0 THEN <<>>
                       ELSE IF row.data # <<>> THEN row.data ELSE c'
  BY DEF GetContent
<1>3. row # NoRow => c' = c
  OBVIOUS
<1> HIDE DEF row, c
<1> QED BY <1>1, <1>2, <1>3

LEMMA ContentElsewhere ==
    ASSUME StoreInv, NEW h \in Handlers, Confined(h), OwnLocs(handler[h], files),
           NEW p \in Files, p \notin RegionOf(handler[h])
    PROVE  GetContent(p)' = GetContent(p)
<1> DEFINE m == handler[h]
<1>1. p \in Paths /\ ClaimsOf(m) \subseteq Paths /\ ClaimsOf(m) \subseteq RegionOf(m)
  BY SwiftPlusAssumption, ClaimsArePaths
<1>2. \A c \in ClaimsOf(m) : p \notin Above[c]
  BY <1>1, FileBelow
<1>3. files'[p] = files[p]
  BY <1>1, <1>2 DEF Confined
<1>4. ASSUME files[p] # NoRow
      PROVE  SwiftReader(files[p].loc)' = SwiftReader(files[p].loc)
  <2> DEFINE l == files[p].loc
  <2>1. l \notin UsesOf(m)
    BY <1>1, <1>4 DEF OwnLocs, HasLoc
  <2>2. \A o : o.loc = l => (o \in objects' <=> o \in objects)
    BY <2>1 DEF Confined
  <2>3. l' = l
    BY <1>3
  <2> SUFFICES ASSUME NEW k, k = l PROVE SwiftReader(k)' = SwiftReader(k)
    BY <2>3
  <2>4. \A n : ObjectAt(k, n)' = ObjectAt(k, n)
    BY <2>2 DEF ObjectAt
  <2> QED BY <2>4, ReaderKept
<1> QED BY <1>3, <1>4, ContentKept

LEMMA ContentFlushed ==
    ASSUME StoreInv, NEW h \in Handlers, Shape(handler[h]),
           DataOK(handler[h], files, objects, segments), ManifestInv, PutSegment(h),
           NEW p, p = handler[h].wr.path, p \in Uploads, handler[h].op = "write",
           ~handler[h].wr.lost
    PROVE  GetContent(p)' = GetContent(p)
<1> DEFINE m == handler[h]
           num == IF m.wr.segs = <<>> THEN 1 ELSE Last(m.wr.segs).num + 1
           new == Plain(m.wr.loc, num, <<m.wr.buf>>)
<1>1. StepBy(h, "putsegment", <<>>) /\ PutFlush(h)
  BY PutSegmentFacts
<1>2. objects' = PutObject(new) /\ files' = files /\ m.wr.loc # NoLoc
  BY <1>1 DEF PutFlush
<1>3. num = Len(m.wr.segs) + 1 /\ Len(m.wr.segs) \in Nat
  BY <1>2, NewNumber
<1>4. new.loc = m.wr.loc /\ new.num = Len(m.wr.segs) + 1
  BY <1>3 DEF Plain
<1> HIDE DEF new, num
<1>5. ASSUME NEW l, NEW n, l # m.wr.loc \/ n \in 0..Len(m.wr.segs)
      PROVE  ObjectAt(l, n)' = ObjectAt(l, n)
  <2>1. \A x : x.loc = l /\ x.num = n => (x \in objects' <=> x \in objects)
    BY <1>2, <1>3, <1>4, <1>5 DEF PutObject
  <2> QED BY <2>1 DEF ObjectAt
<1>6. ASSUME files[p] # NoRow
      PROVE  SwiftReader(files[p].loc)' = SwiftReader(files[p].loc)
  <2> SUFFICES ASSUME NEW l, l = files[p].loc PROVE SwiftReader(l)' = SwiftReader(l)
    BY <1>2
  <2>1. l \in {NoLoc, m.wr.loc}
    BY <1>2, <1>6 DEF DataOK, WriterRow
  <2>2. CASE l = NoLoc
    <3>1. \A n : ObjectAt(l, n)' = ObjectAt(l, n)
      BY <1>2, <1>5, <2>2
    <3> QED BY <3>1, ReaderKept
  <2>3. CASE l = m.wr.loc
    <3>1. ObjectAt(l, 0)' = ObjectAt(l, 0)
      BY <1>3, <1>5
    <3>2. ASSUME NEW o \in ObjectAt(l, 0), NEW i \in DOMAIN o.parts
          PROVE  ObjectAt(l, o.parts[i].num)' = ObjectAt(l, o.parts[i].num)
      <4>1. o \in objects /\ o.loc = m.wr.loc
        BY <2>3 DEF ObjectAt
      <4>2. o \in ObjectRec /\ (~o.slo => o.parts = <<>>)
        BY <4>1 DEF StoreInv, ObjectsOK
      <4>3. o.parts \in Seq(Part) /\ o.slo /\ i \in 1..Len(o.parts)
        BY <4>2 DEF ObjectRec
      <4>4. /\ o.parts[i].num = i
            /\ SegmentRow(m.wr.loc, i, o.parts[i].unit) \in segments
        BY <4>1, <4>3 DEF ManifestInv, Recorded
      <4>5. \A t \in TasksOf(m.todo) : t.do # "readsegments"
        BY KindsTable DEF Shape, TaskShape, FlushTasks
      <4>6. \A s \in segments : s.loc = m.wr.loc => s.num <= Len(m.wr.segs)
        BY <1>2, <4>5 DEF DataOK, KnowsSegments
      <4>7. i <= Len(m.wr.segs)
        BY <4>4, <4>6 DEF SegmentRow
      <4>8. o.parts[i].num \in 0..Len(m.wr.segs)
        BY <1>3, <4>3, <4>4, <4>7
      <4> QED BY <1>5, <4>8
    <3> QED BY <3>1, <3>2, ReaderKept
  <2> QED BY <2>1, <2>2, <2>3
<1> QED BY <1>2, <1>6, ContentKept

LEMMA SameStores ==
    ASSUME files' = files, objects' = objects, NEW p
    PROVE  GetContent(p)' = GetContent(p)
  BY DEF GetContent, SwiftReader, ObjectAt, PartFound

(* A step of h leaves the files alone that its call does not announce. *)
LEMMA ContentSame ==
    ASSUME StoreInv, NEW h \in Handlers, Shape(handler[h]), PathOK(handler[h]),
           CallOK(handler[h]), DataOK(handler[h], files, objects, segments),
           ManifestInv, Confined(h), OwnLocs(handler[h], files),
           Step(h) \/ Conflict(h) \/ Fault(h) \/ CutShort(h),
           NEW p \in Files, p \notin Doubtful(handler[h])
    PROVE  GetContent(p)' = GetContent(p)
<1> DEFINE m == handler[h]
<1>0. CASE p \notin RegionOf(m)
  BY <1>0, ContentElsewhere
<1> SUFFICES ASSUME p \in RegionOf(m) PROVE GetContent(p)' = GetContent(p)
  BY <1>0
<1>1. m.op \in {"idle", "append", "write"}
  BY DEF Doubtful
<1>2. \A t \in TasksOf(m.todo) :
        t.do \in {"readsegments", "putsegment", "recordsegment", "return"}
  BY <1>1, KindsTable DEF Shape, TaskShape, FlushTasks
<1>3. CASE Step(h) /\ ~PutSegment(h)
  <2>1. \A do : At(h, do) => do \in {"readsegments", "putsegment", "recordsegment", "return"}
    BY <1>2, NowUsed
  <2>2. ReadSegments(h) \/ RecordSegment(h) \/ Finish(h)
    BY <1>3, <2>1 DEF Step, ListObjects, BulkDelete, DeleteChildren, DeleteRow,
         UpsertRow, MakeDir, Upload, ReadTarget, Rename, WriteSLO, ReadForDelete
  <2>3. files' = files /\ objects' = objects
    BY <2>2 DEF ReadSegments, RecordSegment, Finish
  <2> QED BY <2>3, SameStores
<1>4. CASE PutSegment(h)
  <2>1. At(h, "putsegment")
    BY <1>4 DEF PutSegment
  <2>2. "putsegment" \in KindsOf(m.op) \cup {"return"}
    BY <2>1, NowUsed DEF Shape, TaskShape
  <2>3. m.op = "write"
    BY <1>1, <2>2, KindsTable
  <2>4. RegionOf(m) = {m.wr.path} /\ m.wr.path \in Uploads
    BY <2>3, RegionIs DEF CallOK, WriterOps
  <2>5. ~m.wr.lost
    BY <2>3, <2>4 DEF Doubtful, Misled, CallOK, WriterOps
  <2> QED BY <1>4, <2>3, <2>4, <2>5, ContentFlushed
<1>5. CASE Conflict(h) \/ Fault(h)
  <2>1. ~At(h, "bulkdelete")
    BY <1>2, NowUsed
  <2>2. files' = files /\ objects' = objects
    BY <1>5, <2>1 DEF Conflict, Fault
  <2> QED BY <2>2, SameStores
<1>6. CASE CutShort(h)
  BY <1>6, SameStores DEF CutShort
<1> QED BY <1>3, <1>4, <1>5, <1>6

LEMMA CallStart ==
    ASSUME StoreInv, NEW h \in Handlers, Call(h)
    PROVE  /\ handler[h].op = "idle" /\ Alone(h) /\ written \subseteq written'
           /\ files' = files /\ objects' = objects
<1>1. handler[h].op = "idle"
  BY DEF Call, PutContent, Move, Delete, Writer, Write, Commit, Close, Cancel, GiveUp,
         MayCall, MayUse
<1>2. Alone(h)
  BY CallsShape
<1>3. written \subseteq written' /\ files' = files /\ objects' = objects
  BY DEF Call, PutContent, Move, Delete, Writer, Write, Commit, Close, Cancel, GiveUp
<1> QED BY <1>1, <1>2, <1>3

(* What a call announces, as a function of its record. *)
Announced(m, v) ==
    IF Misled(m) THEN {<<m.wr.path, Unknown>>}
    ELSE CASE m.op = "put" -> {<<m.path, m.val>>}
           [] m.op = "move" -> {<<m.path, Absent>>, <<m.dest, m.val>>}
           [] m.op = "delete" -> Below(m.path) \X {m.val}
           [] m.op = "create" -> {<<m.path, Absent>>}
           [] m.op \in {"commit", "close"} -> {<<m.wr.path, v>>}
           [] m.op = "cancel" -> {<<m.wr.path, Absent>>}
           [] OTHER -> {}

LEMMA AnnouncedIs ==
    ASSUME NEW h
    PROVE  /\ Effect(h) = Announced(handler[h], Stored(h))
           /\ Effect(h)' = Announced(handler'[h], Stored(h)')
<1>1. Effect(h) = Announced(handler[h], Stored(h))
  BY DEF Effect, Announced, Lost, HasWriter, Misled
<1>2. Effect(h)' = Announced(handler'[h], Stored(h)')
  BY DEF Effect, Announced, Lost, HasWriter, Misled
<1> QED BY <1>1, <1>2

LEMMA WriterRegion ==
    ASSUME NEW m, CallOK(m), m.wr.loc # NoLoc
    PROVE  m.wr.path \in Files /\ m.wr.path \in RegionOf(m)
<1>1. m.wr.path \in Files /\ m.wr.path \in Paths /\ m.wr.path # Root
  BY SwiftPlusAssumption DEF CallOK, Files
<1>2. m.wr.path \in Above[m.wr.path]
  BY <1>1, AboveSelf
<1> QED BY <1>1, <1>2 DEF RegionOf, ClaimsOf

(* A call announces the contents of the files that it puts in doubt, one    *)
(* for each.                                                                *)
LEMMA AnnouncedFiles ==
    ASSUME NEW m, NEW v, m.op \in Ops, Shape(m), PathOK(m), CallOK(m)
    PROVE  /\ {e[1] : e \in Announced(m, v)} = Doubtful(m) \cap Files
           /\ \A e, f \in Announced(m, v) : e[1] = f[1] => e[2] = f[2]
           /\ \A e \in Announced(m, v) : e = <<e[1], e[2]>>
<1> DEFINE A == Announced(m, v)
           T == {e[1] : e \in A}
<1>0. /\ m.op = "put" => RegionOf(m) = {m.path} /\ m.path \in Files
      /\ m.op = "move" => RegionOf(m) = {m.path, m.dest}
      /\ m.op = "delete" => RegionOf(m) \cap Files = Below(m.path)
      /\ m.op \in WriterOps => RegionOf(m) = {m.wr.path}
      /\ m.op = "create" => m.path = m.wr.path
  BY RegionIs
<1>1. /\ m.op = "move" => m.path \in Uploads /\ m.dest \in Blobs /\ m.path # m.dest
      /\ m.op \in WriterOps => m.wr.path \in Uploads
      /\ Uploads \subseteq Files /\ Blobs \subseteq Files
  BY SwiftPlusAssumption DEF CallOK, Files
<1>10. CASE Misled(m)
  <2>1. /\ m.wr.loc # NoLoc /\ m.wr.path \in Files
        /\ m.op \in WriterOps \cup {"idle"}
    BY <1>10, WriterRegion DEF Misled, Shape, Ops, WriterOps
  <2>2. A = {<<m.wr.path, Unknown>>} /\ Doubtful(m) = {m.wr.path}
    BY <1>0, <1>10, <2>1 DEF Announced, Doubtful, WriterOps
  <2> HIDE DEF A
  <2> QED BY <2>1, <2>2 DEF A
<1> SUFFICES ASSUME ~Misled(m)
             PROVE  /\ T = Doubtful(m) \cap Files
                    /\ \A e, f \in A : e[1] = f[1] => e[2] = f[2]
                    /\ \A e \in A : e = <<e[1], e[2]>>
  BY <1>10
<1>2. CASE m.op = "put"
  <2>1. A = {<<m.path, m.val>>} /\ Doubtful(m) = {m.path}
    BY <1>0, <1>2 DEF Announced, Doubtful
  <2> HIDE DEF A
  <2> QED BY <1>0, <1>2, <2>1 DEF A
<1>3. CASE m.op = "move"
  <2>1. A = {<<m.path, Absent>>, <<m.dest, m.val>>} /\ Doubtful(m) = {m.path, m.dest}
    BY <1>0, <1>3 DEF Announced, Doubtful
  <2> HIDE DEF A
  <2> QED BY <1>1, <1>3, <2>1 DEF A
<1>4. CASE m.op = "delete"
  <2>1. A = Below(m.path) \X {m.val} /\ Doubtful(m) \cap Files = Below(m.path)
    BY <1>0, <1>4 DEF Announced, Doubtful
  <2>2. \A e \in A : e[1] \in Below(m.path) /\ e[2] = m.val /\ e = <<e[1], e[2]>>
    BY <2>1
  <2>3. \A p \in Below(m.path) : <<p, m.val>> \in A /\ <<p, m.val>>[1] = p
    BY <2>1
  <2> HIDE DEF A
  <2>4. {e[1] : e \in A} = Below(m.path)
    BY <2>2, <2>3
  <2> QED BY <2>1, <2>2, <2>4 DEF A
<1>5. CASE m.op = "create"
  <2>1. A = {<<m.path, Absent>>} /\ Doubtful(m) = {m.path} /\ m.path \in Files
    BY <1>0, <1>1, <1>5 DEF Announced, Doubtful, WriterOps
  <2> HIDE DEF A
  <2> QED BY <2>1 DEF A
<1>6. CASE m.op \in {"commit", "close"}
  <2>1. A = {<<m.wr.path, v>>} /\ Doubtful(m) = {m.wr.path} /\ m.wr.path \in Files
    BY <1>0, <1>1, <1>6 DEF Announced, Doubtful, WriterOps
  <2> HIDE DEF A
  <2> QED BY <2>1 DEF A
<1>7. CASE m.op = "cancel"
  <2>1. A = {<<m.wr.path, Absent>>} /\ Doubtful(m) = {m.wr.path} /\ m.wr.path \in Files
    BY <1>0, <1>1, <1>7 DEF Announced, Doubtful, WriterOps
  <2> HIDE DEF A
  <2> QED BY <2>1 DEF A
<1>8. CASE m.op \in {"idle", "append", "write"}
  <2>1. A = {} /\ Doubtful(m) = {}
    BY <1>8 DEF Announced, Doubtful
  <2> HIDE DEF A
  <2> QED BY <2>1 DEF A
<1> QED BY <1>2, <1>3, <1>4, <1>5, <1>6, <1>7, <1>8 DEF Ops

(* What a writer will have stored stays the same through a flush and the    *)
(* rest of a commit.                                                        *)
LEMMA StoredIs ==
    ASSUME NEW h
    PROVE  /\ Stored(h) = Contents(handler[h].wr) \o
                (IF handler[h].wr.buf = NoUnit
                    \/ (handler[h].todo # <<>> /\ Head(handler[h].todo).do = "recordsegment")
                 THEN <<>> ELSE <<handler[h].wr.buf>>)
           /\ Stored(h)' = Contents(handler'[h].wr) \o
                (IF handler'[h].wr.buf = NoUnit
                    \/ (handler'[h].todo # <<>> /\ Head(handler'[h].todo).do = "recordsegment")
                 THEN <<>> ELSE <<handler'[h].wr.buf>>)
  BY DEF Stored, At

LEMMA OneMore ==
    ASSUME NEW c \in Seq(Nat), NEW u \in Nat
    PROVE  /\ c \o <<u>> \in Seq(Nat) /\ Len(c \o <<u>>) = Len(c) + 1
           /\ (c \o <<u>>)[Len(c) + 1] = u
           /\ \A i \in 1..Len(c) : (c \o <<u>>)[i] = c[i]
<1> DEFINE d == <<u>>
<1>1. d \in Seq(Nat) /\ Len(d) = 1 /\ d[1] = u
  OBVIOUS
<1> HIDE DEF d
<1>2. /\ c \o d \in Seq(Nat) /\ Len(c \o d) = Len(c) + Len(d)
      /\ \A i \in 1..Len(c) + Len(d) : (c \o d)[i] =
           IF i <= Len(c) THEN c[i] ELSE d[i - Len(c)]
  BY <1>1, ConcatProperties
<1>3. Len(c) \in Nat
  OBVIOUS
<1>4. (c \o d)[Len(c) + 1] = d[1] /\ \A i \in 1..Len(c) : (c \o d)[i] = c[i]
  BY <1>1, <1>2, <1>3
<1> QED BY <1>1, <1>2, <1>4 DEF d

LEMMA FlushStored ==
    ASSUME StoreInv, NEW h \in Handlers, Shape(handler[h]), PutSegment(h)
    PROVE  Stored(h)' = Stored(h)
<1> DEFINE m == handler[h]
           k == handler'[h]
           num == IF m.wr.segs = <<>> THEN 1 ELSE Last(m.wr.segs).num + 1
           s == [num |-> num, unit |-> m.wr.buf]
           segs == Append(m.wr.segs, s)
           n == Len(m.wr.segs)
<1>1. StepBy(h, "putsegment", <<>>) /\ m.wr.loc # NoLoc
      /\ k.wr = [m.wr EXCEPT !.segs = segs]
  BY PutSegmentFacts DEF PutFlush
<1>2. m.todo # <<>> /\ Head(m.todo).do = "putsegment"
  BY DEF PutSegment, At
<1>3. m.wr \in WriterRec /\ m.wr # NoWriter
  BY <1>1, HandlerTypes DEF HandlerRec, NoWriter
<1>4. m.wr.buf # NoUnit
  BY <1>2, <1>3 DEF StoreInv, HandlerOK, FlushTasks
<1>5. k.todo # <<>> /\ Head(k.todo).do = "recordsegment"
  BY RecordNext
<1>6. k.wr.segs = segs /\ k.wr.buf = m.wr.buf
  BY <1>1, <1>3 DEF WriterRec
<1>7. m.wr.segs \in Seq(Part) /\ n \in Nat
  BY <1>3 DEF WriterRec
<1>8. s.unit = m.wr.buf
  OBVIOUS
<1> HIDE DEF s, num
<1>9. /\ DOMAIN segs = 1..(n + 1) /\ segs[n + 1] = s
      /\ \A i \in 1..n : segs[i] = m.wr.segs[i]
  BY <1>7
<1>10. DOMAIN m.wr.segs = 1..n
  BY <1>7
<1> DEFINE c == Contents(m.wr)
           d == Contents(k.wr)
<1>11. c = [i \in 1..n |-> m.wr.segs[i].unit]
  BY <1>10 DEF Contents
<1>12. d = [i \in 1..(n + 1) |-> segs[i].unit]
  BY <1>6, <1>9 DEF Contents
<1>13. c \in Seq(Nat) /\ Len(c) = n
  BY <1>1, <1>3, <1>7, ContentsFacts, UnitsIs
<1>14. m.wr.buf \in Nat
  BY <1>3 DEF WriterRec, Unit, NoUnit
<1>15. d = c \o <<m.wr.buf>>
  <2> DEFINE e == c \o <<m.wr.buf>>
  <2>1. e \in Seq(Nat) /\ Len(e) = n + 1 /\ e[n + 1] = m.wr.buf
        /\ \A i \in 1..n : e[i] = c[i]
    <3> HIDE DEF c, n
    <3> QED BY <1>13, <1>14, OneMore
  <2>2. \A i \in 1..n : c[i] = m.wr.segs[i].unit
    BY <1>11
  <2> HIDE DEF c, e, segs, n
  <2>3. e = [i \in 1..(n + 1) |-> e[i]]
    BY <1>7, <2>1
  <2>4. \A i \in 1..(n + 1) : segs[i].unit = e[i]
    BY <1>7, <1>8, <1>9, <2>1, <2>2
  <2>5. d = e
    BY <1>12, <2>3, <2>4
  <2> QED BY <2>5 DEF e, c
<1>16. Stored(h) = c \o <<m.wr.buf>>
  BY <1>2, <1>4, StoredIs
<1>17. d \in Seq(Nat)
  BY <1>13, <1>14, <1>15
<1>18. Stored(h)' = d \o <<>>
  BY <1>5, StoredIs
<1> HIDE DEF c, d
<1>19. d \o <<>> = d
  BY <1>17
<1> QED BY <1>15, <1>16, <1>18, <1>19

LEMMA StoredKept ==
    ASSUME StoreInv, NEW h \in Handlers, Shape(handler[h]), CallOK(handler[h]),
           Step(h), ~Finish(h), handler[h].op \in {"commit", "close"}
    PROVE  Stored(h)' = Stored(h)
<1> DEFINE m == handler[h]
           k == handler'[h]
<1>1. \A do : At(h, do) => do \in {"putsegment", "recordsegment", "manifest", "upsert",
                                   "mkdir", "return"}
  BY KindNow, KindsTable DEF FlushTasks
<1>2. PutSegment(h) \/ RecordSegment(h) \/ WriteSLO(h) \/ UpsertRow(h) \/ MakeDir(h)
  BY <1>1, StepKinds DEF Step
<1>3. m.wr.loc # NoLoc
  BY DEF CallOK, WriterOps
<1>4. m.wr \in WriterRec
  BY <1>3, HandlerTypes DEF HandlerRec, NoWriter
<1>5. CASE PutSegment(h)
  BY <1>5, FlushStored
<1>6. CASE RecordSegment(h)
  <2>1. k.wr = [m.wr EXCEPT !.buf = NoUnit]
    BY <1>6, HandlerTypes DEF RecordSegment, Then, HandlerRec
  <2>2. k.wr.buf = NoUnit /\ k.wr.segs = m.wr.segs
    BY <1>4, <2>1 DEF WriterRec
  <2>3. Contents(k.wr) = Contents(m.wr)
    BY <2>2 DEF Contents
  <2>4. m.todo # <<>> /\ Head(m.todo).do = "recordsegment"
    BY <1>6 DEF RecordSegment, At
  <2> QED BY <2>2, <2>3, <2>4, StoredIs
<1>7. CASE WriteSLO(h) \/ UpsertRow(h) \/ MakeDir(h)
  <2>1. PICK do, tasks : /\ do \in {"manifest", "upsert", "mkdir"} /\ StepBy(h, do, tasks)
                         /\ k.wr = m.wr /\ \A t \in TasksOf(tasks) : t.do \notin FlushTasks
    <3>1. CASE WriteSLO(h)
      <4> DEFINE q == writeFileInfo(m.wr.path, ManifestRow(m.wr))
      <4>1. /\ StepBy(h, "manifest", q) /\ k.wr = m.wr
            /\ TasksOf(q) = RowTasks(m.wr.path, ManifestRow(m.wr))
        BY <3>1, WriteSLOFacts
      <4>2. \A t \in TasksOf(q) : t.do \notin FlushTasks
        BY <4>1 DEF RowTasks, DirTasks, Task, FlushTasks
      <4> HIDE DEF q
      <4> QED BY <4>1, <4>2
    <3>2. CASE UpsertRow(h)
      <4>1. StepBy(h, "upsert", <<>>) /\ k.wr = m.wr
        BY <3>2, UpsertFacts
      <4> QED BY <4>1, TasksOne
    <3>3. CASE MakeDir(h)
      <4> DEFINE d == Now(h).path
                 q == mkdirAll(Parent[d])
      <4>1. /\ StepBy(h, "mkdir", q) /\ k.wr = m.wr
            /\ TasksOf(q) = DirTasks(Parent[d])
        BY <3>3, MakeDirFacts
      <4>2. \A t \in TasksOf(q) : t.do \notin FlushTasks
        BY <4>1 DEF DirTasks, Task, FlushTasks
      <4> HIDE DEF q
      <4> QED BY <4>1, <4>2
    <3> QED BY <1>7, <3>1, <3>2, <3>3
  <2>2. \A t \in TasksOf(Tail(m.todo)) : t.do \notin FlushTasks
    BY <2>1, RestAfter, AfterTable DEF FlushTasks
  <2>3. TasksOf(k.todo) = TasksOf(tasks) \cup TasksOf(Tail(m.todo))
        /\ k.todo \in Seq(AnyTask) /\ m.todo # <<>> /\ Head(m.todo).do = do
    BY <2>1, StepTodo
  <2>4. k.todo # <<>> => Head(k.todo) \in TasksOf(k.todo)
    BY <2>3, HeadIn
  <2>5. k.todo # <<>> => Head(k.todo).do # "recordsegment"
    BY <2>1, <2>2, <2>3, <2>4 DEF FlushTasks
  <2>6. Head(m.todo).do # "recordsegment"
    BY <2>1, <2>3
  <2> QED BY <2>1, <2>5, <2>6, StoredIs
<1> QED BY <1>2, <1>5, <1>6, <1>7

LEMMA EffectKept ==
    ASSUME StoreInv, NEW h \in Handlers, Shape(handler[h]), CallOK(handler[h]),
           Step(h), ~Finish(h)
    PROVE  Effect(h)' = Effect(h)
<1> DEFINE m == handler[h]
           k == handler'[h]
<1>1. SameCall(m, k) /\ k.val = m.val /\ (Misled(k) <=> Misled(m))
  BY StepSame DEF SameCall, Misled
<1>2. m.op \in {"commit", "close"} => Stored(h)' = Stored(h)
  BY StoredKept
<1>3. \A v : Announced(k, v) = Announced(m, v)
  BY <1>1 DEF Announced, SameCall
<1>4. m.op \notin {"commit", "close"} => \A v, x : Announced(m, v) = Announced(m, x)
  BY DEF Announced
<1> QED BY <1>2, <1>3, <1>4, AnnouncedIs

-----------------------------------------------------------------------------
(* The steps of the register. *)

Overlap(a, b) == \E e \in a, f \in b : e[1] = f[1]

LEMMA BeginIs ==
    ASSUME NEW h \in Handlers, Effect(h) = {}, Effect(h)' # {},
           \A g \in Handlers \ {h} :
             Effect(g)' = Effect(g) /\ ~Overlap(Effect(g), Effect(h)'),
           acked' = [f \in Files |-> IF \E e \in Effect(h)' : e[1] = f THEN Unknown
                                     ELSE acked[f]],
           written \subseteq written', \A f \in Files : GetContent(f)' = GetContent(f)
    PROVE  Register!Begin(h)
<1> DEFINE C == [p \in Files |-> GetContent(p)]
           E == [g \in Handlers |-> Effect(g)]
<1>1. C' = C
  OBVIOUS
<1>2. \A c \in Handlers : E[c] = Effect(c) /\ E'[c] = Effect(c)'
  OBVIOUS
<1>3. \A d \in Handlers \ {h} :
        /\ E'[d] = E[d]
        /\ Register!Touched(E[d]) \cap Register!Touched(E'[h]) = {}
  BY <1>2 DEF Register!Touched, Overlap
<1>4. acked' = [f \in Files |-> IF f \in Register!Touched(E'[h]) THEN Unknown
                                ELSE acked[f]]
  <2>1. \A f : f \in Register!Touched(E'[h]) <=> \E e \in Effect(h)' : e[1] = f
    BY <1>2 DEF Register!Touched
  <2> QED BY <2>1
<1>5. E[h] = {} /\ E'[h] # {}
  BY <1>2
<1> QED BY <1>1, <1>3, <1>4, <1>5 DEF Register!Begin

LEMMA SuccessIs ==
    ASSUME NEW h \in Handlers, Effect(h) # {}, Effect(h)' = {},
           \A g \in Handlers \ {h} : Effect(g)' = Effect(g),
           \A e \in Effect(h) : e = <<e[1], e[2]>> /\ e[2] \in {GetContent(e[1]), Unknown}
                                /\ e[1] \in Files,
           \A e, f \in Effect(h) : e[1] = f[1] => e[2] = f[2],
           acked' \in [Files -> Value],
           \A f \in Files : \/ \E e \in Effect(h) : e[1] = f /\ acked'[f] = e[2]
                            \/ /\ \A e \in Effect(h) : e[1] # f
                               /\ acked'[f] = acked[f],
           written' = written, \A f \in Files : GetContent(f)' = GetContent(f)
    PROVE  Register!Success(h)
<1> DEFINE C == [p \in Files |-> GetContent(p)]
           E == [g \in Handlers |-> Effect(g)]
           Val(f) == CHOOSE v \in {e[2] : e \in E[h]} : <<f, v>> \in E[h]
<1>1. C' = C /\ \A f \in Files : C[f] = GetContent(f)
  OBVIOUS
<1>2. \A c \in Handlers : E[c] = Effect(c) /\ E'[c] = Effect(c)'
  OBVIOUS
<1>3. E' = [E EXCEPT ![h] = {}]
  <2> DEFINE F == E'
             G == [E EXCEPT ![h] = {}]
  <2>1. DOMAIN F = Handlers /\ F = [g \in Handlers |-> F[g]]
    OBVIOUS
  <2>2. G = [g \in Handlers |-> G[g]] /\ G[h] = {}
        /\ \A g \in Handlers \ {h} : G[g] = E[g]
    OBVIOUS
  <2>3. \A g \in Handlers : F[g] = G[g]
    BY <1>2, <2>2
  <2> HIDE DEF F, G
  <2>4. F = G
    BY <2>1, <2>2, <2>3
  <2> QED BY <2>4 DEF F, G
<1>4. \A e \in E[h] : e[2] \in {C[e[1]], Unknown}
  BY <1>1, <1>2
<1>5. ASSUME NEW f \in Files
      PROVE  acked'[f] = IF f \in Register!Touched(E[h]) THEN Val(f) ELSE acked[f]
  <2>1. f \in Register!Touched(E[h]) <=> \E e \in Effect(h) : e[1] = f
    BY <1>2 DEF Register!Touched
  <2>2. CASE \A e \in Effect(h) : e[1] # f
    BY <2>1, <2>2
  <2>3. CASE \E e \in Effect(h) : e[1] = f
    <3>1. PICK e \in Effect(h) : e[1] = f /\ acked'[f] = e[2]
      BY <2>3
    <3>2. e[2] \in {x[2] : x \in E[h]} /\ <<f, e[2]>> \in E[h]
      BY <1>2, <3>1
    <3>3. Val(f) \in {x[2] : x \in E[h]} /\ <<f, Val(f)>> \in E[h]
      BY <3>2
    <3>4. <<f, Val(f)>>[1] = f /\ <<f, Val(f)>>[2] = Val(f)
      OBVIOUS
    <3> HIDE DEF Val
    <3>5. Val(f) = e[2]
      BY <1>2, <3>1, <3>3, <3>4
    <3> QED BY <2>1, <2>3, <3>1, <3>5
  <2> QED BY <2>2, <2>3
<1>6. acked' = [f \in Files |-> IF f \in Register!Touched(E[h]) THEN Val(f) ELSE acked[f]]
  <2> DEFINE A == acked'
             W(f) == IF f \in Register!Touched(E[h]) THEN Val(f) ELSE acked[f]
  <2>1. \A f \in Files : A[f] = W(f)
    BY <1>5
  <2>2. A = [f \in Files |-> A[f]]
    OBVIOUS
  <2> HIDE DEF A, W
  <2>3. A = [f \in Files |-> W(f)]
    BY <2>1, <2>2
  <2> QED BY <2>3 DEF A, W
<1>7. E[h] # {}
  BY <1>2
<1> QED BY <1>1, <1>3, <1>4, <1>6, <1>7 DEF Register!Success

ClaimsOK == \A h \in Handlers : ClaimsOf(handler[h]) \subseteq Paths
                                /\ handler[h].op \in Ops

LEMMA ClaimsNow == StoreInv => ClaimsOK
  BY ClaimsArePaths, HandlerTypes DEF ClaimsOK, HandlerRec

LEMMA ClaimsNext == StoreInv' => ClaimsOK'
  BY ClaimsNow, PTL

LEMMA WholeNext == StoreInv' => WholeContents'
  BY ContentsWhole, PTL

LEMMA EffectAlone ==
    ASSUME NEW g, handler'[g] = handler[g]
    PROVE  Effect(g)' = Effect(g)
<1>1. Stored(g)' = Stored(g)
  BY StoredIs
<1> QED BY <1>1, AnnouncedIs

(* The files that a call announces are in its region. *)
LEMMA Announces ==
    ASSUME NEW m, NEW v, m.op \in Ops, Shape(m), PathOK(m), CallOK(m)
    PROVE  /\ \A f \in Files : f \in Doubtful(m) <=> \E e \in Announced(m, v) : e[1] = f
           /\ \A e \in Announced(m, v) : e[1] \in Files /\ e[1] \in RegionOf(m)
<1>1. {e[1] : e \in Announced(m, v)} = Doubtful(m) \cap Files
  BY AnnouncedFiles
<1>2. \A f : f \in {e[1] : e \in Announced(m, v)} <=> \E e \in Announced(m, v) : e[1] = f
  OBVIOUS
<1>3. \A x \in Doubtful(m) : x \in RegionOf(m)
  BY WriterRegion DEF Doubtful, Misled
<1> HIDE DEF Announced
<1> QED BY <1>1, <1>2, <1>3

(* A writer that knows too little is used, or given up. *)
LEMMA MisledCall ==
    ASSUME StoreInv, NEW h \in Handlers, Call(h), Misled(handler[h])
    PROVE  \/ Misled(handler'[h]) /\ handler'[h].wr.path = handler[h].wr.path
           \/ IdleRec(handler'[h]) /\ handler'[h].wr = NoWriter
<1> DEFINE k == handler'[h]
<1>0. HasWriter(h)
  BY DEF Misled, HasWriter
<1>1. ASSUME NEW op \in {"commit", "close"}, Commit(h, op)
      PROVE  k.wr = handler[h].wr
  BY <1>1, CommitFacts DEF UseCall, CallRec
<1>2. Write(h) \/ Cancel(h) => k.wr = handler[h].wr
  BY WriteFacts, CancelFacts DEF UseCall, CallRec
<1>3. Close(h) \/ GiveUp(h) => IdleRec(k) /\ k.wr = NoWriter
  BY LeaveFacts, IdleHandlers DEF IdleHandler, IdleRec
<1> QED BY <1>0, <1>1, <1>2, <1>3
        DEF Call, PutContent, Move, Delete, Writer, MayCall, Misled

LEMMA MisledCallRegister ==
    ASSUME StoreInv, StoreInv', ShapeInv', PathInv', InDoubt, NEW h \in Handlers,
           Call(h), Misled(handler[h])
    PROVE  acked' = acked /\ Effect(h)' \in {Effect(h), {}}
<1> DEFINE m == handler[h]
           k == handler'[h]
           p == m.wr.path
<1>1. CallOK(m) /\ CallOK(k) /\ Shape(k) /\ PathOK(k) /\ k.op \in Ops
  BY AllCallOK, ClaimsNext DEF ShapeInv, PathInv, ClaimsOK
<1>2. m.op = "idle"
  BY CallStart
<1>3. p \in Files /\ acked[p] = Unknown
  <2>1. p \in Files
    BY <1>1, WriterRegion DEF Misled
  <2>2. p \in Doubtful(m)
    BY <1>2 DEF Doubtful
  <2> QED BY <2>1, <2>2 DEF InDoubt
<1>4. CASE Misled(k) /\ k.wr.path = p
  <2>1. Effect(h)' = Effect(h)
    BY <1>4, IdleEffect
  <2>2. /\ \A f \in Files : f \in Doubtful(k) <=> \E e \in Announced(k, Absent) : e[1] = f
        /\ Announced(k, Absent) = {<<p, Unknown>>}
    BY <1>1, <1>4, Announces DEF Announced
  <2>3. \A f \in Files : f \in Doubtful(k) => f = p
    <3> HIDE DEF k, p
    <3> QED BY <2>2
  <2> QED BY <1>3, <2>1, <2>3, CallDoubt DEF StoreInv, CountersOK
<1>5. CASE IdleRec(k) /\ k.wr = NoWriter
  <2>1. Effect(h)' = {}
    BY <1>5, GoneEffect DEF Misled, NoWriter
  <2>2. Doubtful(k) = {}
    BY <1>5, PathIdle DEF IdleRec
  <2> QED BY <2>1, <2>2, CallDoubt DEF StoreInv, CountersOK
<1> QED BY <1>4, <1>5, MisledCall

LEMMA CallRegister ==
    ASSUME StoreInv, StoreInv', ShapeInv, ShapeInv', LocInv', PathInv, PathInv',
           InDoubt, NEW h \in Handlers, Call(h)
    PROVE  Register!Begin(h) \/ Register!Work
<1> DEFINE m == handler[h]
           k == handler'[h]
<1>1. /\ m.op = "idle" /\ Alone(h) /\ written \subseteq written'
      /\ files' = files /\ objects' = objects
  BY CallStart
<1>3. \A f : GetContent(f)' = GetContent(f)
  BY <1>1, SameStores
<1>4. \A g \in Handlers \ {h} : Effect(g)' = Effect(g)
  BY <1>1, EffectAlone DEF Alone
<1>12. CASE Misled(m)
  <2>1. acked' = acked /\ \A c \in Handlers : Effect(c)' \in {Effect(c), {}}
    BY <1>4, <1>12, MisledCallRegister
  <2> QED BY <1>1, <1>3, <2>1, WorkIs
<1> SUFFICES ASSUME ~Misled(m) PROVE Register!Begin(h) \/ Register!Work
  BY <1>12
<1>2. Effect(h) = {} /\ Doubtful(m) = {}
  BY <1>1, IdleEffect, PathIdle
<1>5. /\ Shape(k) /\ PathOK(k) /\ CallOK(k)
      /\ \A g \in Handlers : ClaimsOf(handler'[g]) \subseteq Paths /\ handler'[g].op \in Ops
  BY AllCallOK, ClaimsNext DEF ShapeInv, PathInv, ClaimsOK
<1>6. Effect(h)' = Announced(k, Stored(h)')
  BY AnnouncedIs
<1> DEFINE E == Effect(h)'
<1>7. /\ \A f \in Files : f \in Doubtful(k) <=> \E e \in E : e[1] = f
      /\ \A e \in E : e[1] \in Files /\ e[1] \in RegionOf(k)
  BY <1>5, <1>6, Announces
<1>8. acked' \in [Files -> Value] /\ acked \in [Files -> Value]
  BY DEF StoreInv, CountersOK
<1>9. \A f \in Files : acked'[f] = IF \E e \in E : e[1] = f THEN Unknown ELSE acked[f]
  BY <1>2, <1>7, CallDoubt
<1>10. CASE E = {}
  <2>1. \A f \in Files : acked'[f] = acked[f]
    BY <1>9, <1>10
  <2>2. acked' = acked
    BY <1>8, <2>1
  <2>3. \A c \in Handlers : Effect(c)' \in {Effect(c), {}}
    BY <1>4, <1>10
  <2> QED BY <1>1, <1>3, <2>2, <2>3, WorkIs
<1>11. CASE E # {}
  <2>1. ASSUME NEW g \in Handlers \ {h} PROVE ~Overlap(Effect(g), E)
    <3>1. handler'[g] = handler[g] /\ g # h
      BY <1>1 DEF Alone
    <3>2. /\ Shape(handler[g]) /\ PathOK(handler[g]) /\ CallOK(handler[g])
          /\ handler[g].op \in Ops
      BY <1>5, <3>1, AllCallOK DEF ShapeInv, PathInv
    <3>3. \A e \in Effect(g) : e[1] \in RegionOf(handler[g])
      BY <3>2, Announces, AnnouncedIs
    <3>4. \A p \in ClaimsOf(handler[g]), q \in ClaimsOf(k) : ~Related(p, q)
      BY <3>1 DEF LocInv, Apart
    <3>5. \A x \in RegionOf(handler[g]) : x \notin RegionOf(k)
      BY <1>5, <3>4, RegionsApart
    <3> HIDE DEF E
    <3> QED BY <1>7, <3>3, <3>5 DEF Overlap
  <2>2. acked' = [f \in Files |-> IF \E e \in E : e[1] = f THEN Unknown ELSE acked[f]]
    <3> HIDE DEF E
    <3> QED BY <1>8, <1>9
  <2> QED BY <1>1, <1>2, <1>3, <1>4, <1>11, <2>1, <2>2, BeginIs
<1> QED BY <1>10, <1>11

LEMMA FinishAcks ==
    ASSUME Exclusive, NEW h \in Handlers, Finish(h), NEW p \in Files
    PROVE  \/ \E e \in Effect(h) : e[1] = p /\ acked'[p] = e[2]
           \/ (\A e \in Effect(h) : e[1] # p) /\ acked'[p] = acked[p]
<1> DEFINE vs == {v[2] : v \in {e \in Effect(h) : e[1] = p}}
<1>1. acked'[p] = IF vs # {} THEN CHOOSE v \in vs : TRUE ELSE acked[p]
  BY DEF Finish
<1>2. vs # {} => (CHOOSE v \in vs : TRUE) \in vs
  OBVIOUS
<1>3. vs = {} <=> \A e \in Effect(h) : e[1] # p
  OBVIOUS
<1> QED BY <1>1, <1>2, <1>3

LEMMA FinishRegister ==
    ASSUME Exclusive, StoreInv, StoreInv', ShapeInv, LocInv, ParentInv, PathInv,
           ManifestInv, InDoubt, NEW h \in Handlers, Finish(h),
           Keeps(handler[h], files, objects, segments),
           \A p \in Files : Safe(p, faults)
    PROVE  Register!Success(h) \/ Register!Work
<1> DEFINE m == handler[h]
           E == Effect(h)
<1>1. Alone(h) /\ IdleRec(handler'[h])
  BY EndIdle
<1>3. files' = files /\ objects' = objects /\ written' = written
  BY DEF Finish
<1>4. \A f : GetContent(f)' = GetContent(f)
  BY <1>3, SameStores
<1>5. \A g \in Handlers \ {h} : Effect(g)' = Effect(g)
  BY <1>1, EffectAlone DEF Alone
<1>6. acked' \in [Files -> Value] /\ acked \in [Files -> Value]
  BY DEF StoreInv, CountersOK
<1>12. CASE Misled(m)
  <2>1. E = {<<m.wr.path, Unknown>>}
    BY <1>12, IdleEffect
  <2>2. m.wr.path \in Doubtful(m)
    BY <1>12, DoubtInRegion DEF ShapeInv
  <2>3. ASSUME NEW f \in Files PROVE acked'[f] = acked[f]
    <3>1. \/ \E e \in E : e[1] = f /\ acked'[f] = e[2]
          \/ acked'[f] = acked[f]
      BY FinishAcks
    <3> HIDE DEF E
    <3> QED BY <2>1, <2>2, <3>1 DEF InDoubt
  <2>4. acked' = acked
    BY <1>6, <2>3
  <2>5. Effect(h)' \in {Effect(h), {}}
    BY <1>1, EndDoubt, GoneEffect, IdleEffect
  <2>6. \A c \in Handlers : Effect(c)' \in {Effect(c), {}}
    BY <1>5, <2>5
  <2> QED BY <1>3, <1>4, <2>4, <2>6, WorkIs
<1> SUFFICES ASSUME ~Misled(m) PROVE Register!Success(h) \/ Register!Work
  BY <1>12
<1>2. Effect(h)' = {}
  BY <1>1, EndDoubt, GoneEffect
<1>7. Shape(m) /\ PathOK(m) /\ CallOK(m) /\ m.op \in Ops
  BY AllCallOK, ClaimsNow DEF ShapeInv, PathInv, ClaimsOK
<1>8. /\ \A e \in E : e[1] \in Files /\ e = <<e[1], e[2]>>
      /\ \A e, f \in E : e[1] = f[1] => e[2] = f[2]
  BY <1>7, Announces, AnnouncedFiles, AnnouncedIs
<1> HIDE DEF E
<1>9. \A f \in Files : \/ \E e \in E : e[1] = f /\ acked'[f] = e[2]
                       \/ (\A e \in E : e[1] # f) /\ acked'[f] = acked[f]
  BY FinishAcks DEF E
<1>10. CASE E = {}
  <2>1. \A f \in Files : acked'[f] = acked[f]
    BY <1>9, <1>10
  <2>2. acked' = acked
    BY <1>6, <2>1
  <2>3. \A c \in Handlers : Effect(c)' \in {Effect(c), {}}
    BY <1>2, <1>5
  <2> QED BY <1>3, <1>4, <2>2, <2>3, WorkIs
<1>11. CASE E # {}
  <2>1. ASSUME NEW e \in E PROVE e[2] \in {GetContent(e[1]), Unknown}
    <3>1. e[1] \in Files /\ e[2] \in Value
      BY <1>6, <1>8, <1>9
    <3>2. CASE e[2] = Absent
      <4>1. Absent # Unknown
        BY SwiftPlusAssumption
      <4>2. Holds(e[1], e[2], files, objects)
        BY <3>1, <3>2, <4>1, FinishHolds DEF E
      <4>3. files[e[1]] = NoRow
        BY <3>2, <4>2 DEF Holds
      <4> QED BY <3>2, <4>3 DEF GetContent
    <3>3. CASE e[2] \notin {Absent, Unknown}
      <4>1. Holds(e[1], e[2], files, objects)
        BY <3>1, <3>3, FinishHolds DEF E
      <4>2. e[2] \in Contentses
        BY <3>1, <3>3 DEF Value
      <4>3. files[e[1]] # NoRow /\ RowHolds(e[1], e[2], files[e[1]], objects)
        BY <3>3, <4>1 DEF Holds
      <4>4. GetContent(e[1]) = e[2]
        BY <3>1, <4>2, <4>3, HoldsReads
      <4> QED BY <4>4
    <3> QED BY <3>2, <3>3
  <2> QED BY <1>2, <1>3, <1>4, <1>5, <1>6, <1>8, <1>9, <1>11, <2>1, SuccessIs DEF E
<1> QED BY <1>10, <1>11

LEMMA StepRegister ==
    ASSUME StoreInv, StoreInv', ShapeInv, LocInv, DataInv, PathInv, ManifestInv,
           NEW h \in Handlers, (Step(h) /\ ~Finish(h)) \/ Conflict(h) \/ Fault(h)
    PROVE  Register!Work
<1> DEFINE m == handler[h]
<1>1. /\ Shape(m) /\ PathOK(m) /\ CallOK(m) /\ m.op \in Ops
      /\ DataOK(m, files, objects, segments) /\ OwnLocs(m, files)
  BY AllCallOK, ClaimsNow DEF ShapeInv, PathInv, DataInv, LocInv, LocsOK, ClaimsOK
<1>2. Confined(h)
  BY <1>1, StepsConfined
<1>3. acked' = acked /\ written \subseteq written'
  <2>1. CASE Step(h) /\ ~Finish(h)
    BY <2>1 DEF Step, ListObjects, BulkDelete, DeleteChildren, DeleteRow, UpsertRow,
         MakeDir, Upload, ReadTarget, Rename, ReadSegments, PutSegment,
         RecordSegment, WriteSLO, ReadForDelete, ghosts
  <2>2. CASE Conflict(h) \/ Fault(h)
    BY <2>2 DEF Conflict, Fault, ghosts
  <2> QED BY <2>1, <2>2
<1>4. Effect(h)' \in {Effect(h), {}} /\ Alone(h)
  <2>1. CASE Step(h) /\ ~Finish(h)
    BY <1>1, <2>1, EffectKept, StepSame
  <2>2. CASE Conflict(h) \/ Fault(h)
    BY <2>2, EndIdle, EndDoubt, GoneEffect, IdleEffect
  <2> QED BY <2>1, <2>2
<1>5. \A c \in Handlers : Effect(c)' \in {Effect(c), {}}
  BY <1>4, EffectAlone DEF Alone
<1>6. ASSUME NEW f \in Files, GetContent(f)' # GetContent(f)
      PROVE  /\ \E c \in Handlers : \E e \in Effect(c) : e[1] = f
             /\ GetContent(f)' \in written' \cup {Absent, Unreadable}
  <2>1. f \in Doubtful(m)
    BY <1>1, <1>2, <1>6, ContentSame
  <2>2. \E e \in Effect(h) : e[1] = f
    BY <1>1, <2>1, Announces, AnnouncedIs
  <2>3. GetContent(f)' \in written' \cup {Absent, Unreadable}
    BY WholeNext DEF WholeContents
  <2> QED BY <2>2, <2>3
<1> QED BY <1>3, <1>5, <1>6, WorkIs

(* The loop over the segments ends early: from now on the file is in doubt. *)
LEMMA CutSegmentsRegister ==
    ASSUME StoreInv, StoreInv', ShapeInv, LocInv, PathInv, InDoubt, NEW h \in Handlers,
           CutShort(h), CutSegments(h)
    PROVE  Register!Begin(h) \/ Register!Work
<1> DEFINE m == handler[h]
           k == handler'[h]
           p == m.wr.path
<1>1. /\ StepBy(h, "readsegments", <<>>) /\ Quiet /\ m.wr.loc # NoLoc
      /\ k.wr.lost /\ k.wr.path = p
  BY CutSegmentsFacts
<1>2. /\ Shape(m) /\ PathOK(m) /\ CallOK(m) /\ m.op \in Ops
  BY AllCallOK, ClaimsNow DEF ShapeInv, PathInv, ClaimsOK
<1>3. Alone(h) /\ SameCall(m, k)
  BY <1>2, CutSame
<1>4. acked' = Forget({p})
  BY DEF CutSegments
<1>5. p \in Files /\ p \in RegionOf(m)
  BY <1>1, <1>2, WriterRegion
<1>6. Misled(k)
  BY <1>1, <1>3 DEF Misled, SameCall
<1>7. Effect(h)' = {<<p, Unknown>>}
  BY <1>1, <1>6, IdleEffect
<1>8. /\ \A f : GetContent(f)' = GetContent(f)
      /\ written' = written
  BY SameStores DEF CutShort
<1>9. \A g \in Handlers \ {h} : Effect(g)' = Effect(g)
  BY <1>3, EffectAlone DEF Alone
<1>10. \A f \in Files : acked'[f] = IF f = p THEN Unknown ELSE acked[f]
  BY <1>4, ForgetIs
<1>11. acked \in [Files -> Value] /\ acked' \in [Files -> Value]
  BY DEF StoreInv, CountersOK
<1>12. CASE Misled(m)
  <2>1. Effect(h) = {<<p, Unknown>>}
    BY <1>12, IdleEffect
  <2>2. acked[p] = Unknown
    BY <1>2, <1>5, <1>12, DoubtInRegion DEF InDoubt
  <2>3. acked' = acked
    BY <1>5, <1>10, <1>11, <2>2
  <2> QED BY <1>7, <1>8, <1>9, <2>1, <2>3, WorkIs
<1>13. CASE ~Misled(m)
  <2>1. m.op = "append"
    <3>1. At(h, "readsegments")
      BY DEF CutSegments
    <3>2. "readsegments" \in KindsOf(m.op) \cup {"return"}
      BY <1>2, <3>1, NowUsed DEF Shape, TaskShape
    <3> QED BY <1>2, <3>2, KindsFacts
  <2>2. Effect(h) = {}
    BY <1>13, <2>1, IdleEffect
  <2>3. ASSUME NEW g \in Handlers \ {h} PROVE ~Overlap(Effect(g), Effect(h)')
    <3>1. /\ Shape(handler[g]) /\ PathOK(handler[g]) /\ CallOK(handler[g])
          /\ handler[g].op \in Ops
      BY AllCallOK, ClaimsNow DEF ShapeInv, PathInv, ClaimsOK
    <3>2. \A e \in Effect(g) : e[1] \in RegionOf(handler[g])
      BY <3>1, Announces, AnnouncedIs
    <3>3. \A x \in ClaimsOf(handler[g]), q \in ClaimsOf(m) : ~Related(x, q)
      BY DEF LocInv, Apart
    <3>4. ClaimsOf(handler[g]) \subseteq Paths /\ ClaimsOf(m) \subseteq Paths
      BY ClaimsNow DEF ClaimsOK
    <3>5. \A x \in RegionOf(handler[g]) : x \notin RegionOf(m)
      BY <3>3, <3>4, RegionsApart
    <3> QED BY <1>5, <1>7, <3>2, <3>5 DEF Overlap
  <2>4. \A f : (\E e \in Effect(h)' : e[1] = f) <=> f = p
    <3> HIDE DEF p
    <3> QED BY <1>7
  <2>5. acked' = [f \in Files |-> IF \E e \in Effect(h)' : e[1] = f THEN Unknown
                                  ELSE acked[f]]
    <3> DEFINE A == acked'
               W(f) == IF \E e \in Effect(h)' : e[1] = f THEN Unknown ELSE acked[f]
    <3>1. A = [f \in Files |-> A[f]]
      BY <1>11
    <3>2. \A f \in Files : A[f] = W(f)
      BY <1>10, <2>4
    <3> HIDE DEF A, W
    <3>3. A = [f \in Files |-> W(f)]
      BY <3>1, <3>2
    <3> QED BY <3>3 DEF A, W
  <2>6. Effect(h)' # {}
    BY <1>7
  <2> QED BY <1>8, <1>9, <2>2, <2>3, <2>5, <2>6, BeginIs
<1> QED BY <1>12, <1>13

(* The loop over the entries of a directory ends early: what Delete has     *)
(* announced is in doubt.                                                   *)
LEMMA CutChildrenRegister ==
    ASSUME StoreInv, ShapeInv, NEW h \in Handlers, CutShort(h), CutChildren(h)
    PROVE  Register!Work
<1> DEFINE m == handler[h]
           k == handler'[h]
<1>1. Shape(m)
  BY DEF ShapeInv
<1>2. At(h, "children") /\ m.op = "delete" /\ acked' = acked
  BY DEF CutChildren
<1>3. /\ Alone(h) /\ SameCall(m, k) /\ k.val = Unknown
  BY <1>1, CutSame, CutChildrenFacts
<1>4. ~Misled(m) /\ ~Misled(k)
  BY <1>1, <1>2, <1>3 DEF Shape, Misled, SameCall
<1>5. Effect(h) = Below(m.path) \X {m.val} /\ Effect(h)' = Below(m.path) \X {Unknown}
  BY <1>2, <1>3, <1>4, AnnouncedIs DEF Announced, SameCall
<1>6. {e[1] : e \in Effect(h)} = Below(m.path)
  <2>1. \A e \in Effect(h) : e[1] \in Below(m.path)
    BY <1>5
  <2>2. \A f \in Below(m.path) : <<f, m.val>> \in Effect(h) /\ <<f, m.val>>[1] = f
    BY <1>5
  <2> QED BY <2>1, <2>2
<1>7. \A f : GetContent(f)' = GetContent(f)
  BY SameStores DEF CutShort
<1>8. \A g \in Handlers \ {h} : Effect(g)' = Effect(g)
  BY <1>3, EffectAlone DEF Alone
<1>9. Effect(h)' = {e[1] : e \in Effect(h)} \X {Unknown}
  BY <1>5, <1>6
<1>10. ASSUME NEW c \in Handlers
       PROVE  Effect(c)' \in {Effect(c), {e[1] : e \in Effect(c)} \X {Unknown}, {}}
  BY <1>8, <1>9
<1>11. written' = written
  BY DEF CutShort
<1> QED BY <1>2, <1>7, <1>10, <1>11, WorkIs

LEMMA CrashRegister ==
    ASSUME Crash
    PROVE  Register!Work
<1>1. /\ files' = files /\ objects' = objects /\ acked' = acked /\ written' = written
      /\ handler' = [h \in Handlers |-> IdleHandler]
  BY DEF Crash, ghosts
<1>2. \A f : GetContent(f)' = GetContent(f)
  BY <1>1, SameStores
<1>3. ASSUME NEW c \in Handlers PROVE Effect(c)' = {}
  <2>1. IdleRec(handler'[c]) /\ handler'[c].wr = NoWriter
    BY <1>1, IdleHandlers DEF IdleRec, IdleHandler
  <2>2. ~Misled(handler'[c])
    BY <2>1 DEF Misled, NoWriter
  <2> QED BY <2>1, <2>2, GoneEffect
<1> QED BY <1>1, <1>2, <1>3, WorkIs

LEMMA NextRegister ==
    ASSUME Exclusive, \A p \in Files : Safe(p, MaxFaults),
           TreesInv, TreesInv', AckedInv, AckedInv', [Next]_vars
    PROVE  [Register!AbsNext]_(Register!absVars)
<1>1. /\ StoreInv /\ ShapeInv /\ LocInv /\ DataInv /\ ParentInv
      /\ StoreInv' /\ ShapeInv' /\ LocInv' /\ PathInv /\ PathInv' /\ ManifestInv
      /\ InDoubt
  BY DEF TreesInv, ExclusiveInv, AckedInv
<1>2. \A p \in Files : Safe(p, faults)
  <2>1. faults \in 0..MaxFaults
    BY <1>1 DEF StoreInv, CountersOK
  <2> QED BY <2>1, SwiftPlusAssumption DEF Safe
<1>3. Sound
  BY <1>2 DEF Sound, Shallow, Safe, Files
<1>4. \A h \in Handlers : Keeps(handler[h], files, objects, segments)
  BY <1>3 DEF AckedInv, KeepsInv
<1>5. ASSUME NEW h \in Handlers,
             Call(h) \/ Step(h) \/ Conflict(h) \/ Fault(h) \/ CutShort(h)
      PROVE  Register!AbsNext
  <2>1. CASE Call(h)
    <3>1. Register!Begin(h) \/ Register!Work
      BY <1>1, <2>1, CallRegister
    <3> QED BY <3>1 DEF Register!AbsNext
  <2>2. CASE Finish(h)
    <3>1. Register!Success(h) \/ Register!Work
      BY <1>1, <1>2, <1>4, <2>2, FinishRegister
    <3> QED BY <3>1 DEF Register!AbsNext
  <2>3. CASE (Step(h) /\ ~Finish(h)) \/ Conflict(h) \/ Fault(h)
    <3>1. Register!Work
      BY <1>1, <2>3, StepRegister
    <3> QED BY <3>1 DEF Register!AbsNext
  <2>4. CASE CutShort(h)
    <3>1. Register!Begin(h) \/ Register!Work
      BY <1>1, <2>4, CutSegmentsRegister, CutChildrenRegister DEF CutShort
    <3> QED BY <3>1 DEF Register!AbsNext
  <2> QED BY <1>5, <2>1, <2>2, <2>3, <2>4
<1>6. CASE Crash
  BY <1>6, CrashRegister DEF Register!AbsNext
<1>7. CASE UNCHANGED vars
  BY <1>7, CalmRegister
<1> QED BY <1>5, <1>6, <1>7 DEF Next

(* Called by one caller at a time per path, the driver implements a         *)
(* register per file, for any handlers, paths and contents, when nothing    *)
(* fails, or, whatever fails, when no file is further below a directory     *)
(* that is deleted: PutContent, Commit, Move, Delete and the others, with   *)
(* all their statements and requests to two stores, change only the files   *)
(* they are about, show nothing that was not asked for, and leave what they *)
(* announced, or, after an error that they have missed, leave these files   *)
(* in doubt.                                                                *)
THEOREM DriverIsARegister ==
    Exclusive /\ (\A p \in Files : Safe(p, MaxFaults)) =>
        (Spec => ImplementsRegister)
<1> SUFFICES ASSUME Exclusive, \A p \in Files : Safe(p, MaxFaults)
             PROVE  Spec => ImplementsRegister
  OBVIOUS
<1>1. Init => Register!AbsInit
  BY InitRegister
<1>2. TreesInv /\ TreesInv' /\ AckedInv /\ AckedInv' /\ [Next]_vars
        => [Register!AbsNext]_(Register!absVars)
  BY NextRegister
<1>3. Spec => []TreesInv
  BY TreesStayWhole
<1>4. Spec => []AckedInv
  BY PromisesAreKept
<1> QED BY <1>1, <1>2, <1>3, <1>4, PTL DEF Spec, ImplementsRegister, Register!AbsSpec
=============================================================================
