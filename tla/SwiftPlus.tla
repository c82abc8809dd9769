----------------------------- MODULE SwiftPlus ------------------------------
(***************************************************************************)
(* The "swift-plus" storage driver of keppel-registry                      *)
(* (src/pkg/registry/swift-plus): a file tree whose directory entries are  *)
(* rows of the PostgreSQL table files, and whose larger contents are Swift *)
(* objects below a random location.  A file that is written piecemeal has  *)
(* one object per segment, recorded in the table segments, and a static    *)
(* large object (SLO) manifest that names them.                            *)
(*                                                                         *)
(* No transaction spans a driver call: each SQL statement and each Swift   *)
(* request is a step of its own.  A request handler is therefore modelled  *)
(* by the list "todo" of statements and requests that its current call has *)
(* still to make.  At every one of them the call may return an error, or   *)
(* the process may crash; the code has no cleanup on either, so both are   *)
(* the loss of the rest of the list (Fault).  The exception are the two    *)
(* loops over rows: they do not look at rows.Err(), so that an error after *)
(* some of the rows is lost, and the call goes on (CutShort).              *)
(***************************************************************************)
EXTENDS Integers, Sequences, FiniteSets, SequencesExt

CONSTANTS
    Handlers,    \* concurrent request handlers of the registry
    Paths,       \* all paths below the root
    Root,        \* "/"
    Parent,      \* path.Dir, a function on Paths
    Uploads,     \* files that the registry fills through Writer()
    Blobs,       \* files that it stores with PutContent() or Move()
    UploadDirs,  \* directories that it deletes with all they contain
    Exclusive,   \* TRUE: no two calls at a time on one path or its ancestors
    MaxLocs,     \* bound: random locations ever chosen
    MaxUnits,    \* bound: units of data ever passed to the driver
    MaxFaults,   \* bound: injected errors and crashes
    NoRow,       \* no such row in files
    Absent, Unknown, Unreadable   \* see GetContent and acked

Files == Uploads \cup Blobs
Dirs  == Paths \ Files

(* The path p and the directories above it, without the root: the least set *)
(* that has p in it, and with a path its parent.                            *)
Above ==
    [p \in Paths \cup {Root} |->
        {q \in Paths : \A S \in SUBSET (Paths \cup {Root}) :
            p \in S /\ (\A x \in S \ {Root} : Parent[x] \in S) => q \in S}]

ASSUME SwiftPlusAssumption ==
    /\ Root \notin Paths
    /\ IsFiniteSet(Paths)
    /\ Parent \in [Paths -> Dirs \cup {Root}]
    /\ Uploads \cap Blobs = {}
    /\ Files \subseteq Paths
    /\ UploadDirs \subseteq Dirs
    /\ Exclusive \in BOOLEAN
    /\ MaxLocs \in Nat /\ MaxUnits \in Nat /\ MaxFaults \in Nat
    /\ NoRow \notin [size : Int, data : Seq(Nat), loc : Nat]
    /\ \A v \in {Absent, Unknown, Unreadable} : v \notin Seq(Nat)
    /\ Absent # Unknown

Loc    == 1..MaxLocs       \* plusRandLocation(): never the same one twice
NoLoc  == 0                \* the empty string in files.location
Unit   == 1..MaxUnits      \* a buffer's worth of data, and its MD5 hash
NoUnit == 0

VARIABLES
    files,     \* table files: path -> row or NoRow
    segments,  \* table segments
    objects,   \* the objects in the Swift container
    handler,   \* per request handler: its call, what is left of it, its writer
    nextLoc,   \* locations chosen so far
    nextUnit,  \* units of data passed in so far
    faults,    \* injected errors and crashes so far
    acked,     \* ghost: per file, the contents that a completed call promises,
               \* Unknown during and after a failed call, if an error was lost
               \* (CutShort), and if calls overlap
    written,   \* ghost: what a PutContent was given, or a Commit has made a
               \* manifest of: the segments that its writer found and its own
    cancelled  \* ghost: locations of writers whose Cancel() succeeded

vars == <<files, segments, objects, handler, nextLoc, nextUnit, faults,
          acked, written, cancelled>>

(* Deliberately wrong: an empty file. *)
DirRow_NotNegative == [size |-> 0, data |-> <<>>, loc |-> NoLoc]

(* struct fileInfo: a negative size is a directory, data is kept inline. *)
DirRow == [size |-> -1, data |-> <<>>, loc |-> NoLoc]

(* Objects: number 0 is <location>/content, number n > 0 is segment n.  A   *)
(* manifest has a list of parts, other objects have data.                   *)
Plain(l, n, d)  == [loc |-> l, num |-> n, data |-> d, slo |-> FALSE,
                    parts |-> <<>>]
Manifest(l, ps) == [loc |-> l, num |-> 0, data |-> <<>>, slo |-> TRUE,
                    parts |-> ps]
PutObject(o) ==
    {x \in objects : x.loc # o.loc \/ x.num # o.num} \cup {o}

NoWriter == [loc |-> NoLoc]
IdleHandler ==
    [op |-> "idle", path |-> Root, dest |-> Root, val |-> Absent,
     todo |-> <<>>, wr |-> NoWriter]
HasWriter(h) == handler[h].wr.loc # NoLoc

Init ==
    /\ files = [p \in Paths |-> NoRow]
    /\ segments = {}
    /\ objects = {}
    /\ handler = [h \in Handlers |-> IdleHandler]
    /\ nextLoc = 0
    /\ nextUnit = 0
    /\ faults = 0
    /\ acked = [p \in Files |-> IF Exclusive THEN Absent ELSE Unknown]
    /\ written = {}
    /\ cancelled = {}

-----------------------------------------------------------------------------
(* Reading. *)

ObjectAt(l, n) == {o \in objects : o.loc = l /\ o.num = n}

(* Deliberately wrong: the manifest has no hashes. *)
PartFound_NoEtag(l, part) == ObjectAt(l, part.num) # {}

(* The manifest has a hash for each segment.  Swift compares it with the    *)
(* segment it finds, when it accepts the manifest and when it serves it.    *)
PartFound(l, part) == \E o \in ObjectAt(l, part.num) : o.data = <<part.unit>>

SwiftReader(l) ==
    LET Object(n) == CHOOSE o \in ObjectAt(l, n) : TRUE
        parts == Object(0).parts
    IN  IF ObjectAt(l, 0) = {} THEN Unreadable
        ELSE IF ~Object(0).slo THEN Object(0).data
        ELSE IF \A i \in DOMAIN parts : PartFound(l, parts[i])
             THEN FlattenSeq([i \in DOMAIN parts |-> Object(parts[i].num).data])
             ELSE Unreadable

(* Absent is a PathNotFoundError because of the row, Unreadable is an error *)
(* from Swift.                                                              *)
GetContent(p) ==
    LET fi == files[p]
    IN  IF fi = NoRow \/ fi.size < 0 THEN Absent
        ELSE IF fi.size = 0 THEN <<>>
        ELSE IF fi.data # <<>> THEN fi.data
        ELSE SwiftReader(fi.loc)

(* Reader(p, offset), in units of data: an offset beyond the end gives an   *)
(* empty reader without a look at Swift, or from Swift (416).               *)
Reader(p, offset) ==
    LET fi == files[p]
        From(c) == SubSeq(c, offset + 1, Len(c))
    IN  IF fi = NoRow \/ fi.size < 0 THEN Absent
        ELSE IF offset > fi.size THEN <<>>
        ELSE IF fi.loc = NoLoc THEN From(fi.data)
        ELSE LET c == SwiftReader(fi.loc)
             IN  IF c = Unreadable THEN Unreadable ELSE From(c)

(* Stat(p): the root always exists. *)
Stat(p) == IF p = Root THEN DirRow ELSE files[p]

(* List(p): whether or not there is a row for p itself. *)
List(p) == {q \in Paths : Parent[q] = p /\ files[q] # NoRow}

SegmentRows(l) ==
    {[num |-> s.num, unit |-> s.unit] : s \in {t \in segments : t.loc = l}}

(* Deliberately wrong: ORDER BY number DESC. *)
readSegmentInfo_Unordered(l) ==
    CHOOSE rows \in SetToSeqs(SegmentRows(l)) :
        \A i, j \in DOMAIN rows : i < j => rows[i].num > rows[j].num

(* Deliberately wrong: a writer for appending begins with segment 1. *)
readSegmentInfo_None(l) == <<>>

(* SELECT ... FROM segments WHERE location = $1 ORDER BY number *)
readSegmentInfo(l) ==
    CHOOSE rows \in SetToSeqs(SegmentRows(l)) :
        \A i, j \in DOMAIN rows : i < j => rows[i].num < rows[j].num

-----------------------------------------------------------------------------
(* The statements and requests that calls are made of. *)

Task(do, p, l, row) == [do |-> do, path |-> p, loc |-> l, row |-> row]
Return == Task("return", Root, NoLoc, NoRow)

(* deleteBlobs and swiftInterface.DeleteAll: list the location, delete what *)
(* was listed.                                                              *)
deleteBlobs(l) ==
    IF l = NoLoc THEN <<>> ELSE <<Task("list", Root, l, NoRow)>>

(* Deliberately wrong: only the rows are deleted. *)
deleteDownwards_NoBlobs(p, fi) ==
    (IF fi.size < 0 THEN <<Task("children", p, NoLoc, NoRow)>> ELSE <<>>)
    \o <<Task("unlink", p, NoLoc, NoRow)>>

deleteDownwards(p, fi) ==
    deleteBlobs(fi.loc)
    \o (IF fi.size < 0 THEN <<Task("children", p, NoLoc, NoRow)>> ELSE <<>>)
    \o <<Task("unlink", p, NoLoc, NoRow)>>

(* One INSERT per directory, from the bottom to the top. *)
mkdirAll(p) ==
    IF p = Root THEN <<>> ELSE <<Task("mkdir", p, NoLoc, NoRow)>>

(* Deliberately wrong: no mkdirAll. *)
writeFileInfo_NoDirs(p, fi) == <<Task("upsert", p, NoLoc, fi)>>

writeFileInfo(p, fi) ==
    <<Task("upsert", p, NoLoc, fi)>> \o mkdirAll(Parent[p])

(* bufferedWriter.Flush: plusWriter.Write of what is buffered. *)
Flush(w) ==
    IF w.buf = NoUnit THEN <<>>
    ELSE <<Task("putsegment", Root, w.loc, NoRow),
           Task("recordsegment", Root, w.loc, NoRow)>>

-----------------------------------------------------------------------------
(* Calls.  The first statement of a call is part of the action. *)

Related(p, q) == p \in Above[q] \/ q \in Above[p]

(* What handler h is working on. *)
Claims(h) ==
    {handler[h].path, handler[h].dest, IF HasWriter(h) THEN handler[h].wr.path
                                       ELSE Root} \ {Root}

MayCall(h, ps) ==
    /\ handler[h].op = "idle"
    /\ ~HasWriter(h)
    /\ Exclusive => \A g \in Handlers \ {h} :
                       \A p \in ps, q \in Claims(g) : ~Related(p, q)

(* Handler h enters a call and has the given tasks to do. *)
Enter(h, op, p, d, v, todo) ==
    [handler[h] EXCEPT !.op = op, !.path = p, !.dest = d, !.val = v,
                       !.todo = todo \o <<Return>>]

Below(p) == {q \in Files : p \in Above[q]}
Forget(ps) == [p \in Files |-> IF p \in ps THEN Unknown ELSE acked[p]]

(* Deliberately wrong: the row is created empty, and completed at the end. *)
PutContent_EmptyFirst(h, p, large) ==
    /\ MayCall(h, {p})
    /\ nextUnit < MaxUnits /\ nextLoc < MaxLocs
    /\ nextUnit' = nextUnit + 1
    /\ nextLoc' = nextLoc + 1
    /\ LET row == [size |-> 1, data |-> <<>>, loc |-> nextLoc']
       IN  handler' = [handler EXCEPT ![h] =
             Enter(h, "put", p, Root, <<nextUnit'>>,
                   writeFileInfo(p, [row EXCEPT !.size = 0])
                   \o <<Task("upload", Root, nextLoc', row)>>
                   \o writeFileInfo(p, row))]
    /\ written' = written \cup {<<nextUnit'>>}
    /\ acked' = Forget({p})
    /\ UNCHANGED <<files, segments, objects, faults, cancelled>>

(* Deliberately wrong: a file that is overwritten keeps its location. *)
PutContent_SameLocation(h, p, large) ==
    /\ MayCall(h, {p})
    /\ nextUnit < MaxUnits /\ nextLoc < MaxLocs
    /\ nextUnit' = nextUnit + 1
    /\ LET keep == files[p] # NoRow /\ files[p].loc # NoLoc
           row == [size |-> 1, data |-> <<>>,
                   loc |-> IF keep THEN files[p].loc ELSE nextLoc + 1]
       IN  /\ nextLoc' = IF keep THEN nextLoc ELSE nextLoc + 1
           /\ handler' = [handler EXCEPT ![h] =
                Enter(h, "put", p, Root, <<nextUnit'>>, writeFileInfo(p, row)
                      \o <<Task("upload", Root, row.loc, row)>>)]
    /\ written' = written \cup {<<nextUnit'>>}
    /\ acked' = Forget({p})
    /\ UNCHANGED <<files, segments, objects, faults, cancelled>>

(* PutContent(p, contents): contents above 256 bytes go to Swift. *)
PutContent(h, p, large) ==
    /\ MayCall(h, {p})
    /\ nextUnit < MaxUnits
    /\ nextUnit' = nextUnit + 1
    /\ LET old == IF files[p] = NoRow THEN <<>> ELSE deleteBlobs(files[p].loc)
           contents == <<nextUnit'>>
           inline == [size |-> 1, data |-> contents, loc |-> NoLoc]
           row == [size |-> 1, data |-> <<>>, loc |-> nextLoc']
       IN  /\ \/ /\ ~large
                 /\ nextLoc' = nextLoc
                 /\ handler' = [handler EXCEPT ![h] =
                      Enter(h, "put", p, Root, contents,
                            old \o writeFileInfo(p, inline))]
              \/ /\ large
                 /\ nextLoc < MaxLocs
                 /\ nextLoc' = nextLoc + 1
                 /\ handler' = [handler EXCEPT ![h] =
                      Enter(h, "put", p, Root, contents,
                            old \o writeFileInfo(p, row)
                            \o <<Task("upload", Root, nextLoc', row)>>)]
           /\ written' = written \cup {contents}
    /\ acked' = Forget({p})
    /\ UNCHANGED <<files, segments, objects, faults, cancelled>>

(* Deliberately wrong: the target is deleted after the rename. *)
Move_TargetLast(h, s, d) ==
    /\ MayCall(h, {s, d})
    /\ files[s] # NoRow
    /\ handler' = [handler EXCEPT ![h] =
         Enter(h, "move", s, d, acked[s],
               <<Task("rename", s, NoLoc, NoRow),
                 Task("target", d, NoLoc, NoRow)>> \o mkdirAll(Parent[d]))]
    /\ acked' = Forget({s, d})
    /\ UNCHANGED <<files, segments, objects, nextLoc, nextUnit, faults,
                   written, cancelled>>

(* Move(s, d): an error of the first query other than "no rows" is dropped  *)
(* by the code, and the call goes on.                                       *)
Move(h, s, d) ==
    /\ MayCall(h, {s, d})
    /\ \/ files[s] # NoRow /\ UNCHANGED faults
       \/ files[s] = NoRow /\ faults < MaxFaults /\ faults' = faults + 1
    /\ handler' = [handler EXCEPT ![h] =
         Enter(h, "move", s, d, acked[s],
               <<Task("target", d, NoLoc, NoRow),
                 Task("rename", s, NoLoc, NoRow)>> \o mkdirAll(Parent[d]))]
    /\ acked' = Forget({s, d})
    /\ UNCHANGED <<files, segments, objects, nextLoc, nextUnit, written,
                   cancelled>>

(* Delete(p) of a path without a row has nothing to do, and answers that    *)
(* nothing failed; nothing is concluded from that.                          *)
Delete(h, p) ==
    /\ MayCall(h, {p})
    /\ files[p] # NoRow
    /\ handler' = [handler EXCEPT ![h] =
         Enter(h, "delete", p, Root, Absent, deleteDownwards(p, files[p]))]
    /\ acked' = Forget(Below(p))
    /\ UNCHANGED <<files, segments, objects, nextLoc, nextUnit, faults,
                   written, cancelled>>

(* Writer(p, append), newPlusWriter: h gets a writer when the call returns. *)
Writer(h, p, append) ==
    /\ MayCall(h, {p})
    /\ LET fi == files[p]
           exists == append /\ fi # NoRow
           fresh == ~exists \/ fi.loc = NoLoc
           location == IF fresh THEN nextLoc + 1 ELSE fi.loc
           tasks == (IF ~append /\ fi # NoRow THEN deleteDownwards(p, fi)
                     ELSE <<>>)
                    \o (IF exists
                        THEN <<Task("readsegments", Root, location, NoRow)>>
                        ELSE <<>>)
           w == [path |-> p, loc |-> location, segs |-> <<>>, buf |-> NoUnit,
                 err |-> FALSE, committed |-> FALSE, lost |-> FALSE,
                 base |-> IF append THEN acked[p] ELSE Absent]
       IN  /\ fresh => nextLoc < MaxLocs
           /\ nextLoc' = IF fresh THEN nextLoc + 1 ELSE nextLoc
           /\ handler' = [handler EXCEPT ![h] =
                [Enter(h, IF append THEN "append" ELSE "create", p, Root,
                       Absent, tasks) EXCEPT !.wr = w]]
    /\ acked' = IF append THEN acked ELSE Forget({p})
    /\ UNCHANGED <<files, segments, objects, nextUnit, faults, written,
                   cancelled>>

(* Handler h calls its writer.  After a failed flush the bufio.Writer       *)
(* returns the same error for ever and the plusWriter is not called again.  *)
MayUse(h) ==
    /\ HasWriter(h)
    /\ handler[h].op = "idle"
    /\ ~handler[h].wr.err

(* bufferedWriter.Write: fill the buffer, after flushing a full one. *)
Write(h) ==
    /\ MayUse(h)
    /\ ~handler[h].wr.committed
    /\ nextUnit < MaxUnits
    /\ nextUnit' = nextUnit + 1
    /\ handler' = [handler EXCEPT ![h] =
         Enter(h, "write", Root, Root, <<nextUnit'>>, Flush(handler[h].wr))]
    /\ UNCHANGED <<files, segments, objects, nextLoc, faults, acked, written,
                   cancelled>>

(* Commit, or Close of a writer that was not committed. *)
Commit(h, op) ==
    /\ MayUse(h)
    /\ ~handler[h].wr.committed
    /\ LET w == handler[h].wr
       IN  /\ handler' = [handler EXCEPT ![h] =
                Enter(h, op, Root, Root, Absent,
                      Flush(w) \o <<Task("manifest", w.path, w.loc, NoRow)>>)]
           /\ acked' = Forget({w.path})
    /\ UNCHANGED <<files, segments, objects, nextLoc, nextUnit, faults,
                   written, cancelled>>

(* Close of a committed writer. *)
Close(h) ==
    /\ MayUse(h)
    /\ handler[h].wr.committed
    /\ handler' = [handler EXCEPT ![h] = IdleHandler]
    /\ UNCHANGED <<files, segments, objects, nextLoc, nextUnit, faults, acked,
                   written, cancelled>>

(* bufferedWriter.Cancel and plusWriter.Cancel: Delete(w.fullPath). *)
Cancel(h) ==
    /\ MayUse(h)
    /\ LET w == handler[h].wr
       IN  /\ handler' = [handler EXCEPT ![h] =
                Enter(h, "cancel", Root, Root, Absent,
                      Flush(w) \o <<Task("delete", w.path, NoLoc, NoRow)>>)]
           /\ acked' = Forget({w.path})
    /\ UNCHANGED <<files, segments, objects, nextLoc, nextUnit, faults,
                   written, cancelled>>

(* The caller gives up a writer whose buffer is in error. *)
GiveUp(h) ==
    /\ HasWriter(h)
    /\ handler[h].op = "idle"
    /\ handler[h].wr.err
    /\ handler' = [handler EXCEPT ![h] = IdleHandler]
    /\ UNCHANGED <<files, segments, objects, nextLoc, nextUnit, faults, acked,
                   written, cancelled>>

-----------------------------------------------------------------------------
(* Steps within a call. *)

At(h, do) == handler[h].todo # <<>> /\ Head(handler[h].todo).do = do
Now(h)    == Head(handler[h].todo)
(* The head of the list is done and replaced by the given tasks. *)
Then(h, tasks) ==
    [handler[h] EXCEPT !.todo = tasks \o Tail(handler[h].todo)]
Continue(h, tasks) == handler' = [handler EXCEPT ![h] = Then(h, tasks)]

ghosts == <<acked, written, cancelled>>
bounds == <<nextLoc, nextUnit, faults>>

ListObjects(h) ==
    /\ At(h, "list")
    /\ LET l == Now(h).loc
       IN  Continue(h, <<[do |-> "bulkdelete", loc |-> l, nums |->
                            {o.num : o \in {x \in objects : x.loc = l}}]>>)
    /\ UNCHANGED <<files, segments, objects, bounds, ghosts>>

BulkDelete(h) ==
    /\ At(h, "bulkdelete")
    /\ objects' = {o \in objects : o.loc # Now(h).loc \/ o.num \notin Now(h).nums}
    /\ Continue(h, <<>>)
    /\ UNCHANGED <<files, segments, bounds, ghosts>>

(* SELECT the rows of a directory, then deleteDownwards for each of them. *)
deleteEach(order) ==
    FlattenSeq([i \in DOMAIN order |->
                   deleteDownwards(order[i], files[order[i]])])
DeleteChildren(h) ==
    /\ At(h, "children")
    /\ \E order \in SetToSeqs(List(Now(h).path)) : Continue(h, deleteEach(order))
    /\ UNCHANGED <<files, segments, objects, bounds, ghosts>>

DeleteRow(h) ==
    /\ At(h, "unlink")
    /\ files' = [files EXCEPT ![Now(h).path] = NoRow]
    /\ Continue(h, <<>>)
    /\ UNCHANGED <<segments, objects, bounds, ghosts>>

UpsertRow(h) ==
    /\ At(h, "upsert")
    /\ files' = [files EXCEPT ![Now(h).path] = Now(h).row]
    /\ Continue(h, <<>>)
    /\ UNCHANGED <<segments, objects, bounds, ghosts>>

(* INSERT ... ON CONFLICT DO NOTHING, then the next directory up. *)
MakeDir(h) ==
    /\ At(h, "mkdir")
    /\ LET d == Now(h).path
       IN  /\ files' = [files EXCEPT ![d] = IF @ = NoRow THEN DirRow ELSE @]
           /\ Continue(h, mkdirAll(Parent[d]))
    /\ UNCHANGED <<segments, objects, bounds, ghosts>>

Upload(h) ==
    /\ At(h, "upload")
    /\ objects' = PutObject(Plain(Now(h).loc, 0, handler[h].val))
    /\ Continue(h, <<>>)
    /\ UNCHANGED <<files, segments, bounds, ghosts>>

(* Move reads, and deletes, what is at its target. *)
ReadTarget(h) ==
    /\ At(h, "target")
    /\ LET d == Now(h).path
       IN  Continue(h, IF files[d] = NoRow THEN <<>>
                       ELSE deleteDownwards(d, files[d]))
    /\ UNCHANGED <<files, segments, objects, bounds, ghosts>>

(* UPDATE files SET dirname, basename: it affects no row when the source is *)
(* gone, and violates the primary key when the target has reappeared.       *)
RenameConflict(h) ==
    At(h, "rename") /\ files[Now(h).path] # NoRow
                    /\ files[handler[h].dest] # NoRow
Rename(h) ==
    /\ At(h, "rename")
    /\ ~RenameConflict(h)
    /\ LET s == Now(h).path
       IN  files' = IF files[s] = NoRow THEN files
                    ELSE [files EXCEPT ![s] = NoRow,
                                       ![handler[h].dest] = files[s]]
    /\ Continue(h, <<>>)
    /\ UNCHANGED <<segments, objects, bounds, ghosts>>

ReadSegments(h) ==
    /\ At(h, "readsegments")
    /\ handler' = [handler EXCEPT ![h] =
         [Then(h, <<>>) EXCEPT !.wr.segs = readSegmentInfo(Now(h).loc)]]
    /\ UNCHANGED <<files, segments, objects, bounds, ghosts>>

(* plusWriter.Write: the number after the last one, upload, remember ... *)
PutSegment(h) ==
    /\ At(h, "putsegment")
    /\ LET w == handler[h].wr
           num == IF w.segs = <<>> THEN 1 ELSE Last(w.segs).num + 1
       IN  /\ objects' = PutObject(Plain(w.loc, num, <<w.buf>>))
           /\ handler' = [handler EXCEPT ![h] =
                [Then(h, <<>>) EXCEPT
                    !.wr.segs = Append(@, [num |-> num, unit |-> w.buf])]]
    /\ UNCHANGED <<files, segments, bounds, ghosts>>

(* ... and INSERT INTO segments, which fails on a number that was taken. *)
SegmentConflict(h) ==
    /\ At(h, "recordsegment")
    /\ \E s \in segments : /\ s.loc = handler[h].wr.loc
                           /\ s.num = Last(handler[h].wr.segs).num
RecordSegment(h) ==
    /\ At(h, "recordsegment")
    /\ ~SegmentConflict(h)
    /\ LET s == Last(handler[h].wr.segs)
       IN  segments' = segments \cup {[loc |-> handler[h].wr.loc,
                                       num |-> s.num, unit |-> s.unit]}
    /\ handler' = [handler EXCEPT ![h] = [Then(h, <<>>) EXCEPT
                                             !.wr.buf = NoUnit]]
    /\ UNCHANGED <<files, objects, bounds, ghosts>>

(* plusWriter.Commit: WriteSLO, then the row with the size and location. *)
Contents(w) == [i \in DOMAIN w.segs |-> w.segs[i].unit]
ManifestRefused(h) ==
    /\ At(h, "manifest")
    /\ LET w == handler[h].wr
       IN  \E i \in DOMAIN w.segs : ~PartFound(w.loc, w.segs[i])
WriteSLO(h) ==
    /\ At(h, "manifest")
    /\ ~ManifestRefused(h)
    /\ LET w == handler[h].wr
       IN  /\ objects' = PutObject(Manifest(w.loc, w.segs))
           /\ written' = written \cup {Contents(w)}
           /\ Continue(h, writeFileInfo(w.path,
                [size |-> Len(w.segs), data |-> <<>>, loc |-> w.loc]))
    /\ UNCHANGED <<files, segments, bounds, acked, cancelled>>

(* plusWriter.Cancel: the read of Delete(w.fullPath). *)
ReadForDelete(h) ==
    /\ At(h, "delete")
    /\ LET p == Now(h).path
       IN  Continue(h, IF files[p] = NoRow THEN <<>>
                       ELSE deleteDownwards(p, files[p]))
    /\ UNCHANGED <<files, segments, objects, bounds, ghosts>>

(* What the writer of h holds, the buffer included. *)
Stored(h) ==
    LET w == handler[h].wr
    IN  Contents(w) \o (IF w.buf = NoUnit \/ At(h, "recordsegment") THEN <<>>
                        ELSE <<w.buf>>)

(* The writer of h does not know all segments at its location. *)
Lost(h) == HasWriter(h) /\ handler[h].wr.lost

(* What h's call will have made of which files, if it succeeds; or what h   *)
(* may make unreadable.                                                     *)
Effect(h) ==
    LET me == handler[h]
    IN  IF Lost(h) THEN {<<me.wr.path, Unknown>>}
        ELSE CASE me.op = "put" -> {<<me.path, me.val>>}
               [] me.op = "move" -> {<<me.path, Absent>>, <<me.dest, me.val>>}
               [] me.op = "delete" -> Below(me.path) \X {me.val}
               [] me.op = "create" -> {<<me.path, Absent>>}
               [] me.op \in {"commit", "close"} -> {<<me.wr.path, Stored(h)>>}
               [] me.op = "cancel" -> {<<me.wr.path, Absent>>}
               [] OTHER -> {}

(* The call returns without an error.  A writer is given up by its caller   *)
(* when it was closed or cancelled.                                         *)
Finish(h) ==
    /\ At(h, "return")
    /\ LET me == handler[h]
           w == IF me.op = "write" THEN [me.wr EXCEPT !.buf = me.val[1]]
                ELSE IF me.op = "commit" THEN [me.wr EXCEPT !.committed = TRUE]
                ELSE me.wr
       IN  /\ handler' = [handler EXCEPT ![h] =
                IF me.op \in {"create", "append", "write", "commit"}
                THEN [IdleHandler EXCEPT !.wr = w] ELSE IdleHandler]
           /\ acked' = [p \in Files |->
                LET vs == {v[2] : v \in {e \in Effect(h) : e[1] = p}}
                IN  IF Exclusive /\ vs # {} THEN CHOOSE v \in vs : TRUE
                    ELSE acked[p]]
           /\ cancelled' = IF me.op = "cancel" THEN cancelled \cup {me.wr.loc}
                           ELSE cancelled
    /\ UNCHANGED <<files, segments, objects, bounds, written>>

-----------------------------------------------------------------------------
(* Errors. *)

(* The call of h returns an error: no new writer, no more calls of a writer *)
(* that was cancelled, and a writer whose flush failed stays in error.      *)
ReturnError(h) ==
    LET me == handler[h]
        flushing == Now(h).do \in {"putsegment", "recordsegment"}
    IN  handler' = [handler EXCEPT ![h] =
          IF HasWriter(h) /\ me.op \notin {"create", "append", "cancel"}
          THEN [IdleHandler EXCEPT !.wr = [me.wr EXCEPT !.err = flushing]]
          ELSE IdleHandler]

(* A unique index refuses the statement, or Swift the manifest. *)
Conflict(h) ==
    /\ RenameConflict(h) \/ SegmentConflict(h) \/ ManifestRefused(h)
    /\ ReturnError(h)
    /\ UNCHANGED <<files, segments, objects, bounds, ghosts>>

(* A statement or request fails, or is done and its answer lost; a bulk     *)
(* delete may have been carried out in part.                                *)
Fault(h) ==
    /\ handler[h].todo # <<>>
    /\ faults < MaxFaults
    /\ faults' = faults + 1
    /\ ReturnError(h)
    /\ \/ objects' = objects
       \/ /\ At(h, "bulkdelete")
          /\ \E gone \in SUBSET {o \in objects : /\ o.loc = Now(h).loc
                                                 /\ o.num \in Now(h).nums} :
               objects' = objects \ gone
    /\ UNCHANGED <<files, segments, nextLoc, nextUnit, ghosts>>

(* Neither readSegmentInfo nor deleteDownwards asks for rows.Err().  When   *)
(* the connection breaks or the context ends between two rows, the loop     *)
(* ends as after the last one and the call goes on with what it has got: a  *)
(* writer with the first of the segments, ...                               *)
CutSegments(h) ==
    /\ At(h, "readsegments")
    /\ LET rows == readSegmentInfo(Now(h).loc)
       IN  \E n \in 0..Len(rows) - 1 :
             handler' = [handler EXCEPT ![h] = [Then(h, <<>>) EXCEPT
                !.wr.segs = SubSeq(rows, 1, n), !.wr.lost = TRUE,
                !.wr.base = Unknown]]
    /\ acked' = Forget({handler[h].wr.path})

(* ... and Delete (other calls meet no directories) with some of the rows.  *)
CutChildren(h) ==
    /\ At(h, "children")
    /\ handler[h].op = "delete"
    /\ \E some \in SUBSET List(Now(h).path) : \E order \in SetToSeqs(some) :
         /\ some # List(Now(h).path)
         /\ handler' = [handler EXCEPT ![h] =
              [Then(h, deleteEach(order)) EXCEPT !.val = Unknown]]
    /\ UNCHANGED acked

CutShort(h) ==
    /\ faults < MaxFaults
    /\ faults' = faults + 1
    /\ CutSegments(h) \/ CutChildren(h)
    /\ UNCHANGED <<files, segments, objects, nextLoc, nextUnit, written,
                   cancelled>>

(* The registry process crashes: all handlers and their writers are gone. *)
Crash ==
    /\ faults < MaxFaults
    /\ faults' = faults + 1
    /\ handler' = [h \in Handlers |-> IdleHandler]
    /\ UNCHANGED <<files, segments, objects, nextLoc, nextUnit, ghosts>>

-----------------------------------------------------------------------------
Call(h) ==
    \/ \E p \in Blobs, large \in BOOLEAN : PutContent(h, p, large)
    \/ \E s \in Uploads, d \in Blobs : Move(h, s, d)
    \/ \E p \in Files \cup UploadDirs : Delete(h, p)
    \/ \E p \in Uploads, append \in BOOLEAN : Writer(h, p, append)
    \/ Write(h) \/ Commit(h, "commit") \/ Commit(h, "close") \/ Close(h)
    \/ Cancel(h) \/ GiveUp(h)

Step(h) ==
    \/ ListObjects(h) \/ BulkDelete(h) \/ DeleteChildren(h) \/ DeleteRow(h)
    \/ UpsertRow(h) \/ MakeDir(h) \/ Upload(h)
    \/ ReadTarget(h) \/ Rename(h)
    \/ ReadSegments(h) \/ PutSegment(h) \/ RecordSegment(h)
    \/ WriteSLO(h) \/ ReadForDelete(h) \/ Finish(h)

Next ==
    \/ \E h \in Handlers :
         Call(h) \/ Step(h) \/ Conflict(h) \/ Fault(h) \/ CutShort(h)
    \/ Crash

Spec == Init /\ [][Next]_vars

-----------------------------------------------------------------------------
(* Properties. *)

Tasks(h) == {handler[h].todo[i] : i \in DOMAIN handler[h].todo}
Contentses == UNION {[1..n -> Unit] : n \in 0..MaxUnits}

(* The type invariant: rows, segments, objects and writers are as the SQL   *)
(* schema and the structs fileInfo, plusSegment and plusWriter say.         *)
TypeOK ==
    /\ \A p \in Paths : files[p] # NoRow =>
         /\ files[p].size \in -1..MaxUnits
         /\ files[p].loc \in 0..nextLoc
         /\ p \in Dirs <=> files[p].size = -1
         /\ files[p].data # <<>> => files[p].loc = NoLoc
    /\ segments \subseteq [loc : Loc, num : 1..MaxUnits, unit : Unit]
    /\ \A s, t \in segments : s.loc = t.loc /\ s.num = t.num => s = t
    /\ \A o \in objects : o.loc \in 1..nextLoc /\ o.num \in 0..MaxUnits
    /\ \A h \in Handlers : HasWriter(h) =>
         /\ handler[h].wr.path \in Uploads
         /\ handler[h].wr.loc \in 1..nextLoc
         /\ handler[h].wr.buf \in Unit \cup {NoUnit}
    /\ acked \in [Files -> Contentses \cup {Absent, Unknown}]

(* What was acknowledged for the file p is what GetContent, Reader (from    *)
(* any offset) and Stat say.                                                *)
ReadsAsAcked(p) ==
    /\ acked[p] # Unknown => GetContent(p) = acked[p]
    /\ acked[p] = Absent => Stat(p) = NoRow /\ Reader(p, 0) = Absent
    /\ acked[p] \notin {Absent, Unknown} =>
         /\ Stat(p).size = Len(acked[p])
         /\ \A i \in 0..Len(acked[p]) + 1 :
              Reader(p, i) = SubSeq(acked[p], i + 1, Len(acked[p]))

(* The file p is deleted only together with the directory it lies in.       *)
Direct(p) == \A d \in UploadDirs : d \in Above[p] => Parent[p] = d

(* What PutContent, Commit, Move, Delete or Cancel has acknowledged for a   *)
(* file can be read until the next call on that file: calls on other files, *)
(* their errors and crashes in the middle of them, do no harm, although     *)
(* files share directories and contents share a container.  After a failure *)
(* this is so only for files that lie directly in the directories that are  *)
(* deleted, as all uploads must: a directory further down may have lost its *)
(* row, and Delete does not find what is in it (see DeleteIsRecursive).     *)
AcknowledgedIsReadable ==
    \A p \in Files :
        faults = 0 \/ (Direct(p) /\ \A q \in Uploads : Direct(q)) =>
            ReadsAsAcked(p)

(* A writer that was opened for appending has found all that was            *)
(* acknowledged for the file, in the order in which it was written, unless  *)
(* the loop over the segments was cut short.                                *)
AppendExtends ==
    \A h \in Handlers :
        /\ HasWriter(h)
        /\ handler[h].op # "append"
        /\ handler[h].wr.base \notin {Absent, Unknown}
        => IsPrefix(handler[h].wr.base, Contents(handler[h].wr))

(* As long as nothing fails, a directory in which List finds something is   *)
(* one that Stat knows, or its mkdirAll is still on its way, so every file  *)
(* can be reached from the root.                                            *)
NoOrphanRow ==
    faults = 0 =>
        \A d \in Dirs \cup {Root} :
            List(d) # {} /\ Stat(d) = NoRow =>
                \E h \in Handlers : \E t \in Tasks(h) :
                    t.do = "mkdir" /\ t.path = d

LocsOf(h) ==
    {handler[h].wr.loc} \cup {t.loc : t \in Tasks(h)}

(* As long as nothing fails, every object in Swift belongs to a file, to an *)
(* open writer or to a call in progress, or to a writer that was cancelled  *)
(* (see CancelRemovesContent): overwriting, moving and deleting files       *)
(* leaves no garbage.                                                       *)
NoGarbage ==
    faults = 0 =>
        \A o \in objects :
            \/ o.loc \in cancelled
            \/ \E p \in Paths : files[p] # NoRow /\ files[p].loc = o.loc
            \/ \E h \in Handlers : o.loc \in LocsOf(h)

Register == INSTANCE FileRegister WITH
    Callers <- Handlers, value <- acked, offered <- written,
    content <- [p \in Files |-> GetContent(p)],
    effect <- [h \in Handlers |-> Effect(h)]

(* Called by one caller at a time per file, the driver implements a         *)
(* register per file, although each call is a sequence of statements and    *)
(* requests to two stores: the contents of a file change only while a call  *)
(* on it is in progress, a half-done call shows nothing that was not asked  *)
(* for, and a call that succeeds leaves exactly what it announced, or, when *)
(* it has missed an error, leaves its files in doubt.                       *)
ImplementsRegister == Register!AbsSpec

(* Even when calls on one file overlap in any way, and whatever fails, a    *)
(* file that can be read holds exactly what one PutContent was given or one *)
(* Commit has put together, never parts of two versions: segment numbers    *)
(* may collide, but the hashes in the manifest make Swift refuse it then.   *)
(* (A Commit puts together what its writer has written and the segments     *)
(* that the writer found, whoever wrote them and committed or not.)         *)
WholeContents ==
    \A p \in Files :
        GetContent(p) \notin {Absent, Unreadable} => GetContent(p) \in written

(* The FileWriter interface that plusWriter implements                      *)
(* (vendor/.../storage/driver/storagedriver.go:99) says: "Cancel removes    *)
(* any written content from this FileWriter."                               *)
CancelRemovesContent == \A o \in objects : o.loc \notin cancelled

(* The StorageDriver interface that plusDriver implements                   *)
(* (vendor/.../storage/driver/storagedriver.go:79) says: "Delete            *)
(* recursively deletes all objects stored at "path" and its subpaths."      *)
DeleteIsRecursive ==
    \A h \in Handlers : handler[h].op = "delete" /\ At(h, "return") =>
        \A q \in Paths : handler[h].path \in Above[q] => files[q] = NoRow
=============================================================================
