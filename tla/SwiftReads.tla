----------------------------- MODULE SwiftReads -----------------------------
(***************************************************************************)
(* Reading from the swift-plus storage driver while others write.          *)
(*                                                                         *)
(* GetContent, Reader and URLFor first read the file's row and then have   *)
(* Swift deliver what the row points to, without a lock or a transaction:  *)
(* any number of the writers' steps fit in between.  Swift itself delivers *)
(* a large object segment by segment.  A temporary URL is handed to a      *)
(* client, who follows it at any later time without asking the registry.   *)
(* (Stat and List are one statement each, and operators of SwiftPlus.)     *)
(***************************************************************************)
EXTENDS SwiftPlus

CONSTANTS
    Readers,         \* concurrent readers
    MaxOffset,       \* bound: offsets that are passed to Reader()
    TempURLMethods,  \* swiftInterface.TempURLMethods, empty without a key
    Unsupported      \* result: ErrUnsupportedMethod

ASSUME SwiftReadsAssumption == MaxOffset \in Nat

VARIABLE reader  \* per reader: where it is and what it has found so far

readVars == <<reader, vars>>

(* Ghosts: path is forgotten once a call has touched the file; base is what *)
(* was acknowledged for it when a URL was made.                             *)
IdleReader ==
    [pc |-> "idle", op |-> "none", path |-> Root, off |-> 0, loc |-> NoLoc,
     parts |-> <<>>, res |-> Absent, base |-> Unknown]

ReadInit == Init /\ reader = [r \in Readers |-> IdleReader]

From(c, offset) == SubSeq(c, offset + 1, Len(c))

-----------------------------------------------------------------------------
(* The first step: SELECT ... FROM files, and what follows from the row.    *)

Begin(op, p, offset) ==
    [IdleReader EXCEPT !.op = op, !.path = p, !.off = offset,
                       !.base = IF op = "url" THEN acked[p] ELSE Unknown]
Become(r, rd) == reader' = [reader EXCEPT ![r] = rd]
Answer(r, rd, res) ==
    Become(r, [rd EXCEPT !.pc = "done", !.loc = NoLoc, !.parts = <<>>,
                         !.res = res])
Locate(r, rd, pc, l) == Become(r, [rd EXCEPT !.pc = pc, !.loc = l])

GetContentRow(r, p) ==
    /\ reader[r].pc = "idle"
    /\ LET fi == files[p]
           rd == Begin("read", p, 0)
       IN  IF fi = NoRow \/ fi.size < 0 THEN Answer(r, rd, Absent)
           ELSE IF fi.size = 0 THEN Answer(r, rd, <<>>)
           ELSE IF fi.data # <<>> THEN Answer(r, rd, fi.data)
           ELSE Locate(r, rd, "fetch", fi.loc)
    /\ UNCHANGED vars

ReaderRow(r, p, offset) ==
    /\ reader[r].pc = "idle"
    /\ LET fi == files[p]
           rd == Begin("read", p, offset)
       IN  IF fi = NoRow \/ fi.size < 0 THEN Answer(r, rd, Absent)
           ELSE IF offset > fi.size THEN Answer(r, rd, <<>>)
           ELSE IF fi.loc = NoLoc THEN Answer(r, rd, From(fi.data, offset))
           ELSE Locate(r, rd, "fetch", fi.loc)
    /\ UNCHANGED vars

(* MakeTempURL: HEAD is covered by a signature for GET. *)
MakeTempURL(method) ==
    (IF method = "HEAD" THEN "GET" ELSE method) \in TempURLMethods

URLForRow(r, p, method) ==
    /\ reader[r].pc = "idle"
    /\ LET fi == files[p]
           rd == Begin("url", p, 0)
       IN  IF fi = NoRow THEN Answer(r, rd, Absent)
           ELSE IF fi.loc = NoLoc THEN Answer(r, rd, Unsupported)
           ELSE IF ~MakeTempURL(method) THEN Answer(r, rd, Unsupported)
           ELSE Locate(r, rd, "url", fi.loc)
    /\ UNCHANGED vars

-----------------------------------------------------------------------------
(* Swift sends res, and has the segments ps still to send. *)
Deliver(r, rd, ps, res) ==
    IF ps = <<>> THEN Answer(r, rd, res)
    ELSE Become(r, [rd EXCEPT !.pc = "stream", !.parts = ps, !.res = res])

(* Deliberately wrong: without a Range header. *)
SwiftOpen_NoRange(r) ==
    /\ reader[r].pc \in {"fetch", "url"}
    /\ \E o \in ObjectAt(reader[r].loc, 0) :
         Deliver(r, reader[r], o.parts, o.data)
    /\ UNCHANGED vars

(* The second step: Swift looks for <location>/content, for the registry or *)
(* for whoever follows a URL, ...                                           *)
SwiftOpen(r) ==
    /\ reader[r].pc \in {"fetch", "url"}
    /\ LET rd == reader[r]
           found == ObjectAt(rd.loc, 0)
       IN  \/ /\ found = {}
              /\ Answer(r, rd, Unreadable)
           \/ \E o \in found :
                Deliver(r, rd, From(o.parts, rd.off), From(o.data, rd.off))
    /\ UNCHANGED vars

(* ... and delivers the segments of a manifest one after the other, the     *)
(* connection breaking at one that is gone or has another hash.             *)
SwiftStream(r) ==
    /\ reader[r].pc = "stream"
    /\ LET rd == reader[r]
           part == Head(rd.parts)
       IN  \/ /\ ~PartFound(rd.loc, part)
              /\ Answer(r, rd, Unreadable)
           \/ /\ PartFound(rd.loc, part)
              /\ \E o \in ObjectAt(rd.loc, part.num) :
                   Deliver(r, rd, Tail(rd.parts), rd.res \o o.data)
    /\ UNCHANGED vars

(* The result is used; or a request to Swift fails, or the URL expires. *)
ReadDone(r) ==
    /\ reader[r].pc # "idle"
    /\ reader' = [reader EXCEPT ![r] = IdleReader]
    /\ UNCHANGED vars

ReadStep(r) ==
    \/ \E p \in Files : GetContentRow(r, p)
    \/ \E p \in Files, offset \in 0..MaxOffset : ReaderRow(r, p, offset)
    \/ \E p \in Blobs, method \in {"GET", "HEAD"} : URLForRow(r, p, method)
    \/ SwiftOpen(r) \/ SwiftStream(r) \/ ReadDone(r)

-----------------------------------------------------------------------------
(* The steps of SwiftPlus.  A call on the file that r reads is noted in the *)
(* ghost; the crash of the registry ends its readers, but not those who     *)
(* hold a URL or are served by Swift through one.  A result is looked at,   *)
(* and forgotten (ReadDone), before others go on: it is the reader's own.   *)
Watched(rd) ==
    IF rd.path # Root /\ acked'[rd.path] # acked[rd.path]
    THEN [rd EXCEPT !.path = Root] ELSE rd

StoreStep ==
    /\ \A r \in Readers : reader[r].pc # "done"
    /\ \E h \in Handlers :
         Call(h) \/ Step(h) \/ Conflict(h) \/ Fault(h) \/ CutShort(h)
    /\ reader' = [r \in Readers |-> Watched(reader[r])]

ReadersCrash ==
    /\ Crash
    /\ reader' = [r \in Readers |-> IF reader[r].op = "url" THEN reader[r]
                                    ELSE IdleReader]

ReadNext ==
    \/ \E r \in Readers : ReadStep(r)
    \/ StoreStep
    \/ ReadersCrash

ReadSpec == ReadInit /\ [][ReadNext]_readVars

-----------------------------------------------------------------------------
(* Properties. *)

Done(r) == reader[r].pc = "done"
IsError(res) == res \in {Absent, Unreadable, Unsupported}

(* A read of a file that no call touches between the read's first and its   *)
(* last step (a writer that is open on the file and has not been committed  *)
(* does not count, whatever segments it adds below the same location,       *)
(* unless it has missed an error and numbers them wrongly) returns what was *)
(* acknowledged for the file; a temporary URL that was made for it is       *)
(* refused only for a file kept in the database.                            *)
UndisturbedRead ==
    \A r \in Readers :
        LET rd == reader[r]
        IN  Done(r) /\ rd.path # Root /\ acked[rd.path] # Unknown =>
              IF acked[rd.path] = Absent THEN rd.res = Absent
              ELSE \/ rd.res = From(acked[rd.path], rd.off)
                   \/ rd.res = Unsupported /\ files[rd.path].loc = NoLoc

(* A read that overlaps any calls on its file returns an error or, from its *)
(* offset on, exactly what one PutContent was given or one Commit has put   *)
(* together (see WholeContents), never parts of two versions, although row, *)
(* manifest and segments are read at different times.                       *)
WholeReads ==
    \A r \in Readers :
        LET rd == reader[r]
        IN  Done(r) /\ ~IsError(rd.res) =>
              \/ rd.res = <<>>
              \/ \E c \in written : rd.res = From(c, rd.off)

(* A temporary URL that URLFor has made for a blob keeps its meaning for as *)
(* long as somebody holds it, whatever happens to the file in the meantime: *)
(* it delivers the blob as it was when the URL was made, or nothing.        *)
URLKeepsMeaning ==
    \A r \in Readers :
        LET rd == reader[r]
        IN  /\ rd.op = "url"
            /\ rd.base \notin {Absent, Unknown}
            => /\ rd.pc = "url" => SwiftReader(rd.loc) \in {rd.base, Unreadable}
               /\ Done(r) /\ ~IsError(rd.res) => rd.res = rd.base
=============================================================================
