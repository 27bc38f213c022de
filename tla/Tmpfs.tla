-------------------------------- MODULE Tmpfs --------------------------------
(***************************************************************************)
(* A tmpfs file and its dirty range map (src/klib/tmpfs.c).                *)
(*                                                                         *)
(* tmpfs keeps no data of its own: a page written through the page cache   *)
(* is recorded in the file's dirty range map and pinned so that the page   *)
(* cache never evicts it.  tmpfsfile_write fills the gaps of the written   *)
(* page range one at a time under the filesystem lock, restarting the gap  *)
(* search after each insertion; an insertion can fail for lack of memory.  *)
(* When the file is freed, the node is purged and tmpfsfile_sync_complete  *)
(* unpins every dirty range.  Byte ranges are abstracted to page ranges    *)
(* (range_rshift_pad).                                                     *)
(***************************************************************************)
EXTENDS Integers, FiniteSets

CONSTANTS
    Pages,       \* page numbers of the file, an interval a..b
    Writers,     \* threads writing through the page cache
    MaxWrites,   \* bound on tmpfsfile_write calls
    SealValues,  \* values passed to set_seals
    NoOne        \* nobody holds the filesystem lock

VARIABLES
    file,     \* "none", "live", "purging" (pagecache_purge_node issued), "freed"
    dirty,    \* pages covered by the dirty range map
    pin,      \* pin count of each page in the page cache node
    length,   \* fsfile length in pages
    seals,    \* fsf->seals
    lock,     \* holder of the filesystem lock
    wq,       \* the page range each writer is writing
    wpc,      \* "idle", "loop" (inside the do/while) or "done"
    wret,     \* status the write completed with
    writes,   \* tmpfsfile_write calls so far
    mem,      \* "ok", or "low": every rangemap node allocation fails
    wbase     \* history: the dirty pages of the lock holder's range when it
              \* took the lock (no field of the code; used by TmpfsRefined)

vars == <<file, dirty, pin, length, seals, lock, wq, wpc, wret, writes, mem, wbase>>

\* the page ranges a write can cover
Ranges == {a..b : a \in Pages, b \in Pages} \ {{}}

\* the gaps of range q in the range map d: the maximal runs of pages of q
\* that no range of d covers (rangemap_range_find_gaps)
Gaps(q, d) ==
    LET free == q \ d IN
    {r \in {a..b : a \in {x \in free : x - 1 \notin free},
                   b \in {y \in free : y + 1 \notin free}} :
        r # {} /\ r \subseteq free}

\* the last page of a range
Last(q) == CHOOSE x \in q : \A y \in q : y <= x

Idle == [w \in Writers |-> "idle"]

Init ==
    /\ file = "none"
    /\ dirty = {}
    /\ pin = [p \in Pages |-> 0]
    /\ length = 0
    /\ seals = 0
    /\ lock = NoOne
    /\ wq = [w \in Writers |-> {}]
    /\ wpc = Idle
    /\ wret = [w \in Writers |-> "none"]
    /\ writes = 0
    /\ mem = "ok"
    /\ wbase = {}

(* tmpfs_create for a regular file: the tmpfs_file allocation or           *)
(* fsfile_init may fail, and the file is then not created; otherwise the   *)
(* dirty range map starts empty and the seals at 0.                         *)
TmpfsCreate ==
    /\ file = "none"
    /\ file' \in {"failed", "live"}          \* "failed": -ENOMEM or fsfile_init's error
    /\ UNCHANGED <<dirty, pin, length, seals, lock, wq, wpc, wret, writes, mem, wbase>>

(* tmpfsfile_reserve: the page cache extends the file before writing past  *)
(* its end; tmpfs_truncate always succeeds.                                 *)
TmpfsfileReserve(end) ==
    /\ file = "live"
    /\ length < end
    /\ length' = end
    /\ UNCHANGED <<file, dirty, pin, seals, lock, wq, wpc, wret, writes, mem, wbase>>

TmpfsSetSeals(v) ==
    /\ file = "live"
    /\ seals' = v
    /\ UNCHANGED <<file, dirty, pin, length, lock, wq, wpc, wret, writes, mem, wbase>>

(* tmpfsfile_write up to filesystem_lock: the writer takes the lock.       *)
WriteBegin(w, q) ==
    /\ file = "live"
    /\ wpc[w] = "idle"
    /\ lock = NoOne
    /\ writes < MaxWrites
    /\ Last(q) <= length
    /\ lock' = w
    /\ wq' = [wq EXCEPT ![w] = q]
    /\ wpc' = [wpc EXCEPT ![w] = "loop"]
    /\ writes' = writes + 1
    /\ wbase' = dirty \cap q
    /\ UNCHANGED <<file, dirty, pin, length, seals, wret, mem>>

(* tmpfsfile_write_handler for gap g when rangemap_insert_range succeeds:  *)
(* the gap's pages are pinned and the search is aborted.                    *)
WriteHandlerPinQuery(w, g) ==
    /\ dirty' = dirty \cup g
    /\ pin' = [p \in Pages |-> IF p \in wq[w] THEN pin[p] + 1 ELSE pin[p]]

WriteHandler(w, g) ==
    /\ dirty' = dirty \cup g
    /\ pin' = [p \in Pages |-> IF p \in g THEN pin[p] + 1 ELSE pin[p]]

(* the writer returns the filesystem lock and completes with status st    *)
WriteEnd(w, st) ==
    /\ lock' = NoOne
    /\ wpc' = [wpc EXCEPT ![w] = "done"]
    /\ wret' = [wret EXCEPT ![w] = st]

(* One rangemap_range_find_gaps call of the do/while loop.  The handler is *)
(* called on the gaps in order and returns true, so that the search goes   *)
(* on, when rangemap_insert_range fails for lack of memory.  A call thus   *)
(* inserts and pins one gap and returns RM_ABORT (the loop repeats), finds *)
(* no gap and returns RM_NOMATCH (STATUS_OK), or, memory being low, fails  *)
(* on every gap and returns RM_MATCH (timm_oom).  While memory is ok an    *)
(* insertion may still fail, so any gap may be the first one inserted.     *)
FindGapsOomOk(w) ==
    LET G == Gaps(wq[w], dirty) IN
    /\ wpc[w] = "loop"
    /\ \/ \E g \in G : mem = "ok" /\ WriteHandler(w, g) /\ UNCHANGED <<lock, wpc, wret>>
       \/ G = {} /\ WriteEnd(w, "OK") /\ UNCHANGED <<dirty, pin>>
       \/ G # {} /\ mem = "low" /\ WriteEnd(w, "OK") /\ UNCHANGED <<dirty, pin>>
    /\ UNCHANGED <<file, length, seals, wq, writes, mem, wbase>>

FindGaps(w) ==
    LET G == Gaps(wq[w], dirty) IN
    /\ wpc[w] = "loop"
    /\ \/ \E g \in G : mem = "ok" /\ WriteHandler(w, g) /\ UNCHANGED <<lock, wpc, wret>>
       \/ G = {} /\ WriteEnd(w, "OK") /\ UNCHANGED <<dirty, pin>>
       \/ G # {} /\ mem = "low" /\ WriteEnd(w, "OOM") /\ UNCHANGED <<dirty, pin>>
    /\ UNCHANGED <<file, length, seals, wq, writes, mem, wbase>>

(* The heap's state, which the code does not control: allocations start  *)
(* or stop failing at any time.                                           *)
MemoryPressure ==
    /\ mem' = IF mem = "ok" THEN "low" ELSE "ok"
    /\ UNCHANGED <<file, dirty, pin, length, seals, lock, wq, wpc, wret, writes, wbase>>

(* the page cache takes the completion; the writer may write again        *)
WriteReturn(w) ==
    /\ wpc[w] = "done"
    /\ wpc' = [wpc EXCEPT ![w] = "idle"]
    /\ UNCHANGED <<file, dirty, pin, length, seals, lock, wq, wret, writes, mem, wbase>>

(* tmpfsfile_free, run when the last reference to the fsfile goes: the    *)
(* page cache node is purged, with tmpfsfile_sync_complete as completion.  *)
(* A write in progress holds a reference, so none is inside the loop.     *)
TmpfsfileFree ==
    /\ file = "live"
    /\ \A w \in Writers : wpc[w] # "loop"
    /\ file' = "purging"
    /\ UNCHANGED <<dirty, pin, length, seals, lock, wq, wpc, wret, writes, mem, wbase>>

(* tmpfsfile_sync_complete: unpin every range of the dirty map, destroy   *)
(* the map, deallocate the node and the tmpfs_file.                       *)
TmpfsfileSyncCompleteUnpinAll ==
    /\ file = "purging"
    /\ pin' = [p \in Pages |-> pin[p] - 1]
    /\ dirty' = {}
    /\ file' = "freed"
    /\ UNCHANGED <<length, seals, lock, wq, wpc, wret, writes, mem, wbase>>

TmpfsfileSyncComplete ==
    /\ file = "purging"
    /\ pin' = [p \in Pages |-> IF p \in dirty THEN pin[p] - 1 ELSE pin[p]]
    /\ dirty' = {}
    /\ file' = "freed"
    /\ UNCHANGED <<length, seals, lock, wq, wpc, wret, writes, mem, wbase>>

\* the file is gone and every writer has returned: nothing is left to do
Terminated ==
    /\ file \in {"failed", "freed"}
    /\ \A w \in Writers : wpc[w] = "idle"
    /\ UNCHANGED vars

Next ==
    \/ TmpfsCreate
    \/ \E e \in Pages : TmpfsfileReserve(e)
    \/ \E v \in SealValues : TmpfsSetSeals(v)
    \/ \E w \in Writers, q \in Ranges : WriteBegin(w, q)
    \/ \E w \in Writers : FindGaps(w) \/ WriteReturn(w)
    \/ TmpfsfileFree
    \/ TmpfsfileSyncComplete
    \/ MemoryPressure
    \/ Terminated

(* The lock holder runs its loop to the end and the purge completes; the  *)
(* page cache is not obliged to write or to free the file.                *)
Fairness ==
    /\ \A w \in Writers : WF_vars(FindGaps(w))
    /\ WF_vars(TmpfsfileSyncComplete)

Spec == Init /\ [][Next]_vars /\ Fairness

TypeOK ==
    /\ file \in {"none", "failed", "live", "purging", "freed"}
    /\ dirty \subseteq Pages
    /\ pin \in [Pages -> Nat]
    /\ length \in {0} \cup Pages
    /\ seals \in {0} \cup SealValues
    /\ lock \in Writers \cup {NoOne}
    /\ wq \in [Writers -> {{}} \cup Ranges]
    /\ wpc \in [Writers -> {"idle", "loop", "done"}]
    /\ wret \in [Writers -> {"none", "OK", "OOM"}]
    /\ writes \in 0..MaxWrites
    /\ mem \in {"ok", "low"}
    /\ wbase \subseteq Pages

(* Pins follow the dirty map: while the file lives every page of the      *)
(* dirty range map is pinned exactly once in the page cache node and no    *)
(* other page is (tmpfsfile_write_handler pins only the gap it inserted),  *)
(* and once tmpfsfile_sync_complete has run no page is left pinned.        *)
PinsMatchDirty ==
    /\ file \in {"live", "purging"} =>
           \A p \in Pages : pin[p] = IF p \in dirty THEN 1 ELSE 0
    /\ file = "freed" => \A p \in Pages : pin[p] = 0

-----------------------------------------------------------------------------
(* Refinement: a tmpfs file is the TmpfsFile abstraction.  The write      *)
(* takes effect at the gap search that ends the do/while loop; until      *)
(* then the gaps the lock holder has inserted and pinned are hidden.  A   *)
(* holder of the filesystem lock is a writer inside the loop.             *)

\* pages the lock holder has inserted since it took the lock
Inserted == IF lock = NoOne THEN {} ELSE (dirty \cap wq[lock]) \ wbase

File == INSTANCE TmpfsFile
    WITH dirty <- dirty \ Inserted,
         held <- {p \in Pages : pin[p] > 0} \ Inserted,
         wpc <- [w \in Writers |-> IF wpc[w] = "loop" THEN "pending" ELSE wpc[w]]

(* Every tmpfsfile_write behaves as one step of the abstraction: with     *)
(* STATUS_OK its whole range is dirty and pinned, with timm_oom part of   *)
(* it may be but not all, a pending write completes (the loop ends even   *)
(* when insertions fail), and the purge of tmpfsfile_free and             *)
(* tmpfsfile_sync_complete leaves no page dirty or pinned.                *)
TmpfsRefined == File!Spec

=============================================================================
