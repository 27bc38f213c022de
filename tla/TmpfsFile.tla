------------------------------ MODULE TmpfsFile ------------------------------
(***************************************************************************)
(* What a tmpfs file promises the page cache that writes through it,      *)
(* without the filesystem lock, the gap search or the pin counts.         *)
(*                                                                         *)
(* A write call on a page range is pending until it takes effect in one   *)
(* step: with STATUS_OK every page of the range is retained; with timm_oom *)
(* some of them may be, and at least one is not.  A retained page is      *)
(* dirty and held (the page cache may not evict it) until the file is      *)
(* freed, when the purge releases every page at once.  Checked as the      *)
(* abstraction of Tmpfs (Tmpfs!TmpfsRefined).                              *)
(***************************************************************************)
EXTENDS Integers

CONSTANTS Pages, Writers, SealValues

VARIABLES
    file,     \* "none", "failed", "live", "purging", "freed"
    dirty,    \* pages the file retains
    held,     \* pages the page cache may not evict
    length,   \* file length in pages
    seals,    \* the seals last set
    wpc,      \* each writer's call: "idle", "pending" or "done"
    wq,       \* the range of each writer's last call
    wret      \* the status each writer's last call completed with

avars == <<file, dirty, held, length, seals, wpc, wq, wret>>

Ranges == {a..b : a \in Pages, b \in Pages} \ {{}}

Init ==
    /\ file = "none" /\ dirty = {} /\ held = {} /\ length = 0 /\ seals = 0
    /\ wpc = [w \in Writers |-> "idle"]
    /\ wq = [w \in Writers |-> {}]
    /\ wret = [w \in Writers |-> "none"]

Create ==
    /\ file = "none" /\ file' \in {"failed", "live"}
    /\ UNCHANGED <<dirty, held, length, seals, wpc, wq, wret>>

Extend(end) ==
    /\ file = "live" /\ length < end /\ length' = end
    /\ UNCHANGED <<file, dirty, held, seals, wpc, wq, wret>>

Seal(v) ==
    /\ file = "live" /\ seals' = v
    /\ UNCHANGED <<file, dirty, held, length, wpc, wq, wret>>

\* a write of range q, within the file, is issued
Call(w, q) ==
    /\ file = "live" /\ wpc[w] = "idle"
    /\ \A p \in q : p <= length
    /\ wpc' = [wpc EXCEPT ![w] = "pending"] /\ wq' = [wq EXCEPT ![w] = q]
    /\ UNCHANGED <<file, dirty, held, length, seals, wret>>

\* the write takes effect: the pages kept become dirty and held
Write(w) ==
    /\ wpc[w] = "pending"
    /\ \E st \in {"OK", "OOM"}, kept \in SUBSET wq[w] :
         /\ st = "OK" => kept = wq[w]
         /\ st = "OOM" => ~(wq[w] \subseteq dirty \cup kept)
         /\ dirty' = dirty \cup kept /\ held' = held \cup kept
         /\ wret' = [wret EXCEPT ![w] = st]
    /\ wpc' = [wpc EXCEPT ![w] = "done"]
    /\ UNCHANGED <<file, length, seals, wq>>

Return(w) ==
    /\ wpc[w] = "done" /\ wpc' = [wpc EXCEPT ![w] = "idle"]
    /\ UNCHANGED <<file, dirty, held, length, seals, wq, wret>>

\* the last reference goes; no write is pending
Free ==
    /\ file = "live" /\ \A w \in Writers : wpc[w] # "pending"
    /\ file' = "purging"
    /\ UNCHANGED <<dirty, held, length, seals, wpc, wq, wret>>

\* the purge completes: nothing is retained or held any more
Release ==
    /\ file = "purging" /\ file' = "freed" /\ dirty' = {} /\ held' = {}
    /\ UNCHANGED <<length, seals, wpc, wq, wret>>

Next ==
    \/ Create \/ Free \/ Release
    \/ \E e \in Pages : Extend(e)
    \/ \E v \in SealValues : Seal(v)
    \/ \E w \in Writers : Write(w) \/ Return(w) \/ \E q \in Ranges : Call(w, q)

\* a pending write takes effect, and a purge completes
Spec ==
    Init /\ [][Next]_avars
    /\ \A w \in Writers : WF_avars(Write(w))
    /\ WF_avars(Release)

=============================================================================
