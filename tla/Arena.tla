------------------------------- MODULE Arena -------------------------------
(***************************************************************************)
(* util/alloc/Arena: bump allocation on a chain of pages, shared by all    *)
(* threads of the pool.  Chunks are claimed by compare-and-exchange on the *)
(* page's own offset; a spinlock only protects putting a new page in front *)
(* of the chain.  The two chains of PageHeader::nextPage pointers are      *)
(* sequences of pages, the current page first.                             *)
(*                                                                         *)
(* A step is one atomic load, store or exchange.                           *)
(***************************************************************************)
EXTENDS Integers, Sequences, FiniteSets, Functions

CONSTANTS
  Thread,      \* callers of allocate()
  Page,        \* the pages malloc() can ever return
  HeaderSize,  \* pageHeaderSize
  PageSize,    \* pageSizeWithHeader
  Request,     \* records [size, align]: what callers ask for
  NoPage,      \* no page
  Free         \* the spinlock is not held

\* The constructor refuses an empty page.
ASSUME SizeAssumption ==
  /\ HeaderSize \in Nat \ {0} /\ PageSize \in Nat /\ PageSize > HeaderSize
  /\ \A r \in Request : r.size \in Nat /\ r.align \in Nat
ASSUME NameAssumption == NoPage \notin Page /\ Free \notin Thread

VARIABLES
  cur, free,                    \* the chains from curPage and from freePage
  numCurPages, numFreePages,
  offset,                       \* PageHeader::offset of every page
  spinlock,
  pc, req, cp, old,             \* per thread; req.align is the adjusted one
  fresh,                        \* newPage()'s x, per thread
  chunks                        \* chunks handed out since the last reset()

pageVars == <<cur, free, numCurPages, numFreePages>>
vars == <<pageVars, offset, spinlock, pc, req, cp, old, fresh, chunks>>

AlignUp(from, align) == ((from + align - 1) \div align) * align

\* alignAdjust(): align 0 is the largest power of two up to 8 that divides size.
Refused(r) == r.size = 0 \/ (r.align # 0 /\ r.size % r.align # 0)
AlignAdjust(r) ==
  IF r.align # 0 THEN r.align
  ELSE IF r.size % 8 = 0 THEN 8 ELSE IF r.size % 4 = 0 THEN 4
  ELSE IF r.size % 2 = 0 THEN 2 ELSE 1

\* The header is a multiple of 8 (Arena.h:22), and callers ask for alignments of
\* 0 or 1 (MemoryManager.h:26, String.cpp:13).
ASSUME HeaderAssumption == \A r \in Request : ~Refused(r) => HeaderSize % AlignAdjust(r) = 0

InUse == Range(cur)
InFlight == {fresh[t] : t \in Thread} \ {NoPage}
NoRequest == [size |-> 1, align |-> 1]

\* The type invariant.
TypeOK ==
  /\ cur \in Seq(Page) /\ cur # << >> /\ free \in Seq(Page)
  /\ numCurPages \in Nat /\ numFreePages \in Nat
  /\ offset \in [Page -> Nat]
  /\ spinlock \in Thread \cup {Free}
  /\ pc \in [Thread -> {"idle", "load", "loadOffset", "try", "lock", "check", "publish", "unlock"}]
  /\ req \in [Thread -> [size : Nat \ {0}, align : Nat \ {0}]]
  /\ cp \in [Thread -> Page \cup {NoPage}]
  /\ old \in [Thread -> Nat]
  /\ fresh \in [Thread -> Page \cup {NoPage}]
  /\ chunks \subseteq [page : Page, from : Nat, to : Nat, align : Nat \ {0}]

-----------------------------------------------------------------------------
\* The constructor: newPage() with no page yet.
Init ==
  /\ cur \in {<<p>> : p \in Page} /\ free = << >>
  /\ numCurPages = 1 /\ numFreePages = 0
  /\ offset = [p \in Page |-> HeaderSize]
  /\ spinlock = Free
  /\ pc = [t \in Thread |-> "idle"]
  /\ req = [t \in Thread |-> NoRequest]
  /\ cp = [t \in Thread |-> NoPage]
  /\ old = [t \in Thread |-> 0]
  /\ fresh = [t \in Thread |-> NoPage]
  /\ chunks = {}

Goto(t, label) == pc' = [pc EXCEPT ![t] = label]

\* allocate() returns or throws: its local variables are gone.
Leave(t) ==
  /\ Goto(t, "idle")
  /\ req' = [req EXCEPT ![t] = NoRequest]
  /\ cp' = [cp EXCEPT ![t] = NoPage]
  /\ old' = [old EXCEPT ![t] = 0]

\* alignAdjust() throws on a request it refuses; that call changes nothing.
Call(t, r) ==
  /\ pc[t] = "idle"
  /\ ~Refused(r)
  /\ req' = [req EXCEPT ![t] = [size |-> r.size, align |-> AlignAdjust(r)]]
  /\ Goto(t, "load")
  /\ UNCHANGED <<pageVars, offset, spinlock, cp, old, fresh, chunks>>

LoadPage(t) ==
  /\ pc[t] = "load"
  /\ cp' = [cp EXCEPT ![t] = Head(cur)]
  /\ Goto(t, "loadOffset")
  /\ UNCHANGED <<pageVars, offset, spinlock, req, old, fresh, chunks>>

LoadOffset(t) ==
  /\ pc[t] = "loadOffset"
  /\ old' = [old EXCEPT ![t] = offset[cp[t]]]
  /\ Goto(t, "try")
  /\ UNCHANGED <<pageVars, offset, spinlock, req, cp, fresh, chunks>>

Aligned(t) == AlignUp(old[t], req[t].align)
NextOffset(t) == Aligned(t) + req[t].size
Fits(t) == NextOffset(t) <= PageSize

TooLarge(t) == HeaderSize + req[t].size > PageSize

\* Does not fit: a new page is needed, or throw if that would not help.
Full(t) ==
  /\ pc[t] = "try" /\ ~Fits(t)
  /\ \/ TooLarge(t) /\ Leave(t)
     \/ ~TooLarge(t) /\ Goto(t, "lock") /\ UNCHANGED <<req, cp, old>>
  /\ UNCHANGED <<pageVars, offset, spinlock, fresh, chunks>>

Claim(t) ==
  /\ offset' = [offset EXCEPT ![cp[t]] = NextOffset(t)]
  /\ chunks' = chunks \cup {[page |-> cp[t], from |-> Aligned(t), to |-> NextOffset(t),
                             align |-> req[t].align]}
  /\ Leave(t)

\* Mutant: a plain store instead of the exchange.
Exchange_Store(t) ==
  /\ pc[t] = "try" /\ Fits(t)
  /\ Claim(t)
  /\ UNCHANGED <<pageVars, spinlock, fresh>>

\* The compare-and-exchange reloads `old` when it fails.
Exchange(t) ==
  /\ pc[t] = "try" /\ Fits(t)
  /\ \/ offset[cp[t]] = old[t] /\ Claim(t)
     \/ /\ offset[cp[t]] # old[t]
        /\ old' = [old EXCEPT ![t] = offset[cp[t]]]
        /\ UNCHANGED <<offset, chunks, pc, req, cp>>
  /\ UNCHANGED <<pageVars, spinlock, fresh>>

Lock(t) ==
  /\ pc[t] = "lock" /\ spinlock = Free
  /\ spinlock' = t
  /\ Goto(t, "check")
  /\ UNCHANGED <<pageVars, offset, req, cp, old, fresh, chunks>>

\* Another thread was first: its page is used.
SomebodyWasFirst(t) ==
  /\ pc[t] = "check" /\ Head(cur) # cp[t]
  /\ Goto(t, "unlock")
  /\ UNCHANGED <<pageVars, offset, spinlock, req, cp, old, fresh, chunks>>

\* Mutant: every thread that found the page full makes a page.
MustMakePage_Always(t) == TRUE
MustMakePage(t) == Head(cur) = cp[t]

Unused == Page \ (InUse \cup Range(free) \cup InFlight)

\* newPage() up to the store of its offset; Unused = {} is malloc() failing,
\* then allocate() throws and the lock guard releases the spinlock.
NewPage(t) ==
  /\ pc[t] = "check" /\ MustMakePage(t)
  /\ \/ /\ free # << >>
        /\ fresh' = [fresh EXCEPT ![t] = Head(free)]
        /\ free' = Tail(free)
        /\ numFreePages' = numFreePages - 1
     \/ /\ free = << >>
        /\ \E p \in Unused : fresh' = [fresh EXCEPT ![t] = p]
        /\ UNCHANGED <<free, numFreePages>>
  /\ numCurPages' = numCurPages + 1
  /\ offset' = [offset EXCEPT ![fresh'[t]] = HeaderSize]
  /\ Goto(t, "publish")
  /\ UNCHANGED <<cur, spinlock, req, cp, old, chunks>>

MallocFails(t) ==
  /\ pc[t] = "check" /\ MustMakePage(t) /\ free = << >>
  /\ spinlock' = Free
  /\ Leave(t)
  /\ UNCHANGED <<pageVars, offset, fresh, chunks>>

\* Mutant: x->nextPage is not set.
Publish_Unlinked(t) ==
  /\ pc[t] = "publish"
  /\ cur' = <<fresh[t]>>
  /\ fresh' = [fresh EXCEPT ![t] = NoPage]
  /\ Goto(t, "unlock")
  /\ UNCHANGED <<free, numCurPages, numFreePages, offset, spinlock, req, cp, old, chunks>>

Publish(t) ==
  /\ pc[t] = "publish"
  /\ cur' = <<fresh[t]>> \o cur
  /\ fresh' = [fresh EXCEPT ![t] = NoPage]
  /\ Goto(t, "unlock")
  /\ UNCHANGED <<free, numCurPages, numFreePages, offset, spinlock, req, cp, old, chunks>>

Unlock(t) ==
  /\ pc[t] = "unlock"
  /\ spinlock' = Free
  /\ Goto(t, "load")
  /\ UNCHANGED <<pageVars, offset, req, cp, old, fresh, chunks>>

Mirror(s) == [k \in 1..Len(s) |-> s[Len(s) + 1 - k]]

\* Mutant: the pages are also left in the chain of the current page.
Reset_KeepsChain ==
  /\ \A t \in Thread : pc[t] = "idle"
  /\ free' = Mirror(SubSeq(cur, 1, Len(cur) - 1)) \o free
  /\ cur' = cur
  /\ numCurPages' = 1
  /\ numFreePages' = numFreePages + Len(cur) - 1
  /\ chunks' = {}
  /\ UNCHANGED <<offset, spinlock, pc, req, cp, old, fresh>>

\* reset() is not thread-safe (MemoryManager.h:18): nobody may be allocating,
\* and what was handed out is dead.  All pages but the oldest become free.
Reset ==
  /\ \A t \in Thread : pc[t] = "idle"
  /\ free' = Mirror(SubSeq(cur, 1, Len(cur) - 1)) \o free
  /\ cur' = <<cur[Len(cur)]>>
  /\ numCurPages' = 1
  /\ numFreePages' = numFreePages + Len(cur) - 1
  /\ chunks' = {}
  /\ UNCHANGED <<offset, spinlock, pc, req, cp, old, fresh>>

Allocate(t) ==
  \/ LoadPage(t) \/ LoadOffset(t) \/ Full(t) \/ Exchange(t)
  \/ Lock(t) \/ SomebodyWasFirst(t) \/ NewPage(t) \/ MallocFails(t) \/ Publish(t) \/ Unlock(t)

Next ==
  \/ \E t \in Thread : Allocate(t)
  \/ \E t \in Thread, r \in Request : Call(t, r)
  \/ Reset

Spec == Init /\ [][Next]_vars

-----------------------------------------------------------------------------
\* No byte is handed out twice: two chunks of one page do not overlap, though
\* threads work with an offset they read earlier, on a page that may meanwhile
\* have been replaced.
Disjoint ==
  \A a, b \in chunks : a.page = b.page /\ a # b => a.to <= b.from \/ b.to <= a.from

\* A chunk is past the header, inside its page, and aligned as adjusted.
InBounds ==
  \A a \in chunks : HeaderSize <= a.from /\ a.to <= PageSize /\ a.from % a.align = 0

\* Every page malloc() returned is in exactly one place: a chain, or on its way
\* into one; the destructor frees each once.  The counters say how many.
PagesAccounted ==
  /\ IsInjective(cur) /\ IsInjective(free)
  /\ InUse \cap Range(free) = {} /\ InFlight \cap (InUse \cup Range(free)) = {}
  /\ numCurPages = Len(cur) + Cardinality(InFlight) /\ numFreePages = Len(free)

\* A page is given up only when the request at hand really does not fit on it,
\* however many threads found it full at once, and does fit on the new one:
\* otherwise allocate() would make pages for ever.  A smaller request might
\* still fit on the old page, whose rest is lost.  Alignment is no matter on a new
\* page, as its header is aligned for every request.
GivenUpOnlyWhenFull ==
  \A t \in Thread : pc[t] = "publish" =>
    LET fits(p) == AlignUp(offset[p], req[t].align) + req[t].size <= PageSize
    IN  ~fits(Head(cur)) /\ fits(fresh[t])

\* Live chunks are never on a page that newPage() may recycle.
ChunksStayInUse == \A a \in chunks : a.page \in InUse

-----------------------------------------------------------------------------
(* The inductive invariant behind Disjoint and InBounds.                   *)

LockInv == \A t \in Thread : spinlock = t <=> pc[t] \in {"check", "publish", "unlock"}

\* A page is in one chain at most, or in the hands of the thread that made it;
\* threads only ever look at pages in use.
PlaceInv ==
  /\ IsInjective(cur) /\ IsInjective(free) /\ InUse \cap Range(free) = {}
  /\ numFreePages = Len(free)
  /\ \A t \in Thread :
       /\ fresh[t] # NoPage <=> pc[t] = "publish"
       /\ fresh[t] \notin InUse \cup Range(free)
       /\ pc[t] \notin {"idle", "load"} => cp[t] \in InUse

\* Offsets bound the chunks; a thread's stale offset is never below the header.
ChunkInv ==
  /\ \A p \in InUse : HeaderSize <= offset[p] /\ offset[p] <= PageSize
  /\ \A a \in chunks : /\ a.page \in InUse
                       /\ HeaderSize <= a.from /\ a.from < a.to /\ a.to <= offset[a.page]
                       /\ a.from % a.align = 0

ReadInv == \A t \in Thread : pc[t] = "try" => HeaderSize <= old[t]
FreshInv == \A t \in Thread : pc[t] = "publish" => offset[fresh[t]] = HeaderSize

IInv == TypeOK /\ LockInv /\ PlaceInv /\ ChunkInv /\ ReadInv /\ FreshInv /\ Disjoint

\* One page at most is between its chains.
CountInv == numCurPages = Len(cur) + (IF InFlight = {} THEN 0 ELSE 1)

\* What a thread knows of the page that it found full: later offsets are no
\* smaller than the one that it read, and while it makes a page no other is put
\* in front.
FullOf(t) ==
  /\ HeaderSize % req[t].align = 0
  /\ pc[t] \in {"try", "lock", "check", "publish"} => old[t] <= offset[cp[t]]
  /\ pc[t] \in {"lock", "check", "publish"} => ~Fits(t) /\ ~TooLarge(t)
  /\ pc[t] = "publish" => cp[t] = Head(cur)
FullInv == \A t \in Thread : FullOf(t)
=============================================================================
