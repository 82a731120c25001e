----------------------------- MODULE ArenaProofs -----------------------------
(* The arena for any number of threads and pages, any page size, any requests. *)
EXTENDS Arena, TLAPS, SequenceTheorems, FiniteSetTheorems

-----------------------------------------------------------------------------
(* Rounding up.                                                            *)

\* alignUp() returns a multiple of align that is not below offset.
LEMMA AlignUpBounds ==
  ASSUME NEW n \in Nat, NEW a \in Nat \ {0}
  PROVE  AlignUp(n, a) \in Nat /\ AlignUp(n, a) >= n /\ AlignUp(n, a) % a = 0
<1> DEFINE q == (n + a - 1) \div a
           r == (n + a - 1) % a
<1>1. q \in Nat /\ r \in 0..(a - 1) /\ n + a - 1 = a * q + r
  <2>1. n + a - 1 \in Nat
    OBVIOUS
  <2> QED BY <2>1
<1>2. AlignUp(n, a) = q * a
  BY DEF AlignUp
<1> HIDE DEF q, r
<1>3. q * a = a * q /\ q * a \in Nat
  BY <1>1
<1>4. (q * a) % a = 0
  BY <1>1
<1> QED BY <1>1, <1>2, <1>3, <1>4

-----------------------------------------------------------------------------
(* Chains of pages.                                                        *)

\* Taking a page from the front of the free chain.
LEMMA TakeFront ==
  ASSUME NEW s \in Seq(Page), s # << >>, IsInjective(s)
  PROVE  /\ Head(s) \in Range(s) /\ Head(s) \in Page /\ Tail(s) \in Seq(Page)
         /\ IsInjective(Tail(s)) /\ Range(Tail(s)) \subseteq Range(s)
         /\ Head(s) \notin Range(Tail(s))
<1>1. /\ Len(s) \in Nat \ {0} /\ DOMAIN s = 1..Len(s) /\ Head(s) = s[1] /\ 1 \in DOMAIN s
      /\ Tail(s) \in Seq(Page) /\ DOMAIN Tail(s) = 1..(Len(s) - 1)
  BY EmptySeq
<1>2. \A k \in 1..(Len(s) - 1) : Tail(s)[k] = s[k + 1] /\ k + 1 \in DOMAIN s /\ k + 1 # 1
  BY <1>1, HeadTailProperties
<1>3. s[1] \in Page
  BY <1>1, ElementOfSeq
<1>4. \A j, k \in DOMAIN Tail(s) : Tail(s)[j] = Tail(s)[k] => j = k
  <2> TAKE j, k \in DOMAIN Tail(s)
  <2> HAVE Tail(s)[j] = Tail(s)[k]
  <2>1. j + 1 = k + 1
    BY <1>1, <1>2 DEF IsInjective
  <2> QED BY <1>1, <2>1
<1> QED BY <1>1, <1>2, <1>3, <1>4 DEF IsInjective, Range

\* Two chains without a common page make one chain.
LEMMA JoinChains ==
  ASSUME NEW s \in Seq(Page), NEW u \in Seq(Page),
         IsInjective(s), IsInjective(u), Range(s) \cap Range(u) = {}
  PROVE  /\ s \o u \in Seq(Page) /\ IsInjective(s \o u)
         /\ Range(s \o u) = Range(s) \cup Range(u)
<1> DEFINE c == s \o u
           n == Len(s)
<1>1. /\ c \in Seq(Page) /\ DOMAIN c = 1..(n + Len(u)) /\ n \in Nat /\ Len(u) \in Nat
      /\ \A k \in 1..(n + Len(u)) : c[k] = IF k <= n THEN s[k] ELSE u[k - n]
      /\ DOMAIN s = 1..n /\ DOMAIN u = 1..Len(u)
  BY ConcatProperties
<1> HIDE DEF c, n
<1>2. ASSUME NEW k \in DOMAIN c
      PROVE  \/ k <= n /\ k \in DOMAIN s /\ c[k] = s[k] /\ c[k] \in Range(s)
             \/ k > n /\ k - n \in DOMAIN u /\ c[k] = u[k - n] /\ c[k] \in Range(u)
  BY <1>1 DEF Range
<1>3. ASSUME NEW k \in DOMAIN s PROVE k \in DOMAIN c /\ c[k] = s[k]
  BY <1>1
<1>4. ASSUME NEW k \in DOMAIN u PROVE k + n \in DOMAIN c /\ c[k + n] = u[k]
  <2>1. k + n \in 1..(n + Len(u)) /\ ~(k + n <= n) /\ (k + n) - n = k
    BY <1>1
  <2> QED BY <1>1, <2>1
<1>5. Range(c) = Range(s) \cup Range(u)
  BY <1>2, <1>3, <1>4 DEF Range
<1>6. IsInjective(c)
  <2> SUFFICES ASSUME NEW j \in DOMAIN c, NEW k \in DOMAIN c, c[j] = c[k] PROVE j = k
    BY DEF IsInjective
  <2>j. j \in Int /\ k \in Int
    BY <1>1
  <2>1. CASE j <= n /\ k <= n
    <3>1. j \in DOMAIN s /\ k \in DOMAIN s /\ s[j] = s[k]
      BY <1>1, <1>2, <2>j, <2>1
    <3> QED BY <3>1 DEF IsInjective
  <2>2. CASE j > n /\ k > n
    <3>1. j - n \in DOMAIN u /\ k - n \in DOMAIN u /\ u[j - n] = u[k - n]
      BY <1>1, <1>2, <2>j, <2>2
    <3>2. j - n = k - n
      BY <3>1 DEF IsInjective
    <3> QED BY <1>1, <2>j, <3>2
  <2>3. ~(j <= n /\ k > n) /\ ~(j > n /\ k <= n)
    BY <1>1, <1>2
  <2> QED BY <1>1, <2>j, <2>1, <2>2, <2>3
<1> QED BY <1>1, <1>5, <1>6 DEF c

\* reset(): all pages but the last leave the chain, in reverse order.
LEMMA FrontReversed ==
  ASSUME NEW s \in Seq(Page), s # << >>, IsInjective(s)
  PROVE  LET f == Mirror(SubSeq(s, 1, Len(s) - 1)) IN
         /\ f \in Seq(Page) /\ IsInjective(f)
         /\ Range(f) \subseteq Range(s) /\ s[Len(s)] \notin Range(f)
         /\ s[Len(s)] \in Range(s) /\ s[Len(s)] \in Page /\ Len(f) = Len(s) - 1
<1> DEFINE n == Len(s)
           g == SubSeq(s, 1, n - 1)
           f == Mirror(g)
<1>1. n \in Nat \ {0} /\ DOMAIN s = 1..n /\ \A k \in 1..n : s[k] \in Page
  BY EmptySeq, ElementOfSeq
<1> HIDE DEF n
<1>2. Len(g) = n - 1 /\ \A k \in 1..(n - 1) : g[k] = s[k]
  <2>1. \A k \in 1..(n - 1) : s[k] \in Page
    BY <1>1
  <2>2. 1 \in Int /\ n - 1 \in Int
    BY <1>1
  <2>3. Len(g) = IF 1 <= n - 1 THEN (n - 1) - 1 + 1 ELSE 0
    BY <2>1, <2>2, SubSeqProperties
  <2>4. \A k \in 1..((n - 1) - 1 + 1) : g[k] = s[1 + k - 1]
    BY <2>1, <2>2, SubSeqProperties
  <2> QED BY <1>1, <2>3, <2>4
<1> HIDE DEF g
<1>3. f = [k \in 1..(n - 1) |-> g[n - k]]
  <2>1. \A k \in 1..(n - 1) : (n - 1) + 1 - k = n - k
    BY <1>1
  <2> QED BY <1>2, <2>1 DEF Mirror
<1>4. DOMAIN f = 1..(n - 1) /\ \A k \in 1..(n - 1) : f[k] = s[n - k] /\ n - k \in 1..(n - 1)
  <2>1. \A k \in 1..(n - 1) : n - k \in 1..(n - 1)
    BY <1>1
  <2> QED BY <1>2, <1>3, <2>1
<1>5. f \in Seq(Page)
  <2>1. f \in [1..(n - 1) -> Page] /\ n - 1 \in Nat
    BY <1>1, <1>3, <1>4
  <2> QED BY <2>1, SeqDef
<1>l. Len(f) = n - 1
  BY <1>1, <1>5, <1>4, LenProperties
<1> HIDE DEF f
<1>6. IsInjective(f)
  <2> SUFFICES ASSUME NEW j \in 1..(n - 1), NEW k \in 1..(n - 1), f[j] = f[k] PROVE j = k
    BY <1>4 DEF IsInjective
  <2>1. n - j = n - k
    BY <1>1, <1>4 DEF IsInjective
  <2> QED BY <1>1, <2>1
<1>7. ASSUME NEW k \in 1..(n - 1) PROVE f[k] \in Range(s) /\ f[k] # s[n]
  <2>1. n - k \in DOMAIN s /\ n \in DOMAIN s /\ n - k # n
    BY <1>1, <1>4
  <2> QED BY <1>4, <2>1 DEF Range, IsInjective
<1>8. s[n] \in Range(s) /\ s[n] \in Page
  BY <1>1 DEF Range
<1> QED BY <1>4, <1>5, <1>6, <1>7, <1>8, <1>l DEF Range, f, g, n

-----------------------------------------------------------------------------
(* IInv is inductive.                                                      *)

\* An adjusted request is still a request.
LEMMA AdjustedRequest ==
  ASSUME NEW r \in Request, ~Refused(r)
  PROVE  [size |-> r.size, align |-> AlignAdjust(r)] \in [size : Nat \ {0}, align : Nat \ {0}]
BY SizeAssumption DEF Refused, AlignAdjust

\* The page that allocate() loads is one of the pages in use.
LEMMA CurrentPage == TypeOK => Head(cur) \in InUse /\ Head(cur) \in Page
<1>1. ASSUME TypeOK PROVE Head(cur) \in InUse /\ Head(cur) \in Page
  <2>1. 1 \in DOMAIN cur /\ Head(cur) = cur[1] /\ 1 \in 1..Len(cur)
    BY <1>1, EmptySeq DEF TypeOK
  <2> QED BY <1>1, <2>1, ElementOfSeq DEF TypeOK, InUse, Range
<1> QED BY <1>1

\* What Leave() leaves in req.
LEMMA NoRequestIsRequest == NoRequest \in [size : Nat \ {0}, align : Nat \ {0}]
BY DEF NoRequest

\* Steps that only move a thread and its local variables.
LEMMA LocalStep ==
  ASSUME IInv, TypeOK', NEW t \in Thread, UNCHANGED <<pageVars, offset, fresh, chunks>>,
         \A u \in Thread \ {t} : pc'[u] = pc[u] /\ cp'[u] = cp[u] /\ old'[u] = old[u],
         LockInv', pc[t] # "publish", pc'[t] # "publish",
         pc'[t] \notin {"idle", "load"} => cp'[t] \in InUse,
         pc'[t] = "try" => HeaderSize <= old'[t]
  PROVE  IInv'
<1> USE DEF IInv, pageVars
<1>1. PlaceInv'
  BY DEF PlaceInv, InUse
<1>2. ChunkInv'
  BY DEF ChunkInv, InUse
<1>3. ReadInv'
  BY DEF ReadInv
<1>4. FreshInv'
  BY DEF FreshInv
<1>5. Disjoint'
  BY DEF Disjoint
<1> QED BY <1>1, <1>2, <1>3, <1>4, <1>5

LEMMA ThreadStep ==
  ASSUME IInv, NEW t \in Thread,
         \/ \E r \in Request : Call(t, r)
         \/ LoadPage(t) \/ LoadOffset(t) \/ Full(t) \/ Lock(t) \/ SomebodyWasFirst(t)
         \/ MallocFails(t) \/ Unlock(t)
  PROVE  IInv'
<1> USE NoRequestIsRequest DEF Goto, Leave, pageVars
<1>t. TypeOK /\ LockInv /\ PlaceInv /\ ChunkInv /\ ReadInv /\ FreshInv
  BY DEF IInv
<1>1. ASSUME NEW r \in Request, Call(t, r) PROVE IInv'
  <2>1. TypeOK'
    BY <1>1, <1>t, AdjustedRequest DEF Call, TypeOK
  <2>2. LockInv'
    BY <1>1, <1>t DEF Call, TypeOK, LockInv
  <2> QED BY <1>1, <1>t, <2>1, <2>2, LocalStep DEF Call, TypeOK
<1>2. CASE LoadPage(t)
  <2>1. TypeOK'
    BY <1>2, <1>t, CurrentPage DEF LoadPage, TypeOK
  <2>2. LockInv'
    BY <1>2, <1>t DEF LoadPage, TypeOK, LockInv
  <2>3. cp'[t] \in InUse
    BY <1>2, <1>t, CurrentPage DEF LoadPage, TypeOK
  <2> QED BY <1>2, <1>t, <2>1, <2>2, <2>3, LocalStep DEF LoadPage, TypeOK
<1>3. CASE LoadOffset(t)
  <2>1. cp[t] \in InUse /\ cp[t] \in Page
    BY <1>3, <1>t, NameAssumption DEF LoadOffset, PlaceInv, TypeOK, InUse, Range
  <2>2. TypeOK' /\ HeaderSize <= old'[t]
    BY <1>3, <1>t, <2>1 DEF LoadOffset, TypeOK, ChunkInv
  <2>3. LockInv'
    BY <1>3, <1>t DEF LoadOffset, TypeOK, LockInv
  <2> QED BY <1>3, <1>t, <2>1, <2>2, <2>3, LocalStep DEF LoadOffset, TypeOK
<1>4. CASE Full(t)
  <2>1. TypeOK'
    <3>1. CASE TooLarge(t)
      <4>1. /\ pc' = [pc EXCEPT ![t] = "idle"] /\ req' = [req EXCEPT ![t] = NoRequest]
            /\ cp' = [cp EXCEPT ![t] = NoPage] /\ old' = [old EXCEPT ![t] = 0]
            /\ UNCHANGED <<cur, free, numCurPages, numFreePages, offset, spinlock, fresh, chunks>>
        BY <1>4, <3>1 DEF Full
      <4> QED BY <1>t, <4>1 DEF TypeOK
    <3>2. CASE ~TooLarge(t)
      BY <1>4, <1>t, <3>2 DEF Full, TypeOK
    <3> QED BY <3>1, <3>2
  <2>2. LockInv'
    BY <1>4, <1>t DEF Full, TypeOK, LockInv
  <2> QED BY <1>4, <1>t, <2>1, <2>2, LocalStep DEF Full, TypeOK, PlaceInv
<1>5. CASE Lock(t)
  <2>1. TypeOK'
    BY <1>5, <1>t DEF Lock, TypeOK
  <2>2. LockInv'
    BY <1>5, <1>t, NameAssumption DEF Lock, TypeOK, LockInv
  <2> QED BY <1>5, <1>t, <2>1, <2>2, LocalStep DEF Lock, TypeOK, PlaceInv
<1>6. CASE SomebodyWasFirst(t)
  <2>1. TypeOK'
    BY <1>6, <1>t DEF SomebodyWasFirst, TypeOK
  <2>2. LockInv'
    BY <1>6, <1>t DEF SomebodyWasFirst, TypeOK, LockInv
  <2> QED BY <1>6, <1>t, <2>1, <2>2, LocalStep DEF SomebodyWasFirst, TypeOK, PlaceInv
<1>7. CASE MallocFails(t)
  <2>1. TypeOK'
    BY <1>7, <1>t DEF MallocFails, TypeOK
  <2>2. LockInv'
    BY <1>7, <1>t, NameAssumption DEF MallocFails, TypeOK, LockInv
  <2> QED BY <1>7, <1>t, <2>1, <2>2, LocalStep DEF MallocFails, TypeOK
<1>8. CASE Unlock(t)
  <2>1. TypeOK'
    BY <1>8, <1>t DEF Unlock, TypeOK
  <2>2. LockInv'
    BY <1>8, <1>t, NameAssumption DEF Unlock, TypeOK, LockInv
  <2> QED BY <1>8, <1>t, <2>1, <2>2, LocalStep DEF Unlock, TypeOK
<1> QED BY <1>1, <1>2, <1>3, <1>4, <1>5, <1>6, <1>7, <1>8

\* The chunk lies between the offset the thread read and the one it stores.
LEMMA ExchangeStep ==
  ASSUME IInv, NEW t \in Thread, Exchange(t)
  PROVE  IInv'
<1> DEFINE p == cp[t]
           a == Aligned(t)
           n == NextOffset(t)
           c == [page |-> p, from |-> a, to |-> n, align |-> req[t].align]
<1> USE NoRequestIsRequest DEF Goto, Leave, pageVars
<1>t. TypeOK /\ LockInv /\ PlaceInv /\ ChunkInv /\ ReadInv /\ FreshInv /\ Disjoint
  BY DEF IInv
<1>p. /\ p \in InUse /\ p \in Page /\ HeaderSize <= old[t] /\ pc[t] = "try" /\ old[t] \in Nat
      /\ req[t].size \in Nat \ {0} /\ req[t].align \in Nat \ {0}
  <2>1. pc[t] = "try" /\ p \in InUse
    BY <1>t DEF Exchange, PlaceInv
  <2>2. HeaderSize <= old[t]
    BY <1>t, <2>1 DEF ReadInv
  <2>3. old[t] \in Nat /\ req[t].size \in Nat \ {0} /\ req[t].align \in Nat \ {0}
    BY <1>t DEF TypeOK
  <2>4. p \in Page
    BY <1>t, <2>1, NameAssumption DEF TypeOK, InUse, Range
  <2> QED BY <2>1, <2>2, <2>3, <2>4
<1>1. CASE offset[p] # old[t]
  <2>1. TypeOK'
    BY <1>1, <1>t, <1>p DEF Exchange, Claim, TypeOK
  <2>2. LockInv'
    BY <1>1, <1>t DEF Exchange, Claim, LockInv
  <2> QED BY <1>1, <1>t, <1>p, <2>1, <2>2, LocalStep DEF Exchange, Claim, TypeOK, ChunkInv
<1>2. CASE offset[p] = old[t]
  <2>1. /\ a \in Nat /\ a >= old[t] /\ a % req[t].align = 0 /\ n = a + req[t].size /\ n <= PageSize
    BY <1>p, AlignUpBounds DEF Aligned, NextOffset, Exchange, Fits
  <2>2. /\ offset' = [offset EXCEPT ![p] = n] /\ chunks' = chunks \cup {c}
        /\ pc' = [pc EXCEPT ![t] = "idle"] /\ req' = [req EXCEPT ![t] = NoRequest]
        /\ cp' = [cp EXCEPT ![t] = NoPage] /\ old' = [old EXCEPT ![t] = 0]
        /\ UNCHANGED <<pageVars, spinlock, fresh>>
    BY <1>2 DEF Exchange, Claim
  <2> HIDE DEF p, a, n
  <2>3. c.page = p /\ c.from = a /\ c.to = n /\ c.align = req[t].align
    OBVIOUS
  <2>4. c \in [page : Page, from : Nat, to : Nat, align : Nat \ {0}]
    BY <1>p, <2>1
  <2> HIDE DEF c
  <2>5. TypeOK'
    <3>1. offset' \in [Page -> Nat]
      BY <1>t, <1>p, <2>1, <2>2 DEF TypeOK
    <3>2. chunks' \subseteq [page : Page, from : Nat, to : Nat, align : Nat \ {0}]
      BY <1>t, <2>2, <2>4 DEF TypeOK
    <3> QED BY <1>t, <2>2, <3>1, <3>2 DEF TypeOK
  <2>6. LockInv'
    BY <1>t, <1>p, <2>2 DEF LockInv, TypeOK
  <2>7. PlaceInv'
    BY <1>t, <1>p, <2>2 DEF PlaceInv, TypeOK, InUse
  <2>8. offset'[p] = n /\ \A q \in Page : q # p => offset'[q] = offset[q]
    BY <1>t, <1>p, <2>2 DEF TypeOK
  <2>9. HeaderSize \in Nat /\ PageSize \in Nat /\ offset \in [Page -> Nat] /\ InUse \subseteq Page
    BY <1>t, SizeAssumption DEF TypeOK, InUse, Range
  <2>10. ChunkInv'
    <3>1. \A q \in InUse' : HeaderSize <= offset'[q] /\ offset'[q] <= PageSize
      BY <1>2, <1>t, <1>p, <2>1, <2>2, <2>8, <2>9 DEF ChunkInv, InUse, p
    <3>2. ASSUME NEW b \in chunks'
          PROVE  /\ b.page \in InUse' /\ HeaderSize <= b.from /\ b.from < b.to
                 /\ b.to <= offset'[b.page] /\ b.from % b.align = 0
      <4>1. CASE b = c
        BY <1>p, <2>1, <2>2, <2>3, <2>8, <2>9, <4>1 DEF InUse
      <4>2. CASE b \in chunks
        <5>1. /\ b.page \in InUse /\ b.page \in Page /\ b.to \in Nat /\ b.to <= offset[b.page]
              /\ HeaderSize <= b.from /\ b.from < b.to /\ b.from % b.align = 0
          BY <1>t, <4>2 DEF ChunkInv, TypeOK
        <5>2. b.to <= offset'[b.page]
          BY <1>2, <1>p, <2>1, <2>8, <2>9, <5>1 DEF p
        <5> QED BY <2>2, <5>1, <5>2 DEF InUse
      <4> QED BY <2>2, <4>1, <4>2
    <3> QED BY <3>1, <3>2 DEF ChunkInv
  <2>11. Disjoint'
    <3>1. ASSUME NEW b \in chunks, b.page = p PROVE b.to <= c.from
      BY <1>2, <1>t, <1>p, <2>1, <2>3, <3>1 DEF ChunkInv, TypeOK, p
    <3> QED BY <1>t, <2>2, <2>3, <3>1 DEF Disjoint
  <2>12. ReadInv'
    BY <1>t, <2>2 DEF ReadInv, TypeOK
  <2>13. ASSUME NEW u \in Thread, pc'[u] = "publish" PROVE offset'[fresh'[u]] = HeaderSize
    <3>1. pc[u] = "publish"
      BY <1>t, <2>2, <2>13 DEF TypeOK
    <3>2. fresh[u] \in Page /\ fresh[u] # p
      BY <1>t, <1>p, <3>1 DEF PlaceInv, TypeOK
    <3>3. offset[fresh[u]] = HeaderSize
      BY <1>t, <3>1 DEF FreshInv
    <3> QED BY <2>2, <2>8, <3>2, <3>3
  <2> QED BY <2>5, <2>6, <2>7, <2>10, <2>11, <2>12, <2>13 DEF IInv, FreshInv
<1> QED BY <1>1, <1>2

LEMMA NewPageStep ==
  ASSUME IInv, NEW t \in Thread, NewPage(t)
  PROVE  IInv'
<1> USE DEF Goto
<1>t. TypeOK /\ LockInv /\ PlaceInv /\ ChunkInv /\ ReadInv /\ FreshInv /\ Disjoint
  BY DEF IInv
<1>s. HeaderSize \in Nat /\ pc[t] = "check"
  BY SizeAssumption DEF NewPage
<1>1. PICK x \in Page :
        /\ fresh' = [fresh EXCEPT ![t] = x] /\ x \notin InUse \cup Range(free')
        /\ free' \in Seq(Page) /\ IsInjective(free') /\ Range(free') \subseteq Range(free)
        /\ \A u \in Thread \ {t} : x # fresh[u]
  <2>1. \A u \in Thread \ {t} : fresh[u] = NoPage
    BY <1>t, <1>s DEF LockInv, PlaceInv
  <2>2. CASE free # << >>
    <3>1. fresh' = [fresh EXCEPT ![t] = Head(free)] /\ free' = Tail(free)
      BY <2>2 DEF NewPage
    <3>2. free \in Seq(Page) /\ IsInjective(free) /\ InUse \cap Range(free) = {}
      BY <1>t DEF PlaceInv, TypeOK
    <3>3. /\ Head(free) \in Range(free) /\ Head(free) \in Page /\ Tail(free) \in Seq(Page)
          /\ IsInjective(Tail(free)) /\ Range(Tail(free)) \subseteq Range(free)
          /\ Head(free) \notin Range(Tail(free))
      BY <2>2, <3>2, TakeFront
    <3> QED BY <2>1, <3>1, <3>2, <3>3, NameAssumption
  <2>3. CASE free = << >>
    <3>1. PICK x \in Unused : fresh' = [fresh EXCEPT ![t] = x]
      BY <2>3 DEF NewPage
    <3>2. free' = free
      BY <2>3 DEF NewPage
    <3> QED BY <1>t, <2>1, <3>1, <3>2, NameAssumption DEF Unused, PlaceInv, TypeOK
  <2> QED BY <2>2, <2>3
<1>2. /\ fresh'[t] = x /\ offset' = [offset EXCEPT ![x] = HeaderSize]
      /\ pc' = [pc EXCEPT ![t] = "publish"] /\ InUse' = InUse
      /\ UNCHANGED <<cur, spinlock, req, cp, old, chunks>>
  BY <1>t, <1>1 DEF NewPage, TypeOK, InUse
<1>3. numCurPages' \in Nat /\ numFreePages' = Len(free') /\ numFreePages' \in Nat
  <2>1. numCurPages' \in Nat
    BY <1>t DEF NewPage, TypeOK
  <2>2. numFreePages' = Len(free')
    <3>1. CASE free # << >>
      <4>1. Len(Tail(free)) = Len(free) - 1
        BY <1>t, <3>1, HeadTailProperties DEF TypeOK
      <4> QED BY <1>t, <3>1, <4>1 DEF NewPage, PlaceInv
    <3>2. CASE free = << >>
      BY <1>t, <3>2 DEF NewPage, PlaceInv
    <3> QED BY <3>1, <3>2
  <2> QED BY <1>1, <2>1, <2>2, LenProperties
<1>4. LockInv'
  BY <1>t, <1>s, <1>2 DEF LockInv, TypeOK
<1>5. PlaceInv'
  BY <1>t, <1>s, <1>1, <1>2, <1>3, NameAssumption DEF PlaceInv, TypeOK
<1>6. ChunkInv'
  <2>1. \A q \in InUse : offset'[q] = offset[q]
    BY <1>t, <1>1, <1>2 DEF TypeOK, InUse, Range
  <2> QED BY <1>t, <1>2, <2>1 DEF ChunkInv
<1>7. Disjoint'
  BY <1>t, <1>2 DEF Disjoint
<1>8. TypeOK'
  <2>1. offset' \in [Page -> Nat] /\ fresh' \in [Thread -> Page \cup {NoPage}]
    BY <1>t, <1>s, <1>1, <1>2 DEF TypeOK
  <2> QED BY <1>t, <1>1, <1>2, <1>3, <2>1 DEF TypeOK
<1>9. ReadInv'
  BY <1>t, <1>2 DEF ReadInv, TypeOK
<1>10. FreshInv'
  <2>1. \A u \in Thread \ {t} : pc'[u] # "publish"
    BY <1>t, <1>s, <1>2 DEF LockInv, TypeOK
  <2>2. offset'[x] = HeaderSize
    BY <1>t, <1>2 DEF TypeOK
  <2> QED BY <1>2, <2>1, <2>2 DEF FreshInv
<1> QED BY <1>4, <1>5, <1>6, <1>7, <1>8, <1>9, <1>10 DEF IInv

LEMMA PublishStep ==
  ASSUME IInv, NEW t \in Thread, Publish(t)
  PROVE  IInv'
<1> USE DEF Goto
<1>t. TypeOK /\ LockInv /\ PlaceInv /\ ChunkInv /\ ReadInv /\ FreshInv /\ Disjoint
  BY DEF IInv
<1> DEFINE x == fresh[t]
<1>1. /\ pc[t] = "publish" /\ x \in Page /\ x \notin InUse \cup Range(free)
      /\ cur' = <<x>> \o cur /\ fresh' = [fresh EXCEPT ![t] = NoPage]
      /\ pc' = [pc EXCEPT ![t] = "unlock"]
      /\ UNCHANGED <<free, numCurPages, numFreePages, offset, spinlock, req, cp, old, chunks>>
  BY <1>t DEF Publish, PlaceInv, TypeOK
<1>2. cur' \in Seq(Page) /\ cur' # << >> /\ IsInjective(cur') /\ InUse' = {x} \cup InUse
  <2>1. <<x>> \in Seq(Page) /\ IsInjective(<<x>>) /\ Range(<<x>>) = {x} /\ Len(<<x>>) = 1
    BY <1>1 DEF IsInjective, Range
  <2>2. cur \in Seq(Page) /\ IsInjective(cur) /\ Range(cur) = InUse
    BY <1>t DEF TypeOK, PlaceInv, InUse
  <2>3. /\ <<x>> \o cur \in Seq(Page) /\ IsInjective(<<x>> \o cur)
        /\ Range(<<x>> \o cur) = {x} \cup InUse
    <3>1. Range(<<x>>) \cap Range(cur) = {}
      BY <1>1, <2>1, <2>2
    <3> QED BY <2>1, <2>2, <3>1, JoinChains
  <2>4. <<x>> \o cur # << >>
    BY <2>3, <2>1 DEF Range
  <2> QED BY <1>1, <2>3, <2>4 DEF InUse
<1>h. HeaderSize \in Nat /\ PageSize \in Nat /\ HeaderSize < PageSize
  BY SizeAssumption
<1>3. TypeOK'
  BY <1>t, <1>1, <1>2 DEF TypeOK
<1>4. LockInv'
  BY <1>t, <1>1 DEF LockInv, TypeOK
<1>5. PlaceInv'
  <2>1. \A u \in Thread \ {t} : fresh[u] = NoPage
    BY <1>t, <1>1 DEF LockInv, PlaceInv
  <2>2. NoPage \notin InUse' \cup Range(free)
    BY <1>t, <1>1, <1>2, NameAssumption DEF TypeOK, InUse, Range
  <2>3. \A u \in Thread : fresh'[u] = NoPage /\ pc'[u] # "publish"
    BY <1>t, <1>1, <2>1 DEF TypeOK, LockInv
  <2>4. ASSUME NEW u \in Thread, pc'[u] \notin {"idle", "load"} PROVE cp'[u] \in InUse'
    BY <1>t, <1>1, <1>2, <2>4 DEF PlaceInv, TypeOK
  <2> QED BY <1>t, <1>1, <1>2, <2>2, <2>3, <2>4 DEF PlaceInv
<1>6. ChunkInv'
  <2>1. offset[x] = HeaderSize
    BY <1>t, <1>1 DEF FreshInv
  <2>2. \A q \in InUse' : HeaderSize <= offset'[q] /\ offset'[q] <= PageSize
    BY <1>t, <1>1, <1>2, <1>h, <2>1 DEF ChunkInv
  <2> QED BY <1>t, <1>1, <1>2, <2>2 DEF ChunkInv
<1>7. Disjoint'
  BY <1>t, <1>1 DEF Disjoint
<1>8. ReadInv' /\ FreshInv'
  <2>1. \A u \in Thread : pc'[u] = "try" => pc[u] = "try"
    BY <1>t, <1>1 DEF TypeOK
  <2>2. \A u \in Thread : pc'[u] # "publish"
    BY <1>t, <1>1 DEF TypeOK, LockInv
  <2> QED BY <1>t, <1>1, <2>1, <2>2 DEF ReadInv, FreshInv
<1> QED BY <1>3, <1>4, <1>5, <1>6, <1>7, <1>8 DEF IInv

LEMMA ResetStep ==
  ASSUME IInv, Reset
  PROVE  IInv'
<1> DEFINE last == cur[Len(cur)]
           f == Mirror(SubSeq(cur, 1, Len(cur) - 1))
<1>t. TypeOK /\ LockInv /\ PlaceInv /\ ChunkInv /\ ReadInv /\ FreshInv
  BY DEF IInv
<1>1. cur \in Seq(Page) /\ cur # << >> /\ IsInjective(cur) /\ Range(cur) = InUse
  BY <1>t DEF TypeOK, PlaceInv, InUse
<1>2. /\ f \in Seq(Page) /\ IsInjective(f) /\ Range(f) \subseteq InUse /\ last \notin Range(f)
      /\ last \in InUse /\ last \in Page /\ Len(f) = Len(cur) - 1
  BY <1>1, FrontReversed
<1>3. /\ free' = f \o free /\ cur' = <<last>> /\ numCurPages' = 1
      /\ numFreePages' = numFreePages + Len(f) /\ chunks' = {}
      /\ \A t \in Thread : pc[t] = "idle"
      /\ UNCHANGED <<offset, spinlock, pc, req, cp, old, fresh>>
  BY <1>t, <1>1, <1>2, LenProperties DEF Reset, TypeOK
<1> HIDE DEF last, f
<1>4. /\ f \o free \in Seq(Page) /\ IsInjective(f \o free)
      /\ Range(f \o free) = Range(f) \cup Range(free) /\ Len(f \o free) = Len(f) + Len(free)
      /\ Len(f) \in Nat /\ Len(free) \in Nat
  <2>1. free \in Seq(Page) /\ IsInjective(free) /\ Range(f) \cap Range(free) = {}
    BY <1>t, <1>2 DEF TypeOK, PlaceInv
  <2>2. Len(f \o free) = Len(f) + Len(free) /\ Len(f) \in Nat /\ Len(free) \in Nat
    BY <1>2, <2>1, ConcatProperties, LenProperties
  <2> QED BY <1>2, <2>1, <2>2, JoinChains
<1>5. /\ cur' \in Seq(Page) /\ cur' # << >> /\ IsInjective(cur') /\ InUse' = {last}
  BY <1>2, <1>3 DEF IsInjective, Range, InUse
<1>6. TypeOK'
  BY <1>t, <1>3, <1>4, <1>5 DEF TypeOK, PlaceInv
<1>7. LockInv'
  BY <1>t, <1>3 DEF LockInv
<1>8. PlaceInv'
  <2>1. \A t \in Thread : fresh[t] = NoPage
    BY <1>t, <1>3 DEF PlaceInv
  <2>2. InUse' \cap Range(free') = {} /\ numFreePages' = Len(free')
    BY <1>t, <1>2, <1>3, <1>4, <1>5 DEF PlaceInv, TypeOK
  <2>3. NoPage \notin InUse' \cup Range(free')
    <3>1. free' \in Seq(Page)
      BY <1>3, <1>4
    <3>2. \A q \in Range(free') : q \in Page
      BY <3>1 DEF Range
    <3> QED BY <1>2, <1>5, <3>2, NameAssumption
  <2> QED BY <1>t, <1>3, <1>4, <1>5, <2>1, <2>2, <2>3 DEF PlaceInv
<1>9. ChunkInv'
  BY <1>t, <1>2, <1>3, <1>5 DEF ChunkInv
<1>10. Disjoint'
  BY <1>3 DEF Disjoint
<1>11. ReadInv' /\ FreshInv'
  BY <1>3 DEF ReadInv, FreshInv
<1> QED BY <1>6, <1>7, <1>8, <1>9, <1>10, <1>11 DEF IInv

LEMMA InitInv == Init => IInv
<1> SUFFICES ASSUME Init PROVE IInv
  OBVIOUS
<1>1. PICK p \in Page : cur = <<p>>
  BY DEF Init
<1>2. cur \in Seq(Page) /\ cur # << >> /\ IsInjective(cur) /\ InUse = {p}
  BY <1>1 DEF IsInjective, Range, InUse
<1>3. free = << >> /\ free \in Seq(Page) /\ IsInjective(free) /\ Range(free) = {} /\ Len(free) = 0
  BY DEF Init, IsInjective, Range
<1>4. TypeOK
  BY <1>2, <1>3, SizeAssumption, NoRequestIsRequest DEF Init, TypeOK
<1>5. LockInv
  BY NameAssumption DEF Init, LockInv
<1>6. PlaceInv
  BY <1>2, <1>3, NameAssumption DEF Init, PlaceInv
<1>7. ChunkInv /\ Disjoint
  BY SizeAssumption, <1>2 DEF Init, ChunkInv, Disjoint
<1>8. ReadInv /\ FreshInv
  BY DEF Init, ReadInv, FreshInv
<1> QED BY <1>4, <1>5, <1>6, <1>7, <1>8 DEF IInv

\* The invariant is inductive: who holds the spinlock, where every page is, and
\* how chunks lie below their page's offset.
THEOREM Invariance == Spec => []IInv
<1>1. IInv /\ [Next]_vars => IInv'
  <2> SUFFICES ASSUME IInv, [Next]_vars PROVE IInv'
    OBVIOUS
  <2>1. CASE UNCHANGED vars
    BY <2>1 DEF vars, pageVars, IInv, TypeOK, LockInv, PlaceInv, ChunkInv,
                ReadInv, FreshInv, Disjoint, InUse
  <2>2. ASSUME NEW t \in Thread, Allocate(t) PROVE IInv'
    BY <2>2, ThreadStep, ExchangeStep, NewPageStep, PublishStep DEF Allocate
  <2>3. ASSUME NEW t \in Thread, NEW r \in Request, Call(t, r) PROVE IInv'
    BY <2>3, ThreadStep
  <2> QED BY <2>1, <2>2, <2>3, ResetStep DEF Next
<1> QED BY <1>1, InitInv, PTL DEF Spec

\* The variables keep their types: a page's offset is never that of no page.
THEOREM TypeCorrect == Spec => []TypeOK
<1>1. IInv => TypeOK
  BY DEF IInv
<1> QED BY <1>1, Invariance, PTL

\* allocate() never hands out a byte twice between two calls of reset().
THEOREM NoByteTwice == Spec => []Disjoint
<1>1. IInv => Disjoint
  BY DEF IInv
<1> QED BY <1>1, Invariance, PTL

\* A chunk lies in its page behind the header, aligned as adjusted.
THEOREM ChunksInBounds == Spec => []InBounds
<1>1. IInv => InBounds
  <2> SUFFICES ASSUME IInv, NEW a \in chunks
               PROVE  HeaderSize <= a.from /\ a.to <= PageSize /\ a.from % a.align = 0
    BY DEF InBounds
  <2>1. /\ a.page \in InUse /\ a.page \in Page /\ HeaderSize <= a.from /\ a.to <= offset[a.page]
        /\ a.from % a.align = 0 /\ offset[a.page] <= PageSize /\ a.to \in Nat
        /\ offset[a.page] \in Nat
    BY DEF IInv, ChunkInv, TypeOK
  <2> QED BY <2>1, SizeAssumption
<1> QED BY <1>1, Invariance, PTL

\* No page with live chunks is in the free chain.
THEOREM LivePagesAreKept == Spec => []ChunksStayInUse
<1>1. IInv => ChunksStayInUse
  BY DEF IInv, ChunkInv, ChunksStayInUse
<1> QED BY <1>1, Invariance, PTL

-----------------------------------------------------------------------------
(* Pages are counted, and given up only when they are full.                *)

\* Division of natural numbers.
LEMMA Division ==
  ASSUME NEW x \in Nat, NEW a \in Nat \ {0}
  PROVE  /\ x \div a \in Nat /\ x % a \in 0..(a - 1)
         /\ x = a * (x \div a) + (x % a)
OBVIOUS

\* alignUp() rounds up to a multiple that is less than align away.
LEMMA Rounding ==
  ASSUME NEW n \in Nat, NEW a \in Nat \ {0}
  PROVE  \E p, r \in Nat : r < a /\ n + a - 1 = a * p + r /\ AlignUp(n, a) = a * p
<1> DEFINE x == n + a - 1
<1>1. x \in Nat
  OBVIOUS
<1>2. AlignUp(n, a) = (x \div a) * a /\ x = n + a - 1
  BY DEF AlignUp
<1> HIDE DEF x
<1>3. /\ x \div a \in Nat /\ x % a \in 0..(a - 1)
      /\ x = a * (x \div a) + (x % a)
  BY <1>1, Division
<1>4. (x \div a) * a = a * (x \div a) /\ x % a \in Nat /\ x % a < a
  BY <1>3
<1>5. n + a - 1 = a * (x \div a) + (x % a) /\ AlignUp(n, a) = a * (x \div a)
  BY <1>2, <1>3, <1>4
<1> QED BY <1>3, <1>4, <1>5

\* A larger multiple is larger by one step at least.
LEMMA NextMultiple ==
  ASSUME NEW a \in Nat \ {0}, NEW p \in Nat, NEW q \in Nat, p > q
  PROVE  a * p \in Nat /\ a * q \in Nat /\ a * p >= a * q + a
<1>1. p - q - 1 \in Nat /\ p = q + 1 + (p - q - 1)
  OBVIOUS
<1>2. a * p = a * q + a + a * (p - q - 1)
  BY <1>1
<1>3. a * (p - q - 1) \in Nat /\ a * q \in Nat /\ a * p \in Nat
  BY <1>1
<1> QED BY <1>2, <1>3

\* alignUp() is monotonic.
LEMMA AlignUpGrows ==
  ASSUME NEW m \in Nat, NEW n \in Nat, m <= n, NEW a \in Nat \ {0}
  PROVE  AlignUp(m, a) <= AlignUp(n, a)
<1>1. PICK p, r \in Nat : r < a /\ m + a - 1 = a * p + r /\ AlignUp(m, a) = a * p
  BY Rounding
<1>2. PICK q, s \in Nat : s < a /\ n + a - 1 = a * q + s /\ AlignUp(n, a) = a * q
  BY Rounding
<1>3. CASE p > q
  <2>1. a * p \in Nat /\ a * q \in Nat /\ a * p >= a * q + a
    BY <1>3, NextMultiple
  <2> QED BY <1>1, <1>2, <2>1
<1>4. CASE p = q
  BY <1>1, <1>2, <1>4
<1>5. CASE p < q
  <2>1. a * p \in Nat /\ a * q \in Nat /\ a * q >= a * p + a
    BY <1>5, NextMultiple
  <2> QED BY <1>1, <1>2, <2>1
<1> QED BY <1>3, <1>4, <1>5

\* A multiple of align needs no rounding.
LEMMA AlignUpOfMultiple ==
  ASSUME NEW n \in Nat, NEW a \in Nat \ {0}, n % a = 0
  PROVE  AlignUp(n, a) = n
<1>1. PICK p, r \in Nat : r < a /\ n + a - 1 = a * p + r /\ AlignUp(n, a) = a * p
  BY Rounding
<1>2. PICK q \in Nat : n = a * q
  <2>1. n \div a \in Nat /\ n = a * (n \div a) + (n % a)
    BY Division
  <2>2. n = a * (n \div a)
    BY <2>1
  <2> QED BY <2>1, <2>2
<1>3. ~(p > q)
  <2> SUFFICES ASSUME p > q PROVE FALSE
    OBVIOUS
  <2>1. a * p \in Nat /\ a * q \in Nat /\ a * p >= a * q + a
    BY NextMultiple
  <2> QED BY <1>1, <1>2, <2>1
<1>4. ~(p < q)
  <2> SUFFICES ASSUME p < q PROVE FALSE
    OBVIOUS
  <2>1. a * p \in Nat /\ a * q \in Nat /\ a * q >= a * p + a
    BY NextMultiple
  <2> QED BY <1>1, <1>2, <2>1
<1>5. p = q
  BY <1>3, <1>4
<1> QED BY <1>1, <1>2, <1>5

\* While a thread makes a page, no other page is between the chains.
LEMMA OneInFlight ==
  ASSUME IInv
  PROVE  /\ InFlight = {} <=> \A t \in Thread : pc[t] # "publish"
         /\ \A t \in Thread : pc[t] = "publish" => InFlight = {fresh[t]} /\ fresh[t] \in Page
<1>1. \A t \in Thread : fresh[t] # NoPage <=> pc[t] = "publish"
  BY DEF IInv, PlaceInv
<1>2. \A t, u \in Thread : pc[t] = "publish" /\ pc[u] = "publish" => t = u
  BY DEF IInv, LockInv
<1>3. \A t \in Thread : fresh[t] \in Page \cup {NoPage}
  BY DEF IInv, TypeOK
<1> QED BY <1>1, <1>2, <1>3 DEF InFlight

LEMMA CountStep ==
  ASSUME IInv, IInv', CountInv, Next
  PROVE  CountInv'
<1>t. TypeOK /\ TypeOK' /\ LockInv /\ PlaceInv
  BY DEF IInv
<1>l. Len(cur) \in Nat /\ Len(cur') \in Nat /\ numCurPages \in Nat
  BY <1>t, LenProperties DEF TypeOK
<1>1. ASSUME NEW t \in Thread, NewPage(t) PROVE CountInv'
  <2>1. pc[t] = "check" /\ pc'[t] = "publish" /\ cur' = cur /\ numCurPages' = numCurPages + 1
    BY <1>1, <1>t DEF NewPage, Goto, TypeOK
  <2>2. \A u \in Thread : pc[u] # "publish"
    BY <1>t, <2>1 DEF LockInv
  <2>3. InFlight = {} /\ InFlight' # {}
    BY <2>1, <2>2, OneInFlight DEF InFlight, IInv, PlaceInv
  <2> QED BY <1>l, <2>1, <2>3 DEF CountInv
<1>2. ASSUME NEW t \in Thread, Publish(t) PROVE CountInv'
  <2>1. /\ pc[t] = "publish" /\ pc' = [pc EXCEPT ![t] = "unlock"]
        /\ cur' = <<fresh[t]>> \o cur /\ numCurPages' = numCurPages
    BY <1>2 DEF Publish, Goto
  <2>2. InFlight # {} /\ fresh[t] \in Page
    BY <2>1, OneInFlight
  <2>3. \A u \in Thread : pc'[u] # "publish"
    BY <1>t, <2>1 DEF LockInv, TypeOK
  <2>4. InFlight' = {}
    <3>1. \A u \in Thread : fresh'[u] = NoPage
      BY <2>3 DEF IInv, PlaceInv
    <3> QED BY <3>1 DEF InFlight
  <2>5. Len(cur') = 1 + Len(cur)
    <3>1. <<fresh[t]>> \in Seq(Page) /\ Len(<<fresh[t]>>) = 1 /\ cur \in Seq(Page)
      BY <1>t, <2>2 DEF TypeOK
    <3> QED BY <2>1, <3>1, ConcatProperties
  <2> QED BY <1>l, <2>1, <2>2, <2>4, <2>5 DEF CountInv
<1>3. CASE Reset
  <2>1. \A t \in Thread : pc[t] # "publish" /\ pc'[t] = pc[t]
    BY <1>3 DEF Reset
  <2>2. InFlight' = {}
    <3>1. \A u \in Thread : fresh'[u] = NoPage
      BY <2>1 DEF IInv, PlaceInv
    <3> QED BY <3>1 DEF InFlight
  <2>3. numCurPages' = 1 /\ Len(cur') = 1
    BY <1>3 DEF Reset
  <2> QED BY <2>2, <2>3 DEF CountInv
<1>4. ASSUME UNCHANGED <<cur, numCurPages, fresh>> PROVE CountInv'
  BY <1>4 DEF CountInv, InFlight
<1>5. ASSUME NEW t \in Thread,
             \/ LoadPage(t) \/ LoadOffset(t) \/ Full(t) \/ Exchange(t)
             \/ Lock(t) \/ SomebodyWasFirst(t) \/ MallocFails(t) \/ Unlock(t)
             \/ \E r \in Request : Call(t, r)
      PROVE  UNCHANGED <<cur, numCurPages, fresh>>
  BY <1>5 DEF LoadPage, LoadOffset, Full, Exchange, Lock, SomebodyWasFirst, MallocFails, Unlock, Call, pageVars
<1> QED BY <1>1, <1>2, <1>3, <1>4, <1>5 DEF Next, Allocate

\* Every page that malloc() returned is in one place, and the counters are right.
THEOREM NoPageIsLost == Spec => []PagesAccounted
<1>1. Init => CountInv
  <2> SUFFICES ASSUME Init PROVE CountInv
    OBVIOUS
  <2>1. InFlight = {}
    BY DEF Init, InFlight
  <2> QED BY <2>1 DEF Init, CountInv
<1>2. IInv /\ IInv' /\ CountInv /\ [Next]_vars => CountInv'
  <2>1. CountInv /\ UNCHANGED vars => CountInv'
    BY DEF CountInv, InFlight, vars, pageVars
  <2> QED BY <2>1, CountStep
<1>3. IInv /\ CountInv => PagesAccounted
  <2> SUFFICES ASSUME IInv, CountInv PROVE PagesAccounted
    OBVIOUS
  <2>1. InFlight \cap (InUse \cup Range(free)) = {}
    BY DEF IInv, PlaceInv, InFlight
  <2>2. Cardinality(InFlight) = IF InFlight = {} THEN 0 ELSE 1
    <3>1. CASE InFlight = {}
      BY <3>1, FS_EmptySet
    <3>2. CASE InFlight # {}
      <4>1. PICK t \in Thread : pc[t] = "publish"
        BY <3>2, OneInFlight
      <4>2. InFlight = {fresh[t]}
        BY <4>1, OneInFlight
      <4> QED BY <3>2, <4>2, FS_Singleton
    <3> QED BY <3>1, <3>2
  <2> QED BY <2>1, <2>2 DEF PagesAccounted, CountInv, IInv, PlaceInv
<1> QED BY <1>1, <1>2, <1>3, Invariance, PTL DEF Spec

\* Offsets of pages in use only grow, and only Publish() changes the chain.
LEMMA PagesFillUp ==
  ASSUME IInv, NEW t \in Thread, Allocate(t) \/ \E r \in Request : Call(t, r)
  PROVE  /\ \A p \in InUse : offset[p] <= offset'[p]
         /\ pc[t] # "publish" => cur' = cur
         /\ \A u \in Thread \ {t} : pc'[u] = pc[u] /\ req'[u] = req[u] /\ cp'[u] = cp[u] /\ old'[u] = old[u]
<1>t. TypeOK /\ PlaceInv /\ LockInv /\ ChunkInv /\ InUse \subseteq Page
  BY DEF IInv, TypeOK, InUse, Range
<1>s. \A p \in InUse : offset[p] \in Nat
  BY <1>t DEF TypeOK
<1>1. CASE Exchange(t)
  <2>1. cp[t] \in InUse
    BY <1>1, <1>t DEF Exchange, PlaceInv
  <2>2. old[t] \in Nat /\ req[t].size \in Nat \ {0} /\ req[t].align \in Nat \ {0}
    BY <1>t DEF TypeOK
  <2>3. old[t] <= NextOffset(t)
    <3>1. Aligned(t) \in Nat /\ Aligned(t) >= old[t]
      BY <2>2, AlignUpBounds DEF Aligned
    <3> QED BY <2>2, <3>1 DEF NextOffset
  <2>4. \A p \in InUse : offset[p] <= offset'[p]
    <3>1. CASE offset[cp[t]] = old[t]
      <4>1. offset' = [offset EXCEPT ![cp[t]] = NextOffset(t)] /\ NextOffset(t) \in Nat
        <5>1. Aligned(t) \in Nat
          BY <2>2, AlignUpBounds DEF Aligned
        <5> QED BY <1>1, <2>2, <3>1, <5>1 DEF Exchange, Claim, NextOffset
      <4> QED BY <1>t, <1>s, <2>1, <2>3, <3>1, <4>1 DEF TypeOK
    <3>2. CASE offset[cp[t]] # old[t]
      BY <1>1, <1>s, <3>2 DEF Exchange, Claim
    <3> QED BY <3>1, <3>2
  <2> QED BY <1>1, <1>t, <2>4 DEF Exchange, Claim, Leave, Goto, TypeOK, pageVars
<1>2. CASE NewPage(t)
  <2>1. fresh'[t] \notin InUse
    <3>1. CASE free # << >>
      <4>1. fresh' = [fresh EXCEPT ![t] = Head(free)] /\ free \in Seq(Page) /\ IsInjective(free)
        BY <1>2, <1>t, <3>1 DEF NewPage, PlaceInv, TypeOK
      <4>2. Head(free) \in Range(free)
        BY <3>1, <4>1, TakeFront
      <4> QED BY <1>t, <4>1, <4>2 DEF PlaceInv, TypeOK
    <3>2. CASE free = << >>
      BY <1>2, <1>t, <3>2 DEF NewPage, Unused, TypeOK
    <3> QED BY <3>1, <3>2
  <2>2. \A p \in InUse : offset'[p] = offset[p]
    BY <1>2, <1>t, <2>1 DEF NewPage, TypeOK
  <2> QED BY <1>2, <1>t, <1>s, <2>2 DEF NewPage, Goto, TypeOK
<1>3. CASE Publish(t)
  BY <1>3, <1>t, <1>s DEF Publish, Goto, TypeOK
<1>4. CASE LoadPage(t) \/ LoadOffset(t) \/ Lock(t) \/ SomebodyWasFirst(t) \/ Unlock(t)
  BY <1>4, <1>t, <1>s DEF LoadPage, LoadOffset, Lock, SomebodyWasFirst, Unlock, Goto, TypeOK, pageVars
<1>5. CASE Full(t) \/ MallocFails(t)
  BY <1>5, <1>t, <1>s DEF Full, MallocFails, Leave, Goto, TypeOK, pageVars
<1>6. ASSUME NEW r \in Request, Call(t, r) 
      PROVE  /\ \A p \in InUse : offset[p] <= offset'[p]
             /\ cur' = cur
             /\ \A u \in Thread \ {t} : pc'[u] = pc[u] /\ req'[u] = req[u] /\ cp'[u] = cp[u] /\ old'[u] = old[u]
  BY <1>6, <1>t, <1>s DEF Call, Goto, TypeOK, pageVars
<1> QED BY <1>1, <1>2, <1>3, <1>4, <1>5, <1>6 DEF Allocate

\* What a thread knows stays true while the others go on.
LEMMA OthersStep ==
  ASSUME IInv, IInv', FullInv, NEW t \in Thread, Allocate(t) \/ (\E r \in Request : Call(t, r)),
         NEW u \in Thread \ {t}
  PROVE  FullOf(u)'
<1>1. /\ pc'[u] = pc[u] /\ req'[u] = req[u] /\ cp'[u] = cp[u] /\ old'[u] = old[u]
      /\ \A p \in InUse : offset[p] <= offset'[p]
      /\ pc[t] # "publish" => cur' = cur
  BY PagesFillUp
<1>2. FullOf(u)
  BY DEF FullInv
<1>3. pc[u] = "publish" => pc[t] # "publish"
  BY DEF IInv, LockInv
<1>4. ASSUME pc[u] \in {"try", "lock", "check", "publish"} PROVE old'[u] <= offset'[cp'[u]]
  <2>1. cp[u] \in InUse /\ old[u] <= offset[cp[u]]
    BY <1>2, <1>4 DEF FullOf, IInv, PlaceInv
  <2>2. old[u] \in Nat /\ offset[cp[u]] \in Nat /\ offset[cp[u]] <= offset'[cp[u]]
    <3>1. offset \in [Page -> Nat] /\ old \in [Thread -> Nat] /\ cur \in Seq(Page)
      BY DEF IInv, TypeOK
    <3>2. cp[u] \in Page
      BY <2>1, <3>1 DEF InUse, Range
    <3> QED BY <1>1, <2>1, <3>1, <3>2
  <2>3. offset'[cp[u]] \in Nat
    BY <2>1 DEF IInv, TypeOK, InUse, Range
  <2> QED BY <1>1, <2>1, <2>2, <2>3
<1> QED BY <1>1, <1>2, <1>3, <1>4 DEF FullOf, Fits, TooLarge, NextOffset, Aligned

\* A thread goes for a new page only with a request that the old one cannot take.
LEMMA OwnStep ==
  ASSUME IInv, IInv', FullInv, NEW t \in Thread, Allocate(t) \/ (\E r \in Request : Call(t, r))
  PROVE  FullOf(t)'
<1>t. TypeOK /\ TypeOK' /\ PlaceInv /\ LockInv /\ FullOf(t) /\ InUse \subseteq Page
  <2>1. InUse \subseteq Page
    BY DEF IInv, TypeOK, InUse, Range
  <2> QED BY <2>1 DEF IInv, FullInv
<1>h. HeaderSize \in Nat /\ HeaderSize % NoRequest.align = 0
  BY SizeAssumption DEF NoRequest
<1>l. ASSUME Leave(t) PROVE FullOf(t)'
  <2>1. pc'[t] = "idle" /\ req'[t] = NoRequest
    BY <1>t, <1>l DEF Leave, Goto, TypeOK
  <2> QED BY <1>h, <2>1 DEF FullOf
<1>1. ASSUME NEW r \in Request, Call(t, r) PROVE FullOf(t)'
  <2>1. pc'[t] = "load" /\ req'[t].align = AlignAdjust(r) /\ ~Refused(r)
    BY <1>1, <1>t DEF Call, Goto, TypeOK
  <2> QED BY <2>1, HeaderAssumption DEF FullOf
<1>2. CASE LoadPage(t) \/ SomebodyWasFirst(t) \/ Publish(t) \/ Unlock(t)
  <2>1. pc'[t] \in {"loadOffset", "unlock", "load"} /\ req' = req
    BY <1>2, <1>t DEF LoadPage, SomebodyWasFirst, Publish, Unlock, Goto, TypeOK
  <2> QED BY <1>t, <2>1 DEF FullOf
<1>3. CASE LoadOffset(t)
  <2>1. pc'[t] = "try" /\ req' = req /\ cp' = cp /\ old'[t] = offset[cp[t]] /\ offset' = offset
    BY <1>3, <1>t DEF LoadOffset, Goto, TypeOK
  <2>2. cp[t] \in InUse
    BY <1>3, <1>t DEF LoadOffset, PlaceInv
  <2>3. offset[cp[t]] \in Nat
    BY <1>t, <2>2 DEF TypeOK
  <2> QED BY <1>t, <2>1, <2>3 DEF FullOf
<1>4. CASE Full(t)
  <2>1. CASE Leave(t)
    BY <2>1, <1>l
  <2>2. CASE ~Leave(t)
    <3>1. /\ pc[t] = "try" /\ ~Fits(t) /\ ~TooLarge(t) /\ pc'[t] = "lock"
          /\ UNCHANGED <<req, cp, old, offset>>
      BY <1>4, <1>t, <2>2 DEF Full, Goto, TypeOK
    <3> QED BY <1>t, <3>1 DEF FullOf, Fits, TooLarge, NextOffset, Aligned
  <2> QED BY <2>1, <2>2
<1>5. CASE Exchange(t)
  <2>1. CASE Leave(t)
    BY <2>1, <1>l
  <2>2. CASE ~Leave(t)
    <3>1. pc[t] = "try" /\ pc' = pc /\ req' = req /\ cp' = cp /\ offset' = offset /\ old'[t] = offset[cp[t]]
      BY <1>5, <1>t, <2>2 DEF Exchange, Claim, TypeOK
    <3>2. cp[t] \in InUse
      BY <1>t, <3>1 DEF PlaceInv
    <3>3. offset[cp[t]] \in Nat
      BY <1>t, <3>2 DEF TypeOK
    <3> QED BY <1>t, <3>1, <3>3 DEF FullOf
  <2> QED BY <2>1, <2>2
<1>6. CASE Lock(t)
  <2>1. pc[t] = "lock" /\ pc'[t] = "check" /\ UNCHANGED <<req, cp, old, offset>>
    BY <1>6, <1>t DEF Lock, Goto, TypeOK
  <2> QED BY <1>t, <2>1 DEF FullOf, Fits, TooLarge, NextOffset, Aligned
<1>7. CASE NewPage(t)
  <2>1. pc[t] = "check" /\ pc'[t] = "publish" /\ Head(cur) = cp[t] /\ UNCHANGED <<cur, req, cp, old>>
    BY <1>7, <1>t DEF NewPage, MustMakePage, Goto, TypeOK
  <2>2. cp[t] \in InUse /\ old[t] <= offset[cp[t]]
    BY <1>t, <2>1 DEF FullOf, PlaceInv
  <2>3. offset[cp[t]] <= offset'[cp[t]]
    BY <1>7, <2>2, PagesFillUp DEF Allocate
  <2>4. old[t] \in Nat /\ offset[cp[t]] \in Nat /\ offset'[cp[t]] \in Nat
    BY <1>t, <2>2 DEF TypeOK
  <2>5. old[t] <= offset'[cp[t]]
    BY <2>2, <2>3, <2>4
  <2> QED BY <1>t, <2>1, <2>5 DEF FullOf, Fits, TooLarge, NextOffset, Aligned
<1>8. CASE MallocFails(t)
  BY <1>8, <1>l DEF MallocFails
<1> QED BY <1>1, <1>2, <1>3, <1>4, <1>5, <1>6, <1>7, <1>8 DEF Allocate

\* A new page is put in front of the current one only for a request that does not
\* fit on that (a smaller one might still), and that does fit on the new page.
THEOREM GivenUpForTheRequest == Spec => []GivenUpOnlyWhenFull
<1>1. Init => FullInv
  BY SizeAssumption DEF Init, FullInv, FullOf, NoRequest
<1>2. IInv /\ IInv' /\ FullInv /\ [Next]_vars => FullInv'
  <2> SUFFICES ASSUME IInv, IInv', FullInv, [Next]_vars PROVE FullInv'
    OBVIOUS
  <2>1. CASE UNCHANGED vars
    BY <2>1 DEF FullInv, FullOf, Fits, TooLarge, NextOffset, Aligned, vars, pageVars
  <2>2. ASSUME NEW t \in Thread, Allocate(t) \/ (\E r \in Request : Call(t, r)) PROVE FullInv'
    <3>1. ASSUME NEW u \in Thread PROVE FullOf(u)'
      BY <2>2, OwnStep, OthersStep
    <3> QED BY <3>1 DEF FullInv
  <2>3. CASE Reset
    BY <2>3 DEF Reset, FullInv, FullOf
  <2> QED BY <2>1, <2>2, <2>3 DEF Next
<1>3. IInv /\ FullInv => GivenUpOnlyWhenFull
  <2> SUFFICES ASSUME IInv, FullInv, NEW t \in Thread, pc[t] = "publish"
               PROVE  /\ ~(AlignUp(offset[Head(cur)], req[t].align) + req[t].size <= PageSize)
                      /\ AlignUp(offset[fresh[t]], req[t].align) + req[t].size <= PageSize
    BY DEF GivenUpOnlyWhenFull
  <2>1. /\ cp[t] = Head(cur) /\ old[t] <= offset[cp[t]] /\ ~Fits(t) /\ ~TooLarge(t)
        /\ HeaderSize % req[t].align = 0
    BY DEF FullInv, FullOf
  <2>2. /\ old[t] \in Nat /\ req[t].size \in Nat \ {0} /\ req[t].align \in Nat \ {0}
        /\ HeaderSize \in Nat /\ PageSize \in Nat
    BY SizeAssumption DEF IInv, TypeOK
  <2>3. offset[cp[t]] \in Nat
    <3>1. cp[t] \in InUse /\ TypeOK
      BY DEF IInv, PlaceInv
    <3>2. cp[t] \in Page
      BY <3>1 DEF TypeOK, InUse, Range
    <3> QED BY <3>1, <3>2 DEF TypeOK
  <2>4. offset[fresh[t]] = HeaderSize
    BY DEF IInv, FreshInv
  <2>5. AlignUp(old[t], req[t].align) <= AlignUp(offset[cp[t]], req[t].align)
    BY <2>1, <2>2, <2>3, AlignUpGrows
  <2>6. /\ AlignUp(old[t], req[t].align) \in Nat /\ AlignUp(offset[cp[t]], req[t].align) \in Nat
    BY <2>2, <2>3, AlignUpBounds
  <2>7. ~(AlignUp(old[t], req[t].align) + req[t].size <= PageSize)
    BY <2>1 DEF Fits, NextOffset, Aligned
  <2>8. ~(AlignUp(offset[cp[t]], req[t].align) + req[t].size <= PageSize)
    BY <2>2, <2>5, <2>6, <2>7
  <2>9. AlignUp(HeaderSize, req[t].align) = HeaderSize
    BY <2>1, <2>2, AlignUpOfMultiple
  <2>10. HeaderSize + req[t].size <= PageSize
    BY <2>1, <2>2 DEF TooLarge
  <2> QED BY <2>1, <2>4, <2>8, <2>9, <2>10
<1> QED BY <1>1, <1>2, <1>3, Invariance, PTL DEF Spec
=============================================================================
