---------------------------- MODULE BucketProofs ----------------------------
(***************************************************************************)
(* Proofs about Bucket, for buckets in the user bucket: MaxDepth is 1.     *)
(* With deeper ones CommittedBucketsReadable does not hold (BucketNested). *)
(*                                                                         *)
(* A version is what its user root leads to: a root for every path.  The   *)
(* writer has such roots too; those of the buckets it has opened are in    *)
(* sub_bucket_map and not in the tree yet.  The invariant says that the    *)
(* writer changes only pages no version has, and that pages a version has  *)
(* are pending for later transactions only.                                *)
(***************************************************************************)
EXTENDS Bucket, WellFoundedInduction, TLAPS

-----------------------------------------------------------------------------
(* The inductive invariant.                                                 *)

\* Page ids, with and without "there is none".
Root == 0 .. kPageInvalidId

\* The roots of the version with this user root.
RootsOf(pg, root) == [path \in Paths |-> RootAt(pg, root, path)]

\* The roots of the writer's buckets: mp is the map of the user bucket.
WorkRootsOf(pg, root, mp) ==
    [path \in Paths |->
        IF path # << >> /\ path[1] \in DOMAIN mp THEN mp[path[1]].pgid
        ELSE RootAt(pg, root, path)]

\* The buckets with these roots.
BucketWith(pg, r) == [exists |-> TRUE, content |-> Content(pg, r)]
Buckets(pg, F) == [path \in Paths |-> IF F[path] = NoBucket THEN Missing ELSE BucketWith(pg, F[path])]

Has(F, p) == p \in PageIds /\ \E path \in Paths : F[path] = p

Distinct(F) == \A s, t \in Paths : F[s] = F[t] /\ F[s] \in PageIds => s = t

IsLeaf(x) ==
    /\ x = LeafNode(x.last_modified_txid, x.entries)
    /\ x.last_modified_txid \in TxIds
    /\ DOMAIN x.entries \subseteq Keys \cup Names
    /\ \A n \in Names : n \in DOMAIN x.entries => x.entries[n].value \in Root

IsFile(pg) == pg = [p \in PageIds |-> pg[p]] /\ \A p \in PageIds : IsLeaf(pg[p])

IsMeta(m) == m \in [txid : TxIds, user_root : Root, page_count : 0 .. PageMaxCount]

\* Page p is kept for transaction v, which began when meta was m.
IsKept(p, v, m, pg, free, pend) ==
    /\ p < m.page_count
    /\ pg[p].last_modified_txid <= m.txid
    /\ p \notin free
    /\ \A t \in TxIds : p \in pend[t] => t > v

\* What transaction v has seen is there, and stays.
IsVersion(v, root, seen, m, pg, free, pend) ==
    /\ v \in TxIds /\ v <= m.txid
    /\ root \in Root
    /\ Buckets(pg, RootsOf(pg, root)) = seen
    /\ \A p \in PageIds : Has(RootsOf(pg, root), p) => IsKept(p, v, m, pg, free, pend)

\* Page p belongs to the writer with the meta u.
IsInWork(p, u, pg, free, pend) ==
    /\ p < u.page_count
    /\ pg[p].last_modified_txid <= u.txid
    /\ p \notin free
    /\ \A t \in TxIds : p \notin pend[t]

\* The writer's buckets have the roots F.
IsWork(F, seen, u, pg, free, pend) ==
    /\ F \in [Paths -> 0 .. NoBucket] /\ F[<< >>] \in Root
    /\ Distinct(F)
    /\ Buckets(pg, F) = seen
    /\ \A p \in PageIds : Has(F, p) => IsInWork(p, u, pg, free, pend)

UserMap   == sub_bucket_map[kUserRootBucketId]
WorkRoots == WorkRootsOf(page, update_tx.user_root, UserMap)

WorkInv ==
    writer # "idle" =>
        /\ update_tx.txid = meta.txid + 1
        /\ meta.page_count <= update_tx.page_count
        /\ IsWork(WorkRoots, work, update_tx, page, free_map, pending_map)
        /\ \A p \in alloc_records : page[p].last_modified_txid = update_tx.txid

VersionInv ==
    /\ IsVersion(meta.txid, meta.user_root, committed, meta, page, free_map, pending_map)
    /\ Distinct(RootsOf(page, meta.user_root))
    /\ \A r \in OpenViews : IsVersion(views[r].txid, views[r].user_root, views[r].seen,
                                      meta, page, free_map, pending_map)

PagerInv ==
    /\ free_map \subseteq 0 .. (meta.page_count - 1)
    /\ alloc_records \subseteq 0 .. (meta.page_count - 1)
    /\ pending_map \in [TxIds -> SUBSET PageIds]
    /\ \A t \in TxIds : \A p \in pending_map[t] :
          /\ t <= meta.txid => p < meta.page_count
          /\ t > meta.txid => writer # "idle" /\ t = update_tx.txid /\ p < update_tx.page_count
          /\ p \notin free_map
          /\ writer # "idle" => p \notin alloc_records
          /\ \A u \in TxIds : p \in pending_map[u] => u = t

\* The objects of the writer.
Handle(n) == [parent |-> kUserRootBucketId, key |-> n, path |-> <<n>>]

IsMap(mp, cache) ==
    /\ DOMAIN mp \subseteq Names
    /\ \A n \in DOMAIN mp :
          mp[n] \in [id : 1 .. Len(cache), pgid : Root] /\ cache[mp[n].id] = Handle(n)
    /\ \A i \in 1 .. Len(cache) : cache[i].key \in DOMAIN mp /\ mp[cache[i].key].id = i

HandleInv ==
    /\ ops \in 0 .. MaxOps
    /\ sub_bucket_cache \in Seq({Handle(n) : n \in Names})
    /\ Len(sub_bucket_cache) <= ops
    /\ sub_bucket_map = [o \in BucketIds |-> IF o = kUserRootBucketId THEN UserMap ELSE << >>]
    /\ IsMap(UserMap, sub_bucket_cache)
    /\ stored \subseteq {<<kUserRootBucketId, n>> : n \in DOMAIN UserMap}
    /\ \A n \in Names : <<kUserRootBucketId, n>> \in stored =>
          SubRootAt(page, update_tx.user_root, n) = UserMap[n].pgid

StateInv ==
    /\ IsMeta(meta)
    /\ IsMeta(update_tx)
    /\ writer \in {"idle", "open", "storing"}
    /\ writer = "idle" => /\ update_tx = NoUpdateTx /\ sub_bucket_map = NoMaps
                          /\ sub_bucket_cache = << >> /\ stored = {}
    /\ writer = "open" => stored = {}
    /\ IsFile(page)
    /\ views = [r \in Readers |-> views[r]]
    /\ \A r \in Readers : views[r].txid \in TxIds /\ views[r].user_root \in Root

IInv == StateInv /\ PagerInv /\ HandleInv /\ VersionInv /\ WorkInv

-----------------------------------------------------------------------------
(* Paths, and the roots they lead to.                                       *)

LEMMA ConstantFacts ==
    /\ Names \cap Keys = {} /\ NoValue \notin Values
    /\ MaxOps \in Nat /\ MaxTxId \in Nat /\ MaxTxId >= 1
    /\ PageMaxCount \in Nat /\ PageMaxCount >= 4
  BY ConstantsAssumption

\* At one level there are the user bucket and the buckets in it.
LEMMA PathCases ==
    ASSUME MaxDepth = 1, NEW path \in Paths
    PROVE  path = << >> \/ \E n \in Names : path = <<n>>
  <1>1. PICK n \in 0 .. 1 : path \in [1 .. n -> Names]
    BY DEF Paths
  <1>2. CASE n = 0
    <2>1. path \in [1 .. 0 -> Names]
      BY <1>1, <1>2
    <2>2. path \in Seq(Names) /\ Len(path) = 0
      BY <2>1
    <2>3. QED
      BY <2>2
  <1>3. CASE n = 1
    <2>1. path \in [1 .. 1 -> Names]
      BY <1>1, <1>3
    <2>2. path \in Seq(Names) /\ Len(path) = 1 /\ path[1] \in Names
      BY <2>1
    <2>3. path = <<path[1]>>
      BY <2>2
    <2>4. QED
      BY <2>2, <2>3
  <1>4. QED
    BY <1>1, <1>2, <1>3

LEMMA PathFacts ==
    ASSUME MaxDepth = 1
    PROVE  /\ << >> \in Paths
           /\ \A n \in Names : <<n>> \in Paths /\ <<n>> # << >> /\ <<n>>[1] = n
           /\ \A m, n \in Names : <<m>> = <<n>> => m = n
  <1>1. << >> \in Paths
    <2>1. << >> \in [1 .. 0 -> Names]
      OBVIOUS
    <2>2. QED
      BY <2>1 DEF Paths
  <1>2. ASSUME NEW n \in Names
        PROVE  <<n>> \in Paths
    <2>1. <<n>> \in [1 .. 1 -> Names]
      OBVIOUS
    <2>2. QED
      BY <2>1 DEF Paths
  <1>3. QED
    BY <1>1, <1>2

\* The roots on the way down a path.
AreBelow(f, pg, root, path) ==
    f = [i \in 0 .. Len(path) |->
            IF i = 0 THEN root ELSE SubRootAt(pg, f[i - 1], path[i])]

Below(pg, root, path) == CHOOSE f : AreBelow(f, pg, root, path)

LEMMA RootAtBelow ==
    ASSUME NEW pg, NEW root, NEW path
    PROVE  RootAt(pg, root, path) = Below(pg, root, path)[Len(path)]
  BY DEF RootAt, Below, AreBelow

LEMMA RootAtEmpty ==
    ASSUME NEW pg, NEW root
    PROVE  RootAt(pg, root, << >>) = root
  <1> DEFINE g == [i \in 0 .. 0 |-> root]
             f == Below(pg, root, << >>)
  <1>1. AreBelow(g, pg, root, << >>)
    BY DEF AreBelow
  <1>2. AreBelow(f, pg, root, << >>)
    BY <1>1 DEF Below
  <1> HIDE DEF f
  <1>3. f[0] = root
    BY <1>2 DEF AreBelow
  <1>4. QED
    BY <1>3, RootAtBelow DEF f

LEMMA RootAtName ==
    ASSUME NEW pg, NEW root, NEW n
    PROVE  RootAt(pg, root, <<n>>) = SubRootAt(pg, root, n)
  <1> DEFINE x == SubRootAt(pg, root, n)
             g == [i \in 0 .. 1 |-> IF i = 0 THEN root ELSE x]
             f == Below(pg, root, <<n>>)
  <1>1. AreBelow(g, pg, root, <<n>>)
    <2>1. Len(<<n>>) = 1 /\ <<n>>[1] = n
      OBVIOUS
    <2>2. g[0] = root
      OBVIOUS
    <2>3. \A i \in 0 .. 1 :
             g[i] = IF i = 0 THEN root ELSE SubRootAt(pg, g[i - 1], <<n>>[i])
      BY <2>1, <2>2
    <2>4. g = [i \in 0 .. 1 |-> IF i = 0 THEN root ELSE SubRootAt(pg, g[i - 1], <<n>>[i])]
      BY <2>3
    <2>5. QED
      BY <2>1, <2>4 DEF AreBelow
  <1>2. AreBelow(f, pg, root, <<n>>)
    BY <1>1 DEF Below
  <1> HIDE DEF f
  <1>3. f[0] = root /\ f[1] = SubRootAt(pg, f[0], n)
    BY <1>2 DEF AreBelow
  <1>4. QED
    BY <1>3, RootAtBelow DEF f

LEMMA RootsOfFacts ==
    ASSUME MaxDepth = 1, NEW pg, NEW root
    PROVE  /\ RootsOf(pg, root)[<< >>] = root
           /\ \A n \in Names : RootsOf(pg, root)[<<n>>] = SubRootAt(pg, root, n)
  BY PathFacts, RootAtEmpty, RootAtName DEF RootsOf

LEMMA WorkRootsFacts ==
    ASSUME MaxDepth = 1, NEW pg, NEW root, NEW mp
    PROVE  /\ WorkRootsOf(pg, root, mp)[<< >>] = root
           /\ \A n \in Names : WorkRootsOf(pg, root, mp)[<<n>>] =
                 IF n \in DOMAIN mp THEN mp[n].pgid ELSE SubRootAt(pg, root, n)
  BY PathFacts, RootAtEmpty, RootAtName DEF WorkRootsOf

\* Functions on paths are equal if they agree on the two kinds of paths.
OnPaths(F) == F = [path \in Paths |-> F[path]]
SameRoots(F, G) == F[<< >>] = G[<< >>] /\ \A n \in Names : F[<<n>>] = G[<<n>>]

LEMMA PathFunctions ==
    ASSUME MaxDepth = 1, NEW F, NEW G, OnPaths(F), OnPaths(G), SameRoots(F, G)
    PROVE  F = G
  <1>1. \A path \in Paths : F[path] = G[path]
    BY PathCases DEF SameRoots
  <1>2. QED
    BY <1>1 DEF OnPaths

LEMMA RootsOnPaths ==
    ASSUME NEW pg, NEW root, NEW mp
    PROVE  OnPaths(RootsOf(pg, root)) /\ OnPaths(WorkRootsOf(pg, root, mp))
  BY DEF OnPaths, RootsOf, WorkRootsOf

LEMMA RootBounds ==
    /\ kPageInvalidId \in Root /\ kPageInvalidId \in Nat /\ kPageInvalidId \notin PageIds
    /\ NoBucket = kPageInvalidId + 1 /\ NoBucket \notin Root /\ NoBucket \notin PageIds
    /\ \A r \in Root : r \in PageIds \/ r = kPageInvalidId
    /\ PageIds \subseteq Root /\ PageIds \subseteq Nat /\ Root \subseteq Nat
    /\ \A r \in 0 .. NoBucket : r \in Root \/ r = NoBucket
    /\ Root \subseteq 0 .. NoBucket /\ NoBucket \in 0 .. NoBucket
  BY ConstantFacts DEF Root, PageIds, kPageInvalidId, NoBucket

\* What the tree of a bucket says of a bucket in it.
LEMMA SubRootType ==
    ASSUME NEW pg, IsFile(pg), NEW root \in Root, NEW n \in Names
    PROVE  /\ SubRootAt(pg, root, n) \in 0 .. NoBucket
           /\ n \in DOMAIN Entries(pg, root) =>
                 SubRootAt(pg, root, n) = Entries(pg, root)[n].value /\ SubRootAt(pg, root, n) \in Root
           /\ n \notin DOMAIN Entries(pg, root) => SubRootAt(pg, root, n) = NoBucket
  <1>1. root # NoBucket
    BY RootBounds
  <1>2. ASSUME n \in DOMAIN Entries(pg, root)
        PROVE  SubRootAt(pg, root, n) = Entries(pg, root)[n].value /\ SubRootAt(pg, root, n) \in Root
    <2>1. root # kPageInvalidId
      <3>1. ASSUME root = kPageInvalidId PROVE DOMAIN Entries(pg, root) = {}
        BY <3>1 DEF Entries
      <3>2. QED
        BY <1>2, <3>1
    <2>2. root \in PageIds /\ IsLeaf(pg[root]) /\ Entries(pg, root) = pg[root].entries
      BY <2>1, RootBounds DEF IsFile, Entries
    <2>3. Entries(pg, root)[n].value \in Root
      BY <1>2, <2>2 DEF IsLeaf
    <2>4. QED
      BY <1>1, <1>2, <2>3 DEF SubRootAt
  <1>3. n \notin DOMAIN Entries(pg, root) => SubRootAt(pg, root, n) = NoBucket
    BY DEF SubRootAt
  <1>4. QED
    BY <1>2, <1>3, RootBounds

\* The trees of a version are read from its pages only.
LEMMA SameEntries ==
    ASSUME NEW pg, NEW pg2, NEW r \in Root, r \in PageIds => pg2[r] = pg[r]
    PROVE  /\ Entries(pg2, r) = Entries(pg, r)
           /\ \A n : SubRootAt(pg2, r, n) = SubRootAt(pg, r, n)
           /\ BucketWith(pg2, r) = BucketWith(pg, r)
  <1>1. Entries(pg2, r) = Entries(pg, r)
    BY RootBounds DEF Entries
  <1>2. QED
    BY <1>1 DEF SubRootAt, BucketWith, Content

LEMMA BucketsKept ==
    ASSUME NEW pg, NEW pg2, NEW F \in [Paths -> 0 .. NoBucket],
           \A p \in PageIds : Has(F, p) => pg2[p] = pg[p]
    PROVE  Buckets(pg2, F) = Buckets(pg, F)
  <1>1. ASSUME NEW path \in Paths, F[path] # NoBucket
        PROVE  BucketWith(pg2, F[path]) = BucketWith(pg, F[path])
    <2>1. F[path] \in Root
      BY <1>1, RootBounds
    <2>2. F[path] \in PageIds => pg2[F[path]] = pg[F[path]]
      BY DEF Has
    <2>3. QED
      BY <2>1, <2>2, SameEntries
  <1>2. QED
    BY <1>1 DEF Buckets

LEMMA RootsType ==
    ASSUME MaxDepth = 1, NEW pg, IsFile(pg), NEW root \in Root
    PROVE  RootsOf(pg, root) \in [Paths -> 0 .. NoBucket]
  <1>1. ASSUME NEW path \in Paths
        PROVE  RootAt(pg, root, path) \in 0 .. NoBucket
    <2>1. CASE path = << >>
      BY <2>1, RootAtEmpty, RootBounds
    <2>2. ASSUME NEW n \in Names, path = <<n>>
          PROVE  RootAt(pg, root, path) \in 0 .. NoBucket
      BY <2>2, RootAtName, SubRootType
    <2>3. QED
      BY <2>1, <2>2, PathCases
  <1>2. QED
    BY <1>1 DEF RootsOf

LEMMA RootsKept ==
    ASSUME MaxDepth = 1, NEW pg, IsFile(pg), NEW pg2, NEW root \in Root,
           \A p \in PageIds : Has(RootsOf(pg, root), p) => pg2[p] = pg[p]
    PROVE  /\ RootsOf(pg2, root) = RootsOf(pg, root)
           /\ Buckets(pg2, RootsOf(pg2, root)) = Buckets(pg, RootsOf(pg, root))
  <1>1. root \in PageIds => pg2[root] = pg[root]
    BY RootsOfFacts, PathFacts DEF Has
  <1>2. \A n : SubRootAt(pg2, root, n) = SubRootAt(pg, root, n)
    BY <1>1, SameEntries
  <1>3. RootsOf(pg2, root) = RootsOf(pg, root)
    <2>1. SameRoots(RootsOf(pg2, root), RootsOf(pg, root))
      BY <1>2, RootsOfFacts DEF SameRoots
    <2>2. QED
      BY <2>1, RootsOnPaths, PathFunctions
  <1>4. QED
    BY <1>3, RootsType, BucketsKept

\* A step that changes no page kept for a transaction, nor gives it away,
\* keeps what the transaction sees.
LEMMA VersionKept ==
    ASSUME MaxDepth = 1, NEW v, NEW root, NEW seen, NEW m, NEW pg, IsFile(pg), NEW free, NEW pend,
           IsVersion(v, root, seen, m, pg, free, pend),
           NEW m2, NEW pg2, NEW free2, NEW pend2, v <= m2.txid,
           \A p \in PageIds : IsKept(p, v, m, pg, free, pend) =>
              pg2[p] = pg[p] /\ IsKept(p, v, m2, pg2, free2, pend2)
    PROVE  /\ IsVersion(v, root, seen, m2, pg2, free2, pend2)
           /\ RootsOf(pg2, root) = RootsOf(pg, root)
  <1>1. root \in Root /\ v \in TxIds /\ Buckets(pg, RootsOf(pg, root)) = seen
    BY DEF IsVersion
  <1>2. ASSUME NEW p \in PageIds, Has(RootsOf(pg, root), p)
        PROVE  pg2[p] = pg[p] /\ IsKept(p, v, m2, pg2, free2, pend2)
    <2>1. IsKept(p, v, m, pg, free, pend)
      BY <1>2 DEF IsVersion
    <2>2. QED
      BY <2>1
  <1>3. /\ RootsOf(pg2, root) = RootsOf(pg, root)
        /\ Buckets(pg2, RootsOf(pg2, root)) = seen
    BY <1>1, <1>2, RootsKept
  <1>4. QED
    BY <1>1, <1>2, <1>3 DEF IsVersion

-----------------------------------------------------------------------------
(* The writer's buckets.                                                    *)

LEMMA LeafFields ==
    ASSUME NEW t, NEW e
    PROVE  LeafNode(t, e).last_modified_txid = t /\ LeafNode(t, e).entries = e
  BY DEF LeafNode

\* The tree at P is written, in its root or in a page x that is in no tree yet.
IsWrite(F, P, x, pend, pend2) ==
    /\ P \in Paths /\ F[P] # NoBucket
    /\ x = F[P] \/ ~Has(F, x)
    /\ \A t \in TxIds : x \notin pend[t]
    /\ \A t \in TxIds : \A p \in pend2[t] : p \in pend[t] \/ (p = F[P] /\ p # x)

IsGrown(u, u2, x) ==
    /\ IsMeta(u) /\ IsMeta(u2) /\ u2.txid = u.txid
    /\ u.page_count <= u2.page_count /\ x < u2.page_count

LEMMA WorkWritten ==
    ASSUME MaxDepth = 1, NEW F, NEW seen, NEW u, NEW pg, IsFile(pg), NEW free, NEW pend,
           IsWork(F, seen, u, pg, free, pend),
           NEW P, NEW x \in PageIds, NEW e, NEW u2, NEW pend2,
           IsWrite(F, P, x, pend, pend2), IsGrown(u, u2, x)
    PROVE  IsWork([F EXCEPT ![P] = x],
                  [seen EXCEPT ![P] = BucketWith([pg EXCEPT ![x] = LeafNode(u.txid, e)], x)],
                  u2, [pg EXCEPT ![x] = LeafNode(u.txid, e)], free \ {x}, pend2)
  <1> DEFINE pg2   == [pg EXCEPT ![x] = LeafNode(u.txid, e)]
             free2 == free \ {x}
  <1> USE DEF IsWrite, IsGrown
  <1> DEFINE G == [F EXCEPT ![P] = x]
  <1>1. /\ F \in [Paths -> 0 .. NoBucket] /\ F[<< >>] \in Root
        /\ Distinct(F) /\ Buckets(pg, F) = seen
        /\ \A p \in PageIds : Has(F, p) => IsInWork(p, u, pg, free, pend)
    BY DEF IsWork
  <1>2. x \in Root /\ x \in 0 .. NoBucket /\ x # NoBucket /\ x \in Nat
    BY RootBounds
  <1>3. G \in [Paths -> 0 .. NoBucket] /\ G[<< >>] \in Root
    BY <1>1, <1>2, PathFacts
  <1>4. G[P] = x /\ \A path \in Paths : path # P => G[path] = F[path]
    BY <1>1
  <1>5. \A path \in Paths : path # P => F[path] # x
    BY <1>1 DEF Distinct, Has
  <1>6. pg2[x] = LeafNode(u.txid, e) /\ \A p \in PageIds : p # x => pg2[p] = pg[p]
    BY DEF IsFile
  <1> HIDE DEF G, pg2
  <1>7. Distinct(G)
    <2>1. ASSUME NEW s \in Paths, NEW t \in Paths, G[s] = G[t], G[s] \in PageIds
          PROVE  s = t
      BY <1>1, <1>4, <1>5, <2>1 DEF Distinct
    <2>2. QED
      BY <2>1 DEF Distinct
  <1>8. Buckets(pg2, G) = [seen EXCEPT ![P] = BucketWith(pg2, x)]
    <2>1. ASSUME NEW path \in Paths, path # P
          PROVE  Buckets(pg2, G)[path] = seen[path]
      <3>1. F[path] # NoBucket => BucketWith(pg2, F[path]) = BucketWith(pg, F[path])
        <4>1. SUFFICES ASSUME F[path] # NoBucket PROVE BucketWith(pg2, F[path]) = BucketWith(pg, F[path])
          OBVIOUS
        <4>2. F[path] \in Root
          BY <1>1, <4>1, RootBounds
        <4>3. F[path] \in PageIds => pg2[F[path]] = pg[F[path]]
          BY <1>5, <1>6, <2>1
        <4>4. QED
          BY <4>2, <4>3, SameEntries
      <3>2. seen[path] = IF F[path] = NoBucket THEN Missing ELSE BucketWith(pg, F[path])
        BY <1>1 DEF Buckets
      <3>3. Buckets(pg2, G)[path] = IF F[path] = NoBucket THEN Missing ELSE BucketWith(pg2, F[path])
        BY <1>4, <2>1 DEF Buckets
      <3>4. QED
        BY <3>1, <3>2, <3>3
    <2>2. Buckets(pg2, G)[P] = BucketWith(pg2, x)
      BY <1>2, <1>4 DEF Buckets
    <2>3. seen = [path \in Paths |-> seen[path]]
      BY <1>1 DEF Buckets
    <2>4. Buckets(pg2, G) = [path \in Paths |-> Buckets(pg2, G)[path]]
      BY DEF Buckets
    <2>5. QED
      BY <2>1, <2>2, <2>3, <2>4
  <1>9. ASSUME NEW p \in PageIds, Has(G, p)
        PROVE  IsInWork(p, u2, pg2, free2, pend2)
    <2>1. u.txid \in Nat /\ u.page_count \in Nat /\ u2.page_count \in Nat /\ p \in Nat
      BY ConstantFacts, RootBounds DEF IsMeta, TxIds
    <2>2. CASE p = x
      BY <1>6, <2>1, <2>2, LeafFields DEF IsInWork
    <2>3. CASE p # x
      <3>1. PICK path \in Paths : G[path] = p
        BY <1>9 DEF Has
      <3>2. path # P /\ F[path] = p
        BY <1>4, <2>3, <3>1
      <3>3. Has(F, p) /\ p # F[P]
        BY <1>1, <3>2 DEF Has, Distinct
      <3>4. IsInWork(p, u, pg, free, pend)
        BY <1>1, <3>3
      <3>5. pg2[p] = pg[p]
        BY <1>6, <2>3
      <3>6. \A t \in TxIds : p \notin pend2[t]
        BY <3>3, <3>4 DEF IsInWork
      <3>7. QED
        BY <2>1, <3>4, <3>5, <3>6 DEF IsInWork
    <2>4. QED
      BY <2>2, <2>3
  <1>10. QED
    BY <1>3, <1>7, <1>8, <1>9 DEF IsWork, G, pg2

\* A new bucket has no root yet.
LEMMA WorkExtended ==
    ASSUME MaxDepth = 1, NEW F, NEW seen, NEW u, NEW pg, NEW free, NEW pend,
           IsWork(F, seen, u, pg, free, pend), NEW n \in Names, F[<<n>>] = NoBucket
    PROVE  IsWork([F EXCEPT ![<<n>>] = kPageInvalidId], [seen EXCEPT ![<<n>>] = Empty],
                  u, pg, free, pend)
  <1> DEFINE P == <<n>>
             G == [F EXCEPT ![P] = kPageInvalidId]
  <1>1. /\ F \in [Paths -> 0 .. NoBucket] /\ F[<< >>] \in Root
        /\ Distinct(F) /\ Buckets(pg, F) = seen
        /\ \A p \in PageIds : Has(F, p) => IsInWork(p, u, pg, free, pend)
    BY DEF IsWork
  <1>2. P \in Paths /\ P # << >> /\ << >> \in Paths
    BY PathFacts
  <1> HIDE DEF P
  <1>3. /\ G \in [Paths -> 0 .. NoBucket] /\ G[<< >>] \in Root
        /\ G[P] = kPageInvalidId /\ \A path \in Paths : path # P => G[path] = F[path]
    BY <1>1, <1>2, RootBounds
  <1> HIDE DEF G
  <1>4. Distinct(G)
    <2>1. ASSUME NEW s \in Paths, NEW t \in Paths, G[s] = G[t], G[s] \in PageIds
          PROVE  s = t
      BY <1>1, <1>3, <2>1, RootBounds DEF Distinct
    <2>2. QED
      BY <2>1 DEF Distinct
  <1>5. Buckets(pg, G) = [seen EXCEPT ![P] = Empty]
    <2>1. BucketWith(pg, kPageInvalidId) = Empty
      <3>1. DOMAIN Entries(pg, kPageInvalidId) = {}
        BY DEF Entries
      <3>2. Content(pg, kPageInvalidId) = [k \in Keys |-> NoValue]
        BY <3>1 DEF Content
      <3>3. QED
        BY <3>2 DEF BucketWith, Empty
    <2>2. Buckets(pg, G)[P] = Empty
      BY <1>2, <1>3, <2>1, RootBounds DEF Buckets
    <2>3. \A path \in Paths : path # P => Buckets(pg, G)[path] = seen[path]
      BY <1>1, <1>3 DEF Buckets
    <2>4. seen = [path \in Paths |-> seen[path]]
      BY <1>1 DEF Buckets
    <2>5. Buckets(pg, G) = [path \in Paths |-> Buckets(pg, G)[path]]
      BY DEF Buckets
    <2>6. QED
      BY <2>2, <2>3, <2>4, <2>5
  <1>6. ASSUME NEW p \in PageIds, Has(G, p)
        PROVE  IsInWork(p, u, pg, free, pend)
    <2>1. Has(F, p)
      BY <1>3, <1>6, RootBounds DEF Has
    <2>2. QED
      BY <1>1, <2>1
  <1>7. QED
    BY <1>3, <1>4, <1>5, <1>6 DEF IsWork, G, P

-----------------------------------------------------------------------------
(* Objects, and the pages the pager gives.                                  *)

LEMMA MinOfNats ==
    ASSUME NEW S, S \subseteq Nat, S # {}
    PROVE  Min(S) \in S /\ \A y \in S : Min(S) <= y
  <1> DEFINE R == OpToRel(<, Nat)
  <1>1. PICK x \in S : \A y \in S : ~(<<y, x>> \in R)
    <2>1. IsWellFoundedOn(R, Nat)
      BY NatLessThanWellFounded
    <2> HIDE DEF R
    <2>2. QED
      BY <2>1, WFMin
  <1>2. ASSUME NEW y \in S PROVE x <= y
    <2>1. x \in Nat /\ y \in Nat
      OBVIOUS
    <2>2. ~(y < x)
      BY <1>1, <2>1 DEF OpToRel
    <2>3. QED
      BY <2>1, <2>2
  <1>3. QED
    BY <1>2 DEF Min

LEMMA WorkFacts ==
    ASSUME IInv, writer # "idle"
    PROVE  /\ update_tx.txid = meta.txid + 1
           /\ meta.page_count <= update_tx.page_count
           /\ IsWork(WorkRoots, work, update_tx, page, free_map, pending_map)
           /\ \A p \in alloc_records : page[p].last_modified_txid = update_tx.txid
  BY DEF IInv, WorkInv

LEMMA MetaFacts ==
    ASSUME IInv
    PROVE  /\ IsMeta(meta) /\ IsMeta(update_tx)
           /\ meta.txid \in TxIds /\ update_tx.txid \in TxIds
           /\ meta.txid \in Nat /\ meta.page_count \in Nat
           /\ update_tx.txid \in Nat /\ update_tx.page_count \in Nat
           /\ meta.page_count <= PageMaxCount /\ update_tx.page_count <= PageMaxCount
           /\ meta.user_root \in Root /\ update_tx.user_root \in Root
           /\ IsFile(page)
  BY ConstantFacts DEF IInv, StateInv, IsMeta, TxIds

\* Object o is at its path, and its root is that of the bucket there.
LEMMA ObjectFacts ==
    ASSUME MaxDepth = 1, IInv, writer # "idle", NEW o \in Objects
    PROVE  /\ PathOf(o) \in Paths
           /\ RootOf(o) \in Root
           /\ WorkRoots[PathOf(o)] = RootOf(o)
           /\ o = kUserRootBucketId => PathOf(o) = << >> /\ RootOf(o) = update_tx.user_root
           /\ o # kUserRootBucketId =>
                 \E n \in Names : /\ n \in DOMAIN UserMap
                                  /\ o \in 1 .. Len(sub_bucket_cache)
                                  /\ sub_bucket_cache[o] = Handle(n)
                                  /\ UserMap[n].id = o
                                  /\ PathOf(o) = <<n>>
                                  /\ RootOf(o) = UserMap[n].pgid
  <1>1. CASE o = kUserRootBucketId
    <2>1. PathOf(o) = << >> /\ RootOf(o) = update_tx.user_root
      BY <1>1 DEF PathOf, RootOf
    <2>2. QED
      BY <1>1, <2>1, PathFacts, MetaFacts, WorkRootsFacts DEF WorkRoots
  <1>2. CASE o # kUserRootBucketId
    <2>1. sub_bucket_cache \in Seq({Handle(n) : n \in Names}) /\ IsMap(UserMap, sub_bucket_cache)
      BY DEF IInv, HandleInv
    <2>2. o \in 1 .. Len(sub_bucket_cache)
      BY <1>2, <2>1 DEF Objects, kUserRootBucketId
    <2>3. PICK n \in Names : sub_bucket_cache[o] = Handle(n)
      BY <2>1, <2>2
    <2>4. /\ sub_bucket_cache[o].key = n /\ sub_bucket_cache[o].path = <<n>>
          /\ sub_bucket_cache[o].parent = kUserRootBucketId
      BY <2>3 DEF Handle
    <2>5. n \in DOMAIN UserMap /\ UserMap[n].id = o /\ UserMap[n].pgid \in Root
      BY <2>1, <2>2, <2>4 DEF IsMap
    <2>6. PathOf(o) = <<n>> /\ RootOf(o) = UserMap[n].pgid
      BY <1>2, <2>4 DEF PathOf, RootOf, UserMap
    <2>7. WorkRoots[<<n>>] = UserMap[n].pgid
      BY <2>5, WorkRootsFacts DEF WorkRoots
    <2>8. QED
      BY <1>2, <2>2, <2>3, <2>5, <2>6, <2>7, PathFacts
  <1>3. QED
    BY <1>1, <1>2

\* A page that is handed out is in no version, no tree of the writer, and not
\* pending.
LEMMA NextPageFacts ==
    ASSUME IInv, writer # "idle"
    PROVE  /\ NextPage \in Nat
           /\ NextPage \in free_map \/ NextPage = update_tx.page_count
           /\ NextPage \in free_map => NextPage < meta.page_count
           /\ \A v : ~IsKept(NextPage, v, meta, page, free_map, pending_map)
           /\ ~Has(WorkRoots, NextPage)
           /\ \A t \in TxIds : NextPage \notin pending_map[t]
  <1> DEFINE q == NextPage
  <1>1. free_map \subseteq 0 .. (meta.page_count - 1)
    BY DEF IInv, PagerInv
  <1>2. free_map \subseteq Nat /\ \A p \in free_map : p < meta.page_count
    BY <1>1, MetaFacts
  <1>3. q \in free_map \/ q = update_tx.page_count
    BY <1>2, MinOfNats DEF NextPage
  <1> HIDE DEF q
  <1>4. q \in Nat /\ (q \in free_map => q < meta.page_count)
    BY <1>2, <1>3, MetaFacts
  <1>5. ASSUME NEW v PROVE ~IsKept(q, v, meta, page, free_map, pending_map)
    BY <1>3, WorkFacts, MetaFacts DEF IsKept
  <1>6. ~Has(WorkRoots, q)
    <2>1. SUFFICES ASSUME Has(WorkRoots, q) PROVE FALSE
      OBVIOUS
    <2>2. q \in PageIds
      BY <2>1 DEF Has
    <2>3. IsInWork(q, update_tx, page, free_map, pending_map)
      BY <2>1, <2>2, WorkFacts DEF IsWork
    <2>4. QED
      BY <1>3, <2>3, MetaFacts DEF IsInWork
  <1>7. ASSUME NEW t \in TxIds, q \in pending_map[t] PROVE FALSE
    <2>1. /\ q \notin free_map
          /\ t <= meta.txid => q < meta.page_count
          /\ t > meta.txid => q < update_tx.page_count
      BY <1>7 DEF IInv, PagerInv
    <2>2. t \in Nat
      BY ConstantFacts DEF TxIds
    <2>3. QED
      BY <1>3, <1>4, <2>1, <2>2, WorkFacts, MetaFacts
  <1>8. QED
    BY <1>3, <1>4, <1>5, <1>6, <1>7 DEF q

-----------------------------------------------------------------------------
(* BTreeWrite.                                                              *)

\* The map of the user bucket after the root of bucket n has become x.
IsMoved(mp, mp2, n, x) ==
    /\ DOMAIN mp2 = DOMAIN mp
    /\ \A j \in DOMAIN mp :
          mp2[j] = [id |-> mp[j].id, pgid |-> IF j = n THEN x ELSE mp[j].pgid]

IsUserMapOnly(maps) ==
    maps = [o \in BucketIds |-> IF o = kUserRootBucketId THEN maps[kUserRootBucketId] ELSE << >>]

\* The pages that a write makes pending: the old root.
IsPendingAfter(pend, pend2, root, x, u, pg) ==
    /\ pend2 \in [TxIds -> SUBSET PageIds]
    /\ \A t \in TxIds : \A p \in pend2[t] :
          \/ p \in pend[t]
          \/ t = u.txid /\ p = root /\ p # x /\ pg[p].last_modified_txid < u.txid

\* The meta of the writer, u, after a write.
IsMetaAfter(u, u2, o, x) ==
    /\ IsMeta(u2) /\ u2.txid = u.txid
    /\ u2.user_root = IF o = kUserRootBucketId THEN x ELSE u.user_root
    /\ u.page_count <= u2.page_count /\ x < u2.page_count

\* BTreeWrite has written the entries e to page x.
Written(x, o, e) ==
    /\ page' = [page EXCEPT ![x] = LeafNode(update_tx.txid, e)]
    /\ x = RootOf(o) \/ ~Has(WorkRoots, x)
    /\ \A t \in TxIds : x \notin pending_map[t]
    /\ \A v \in TxIds : ~IsKept(x, v, meta, page, free_map, pending_map)
    /\ IsMetaAfter(update_tx, update_tx', o, x)
    /\ free_map' = free_map \ {x}
    /\ alloc_records' = alloc_records \cup ({x} \cap free_map)
    /\ IsPendingAfter(pending_map, pending_map', RootOf(o), x, update_tx, page)

MapWritten(x, o, maps) ==
    IF o = kUserRootBucketId THEN sub_bucket_map' = maps
    ELSE /\ IsUserMapOnly(sub_bucket_map')
         /\ IsMoved(UserMap, sub_bucket_map'[kUserRootBucketId], sub_bucket_cache[o].key, x)

LEMMA MapFacts ==
    ASSUME IInv
    PROVE  /\ IsUserMapOnly(sub_bucket_map)
           /\ IsMap(UserMap, sub_bucket_cache)
           /\ kUserRootBucketId \in BucketIds
           /\ DOMAIN sub_bucket_map = BucketIds
  <1>1. kUserRootBucketId \in BucketIds
    BY ConstantFacts DEF BucketIds, kUserRootBucketId
  <1>2. sub_bucket_map = [o \in BucketIds |-> IF o = kUserRootBucketId THEN UserMap ELSE << >>]
        /\ IsMap(UserMap, sub_bucket_cache)
    BY DEF IInv, HandleInv
  <1>3. QED
    BY <1>1, <1>2 DEF IsUserMapOnly, UserMap

\* The root was made by this transaction: it is written in place.
LEMMA WriteInPlace ==
    ASSUME MaxDepth = 1, IInv, writer # "idle", NEW o \in Objects, NEW e, NEW maps,
           o = kUserRootBucketId \/ maps = sub_bucket_map,
           RootOf(o) # kPageInvalidId,
           ~CopyNeeded(page[RootOf(o)].last_modified_txid),
           page' = [page EXCEPT ![RootOf(o)].entries = e],
           sub_bucket_map' = maps,
           UNCHANGED <<update_tx, pagerVars>>
    PROVE  RootOf(o) \in PageIds /\ Written(RootOf(o), o, e) /\ MapWritten(RootOf(o), o, maps)
  <1> DEFINE x == RootOf(o)
             T == update_tx.txid
  <1>1. x \in PageIds
    BY ObjectFacts, RootBounds
  <1>2. Has(WorkRoots, x)
    BY <1>1, ObjectFacts DEF Has
  <1>3. IsInWork(x, update_tx, page, free_map, pending_map)
    BY <1>1, <1>2, WorkFacts DEF IsWork
  <1>4. IsFile(page) /\ IsLeaf(page[x])
    BY <1>1, MetaFacts DEF IsFile
  <1> HIDE DEF x
  <1>5. page[x].last_modified_txid = T
    <2>1. page[x].last_modified_txid <= T
      BY <1>3 DEF IsInWork
    <2>2. ~(page[x].last_modified_txid < T)
      BY DEF CopyNeeded, x
    <2>3. page[x].last_modified_txid \in Nat /\ T \in Nat
      BY <1>4, MetaFacts, ConstantFacts DEF IsLeaf, TxIds
    <2>4. QED
      BY <2>1, <2>2, <2>3
  <1>6. page' = [page EXCEPT ![x] = LeafNode(T, e)]
    <2>1. page[x] = LeafNode(T, page[x].entries)
      BY <1>4, <1>5 DEF IsLeaf
    <2>2. [page[x] EXCEPT !.entries = e] = LeafNode(T, e)
      BY <2>1 DEF LeafNode
    <2>3. page' = [page EXCEPT ![x] = [page[x] EXCEPT !.entries = e]]
      BY DEF x
    <2>4. QED
      BY <2>2, <2>3
  <1>7. ASSUME NEW v \in TxIds PROVE ~IsKept(x, v, meta, page, free_map, pending_map)
    BY <1>5, WorkFacts, MetaFacts DEF IsKept
  <1>8. IsMetaAfter(update_tx, update_tx', o, x)
    <2>1. o = kUserRootBucketId => x = update_tx.user_root
      BY ObjectFacts DEF x
    <2>2. QED
      BY <1>3, <2>1, MetaFacts DEF IsMetaAfter, IsInWork
  <1>9. x \notin free_map /\ free_map' = free_map /\ alloc_records' = alloc_records
        /\ pending_map' = pending_map
    BY <1>3 DEF IsInWork, pagerVars
  <1>10. IsPendingAfter(pending_map, pending_map', RootOf(o), x, update_tx, page)
    BY <1>9 DEF IsPendingAfter, IInv, PagerInv
  <1>11. MapWritten(x, o, maps)
    <2>1. CASE o = kUserRootBucketId
      BY <2>1 DEF MapWritten
    <2>2. CASE o # kUserRootBucketId
      <3>1. sub_bucket_map' = sub_bucket_map
        BY <2>2
      <3>2. PICK n \in Names : n \in DOMAIN UserMap /\ sub_bucket_cache[o] = Handle(n)
                               /\ RootOf(o) = UserMap[n].pgid
        BY <2>2, ObjectFacts
      <3>3. sub_bucket_cache[o].key = n /\ x = UserMap[n].pgid
        BY <3>2 DEF Handle, x
      <3>4. \A j \in DOMAIN UserMap : UserMap[j] = [id |-> UserMap[j].id, pgid |-> UserMap[j].pgid]
        BY MapFacts DEF IsMap
      <3>5. IsMoved(UserMap, UserMap, n, x)
        BY <3>3, <3>4 DEF IsMoved
      <3>6. IsUserMapOnly(sub_bucket_map')
        BY <3>1, MapFacts
      <3>7. QED
        BY <2>2, <3>1, <3>3, <3>5, <3>6 DEF MapWritten, UserMap
    <2>3. QED
      BY <2>1, <2>2
  <1>12. Written(x, o, e)
    <2>1. \A t \in TxIds : x \notin pending_map[t]
      BY <1>3 DEF IsInWork
    <2>2. QED
      BY <1>6, <1>7, <1>8, <1>9, <1>10, <2>1 DEF Written, x
  <1>13. QED
    BY <1>1, <1>11, <1>12 DEF x

\* There was no root, or it belongs to a version: the tree gets a page.
LEMMA WriteFresh ==
    ASSUME MaxDepth = 1, IInv, writer # "idle", NEW o \in Objects, NEW e, NEW maps,
           o = kUserRootBucketId \/ maps = sub_bucket_map,
           RootOf(o) # kPageInvalidId => CopyNeeded(page[RootOf(o)].last_modified_txid),
           NextPage \in PageIds,
           page' = [page EXCEPT ![NextPage] = LeafNode(update_tx.txid, e)],
           SetRoot(o, NextPage, maps),
           free_map' = free_map \ {NextPage},
           alloc_records' = alloc_records \cup ({NextPage} \cap free_map),
           pending_map' = [pending_map EXCEPT
                 ![update_tx.txid] = @ \cup ({RootOf(o)} \ {kPageInvalidId})]
    PROVE  Written(NextPage, o, e) /\ MapWritten(NextPage, o, maps)
  <1> DEFINE x == NextPage
             T == update_tx.txid
             pc == IF x \in free_map THEN update_tx.page_count ELSE update_tx.page_count + 1
  <1>1. /\ x \in PageIds /\ x \in Nat
        /\ x \in free_map \/ x = update_tx.page_count
        /\ x \in free_map => x < meta.page_count
        /\ \A v : ~IsKept(x, v, meta, page, free_map, pending_map)
        /\ ~Has(WorkRoots, x)
        /\ \A t \in TxIds : x \notin pending_map[t]
    BY NextPageFacts
  <1>2. update_tx' = [update_tx EXCEPT
          !.user_root = IF o = kUserRootBucketId THEN x ELSE @,
          !.page_count = IF x \in free_map THEN @ ELSE @ + 1]
    BY DEF SetRoot
  <1> HIDE DEF x
  <1>3. IsMetaAfter(update_tx, update_tx', o, x)
    <2>1. update_tx \in [txid : TxIds, user_root : Root, page_count : 0 .. PageMaxCount]
      BY MetaFacts DEF IsMeta
    <2>2. /\ update_tx'.txid = T
          /\ update_tx'.user_root = IF o = kUserRootBucketId THEN x ELSE update_tx.user_root
          /\ update_tx'.page_count = pc
          /\ update_tx' = [txid |-> update_tx'.txid, user_root |-> update_tx'.user_root,
                           page_count |-> update_tx'.page_count]
      BY <1>2, <2>1
    <2>3. x < PageMaxCount /\ PageMaxCount \in Nat
      BY <1>1, ConstantFacts DEF PageIds
    <2>4. pc \in 0 .. PageMaxCount /\ update_tx.page_count <= pc /\ x < pc
      BY <1>1, <2>3, MetaFacts, WorkFacts
    <2>5. x \in Root
      BY <1>1, RootBounds
    <2> HIDE DEF pc
    <2>6. IsMeta(update_tx')
      BY <2>1, <2>2, <2>4, <2>5 DEF IsMeta
    <2>7. QED
      BY <2>2, <2>4, <2>6 DEF IsMetaAfter
  <1>4. IsPendingAfter(pending_map, pending_map', RootOf(o), x, update_tx, page)
    <2>1. pending_map \in [TxIds -> SUBSET PageIds] /\ T \in TxIds
      BY MetaFacts DEF IInv, PagerInv
    <2>2. {RootOf(o)} \ {kPageInvalidId} \subseteq PageIds
      BY ObjectFacts, RootBounds
    <2>3. pending_map' \in [TxIds -> SUBSET PageIds]
      BY <2>1, <2>2
    <2>4. ASSUME NEW t \in TxIds, NEW p \in pending_map'[t], p \notin pending_map[t]
          PROVE  t = T /\ p = RootOf(o) /\ p # x /\ page[p].last_modified_txid < T
      <3>1. t = T /\ p = RootOf(o) /\ p # kPageInvalidId
        BY <2>1, <2>4
      <3>2. page[p].last_modified_txid < T
        BY <3>1 DEF CopyNeeded
      <3>3. p # x
        <4>1. p \in PageIds /\ Has(WorkRoots, p)
          BY <2>2, <3>1, ObjectFacts DEF Has
        <4>2. QED
          BY <1>1, <4>1
      <3>4. QED
        BY <3>1, <3>2, <3>3
    <2>5. QED
      BY <2>3, <2>4 DEF IsPendingAfter
  <1>5. MapWritten(x, o, maps)
    <2>1. CASE o = kUserRootBucketId
      BY <2>1 DEF MapWritten, SetRoot
    <2>2. CASE o # kUserRootBucketId
      <3>1. PICK n \in Names : n \in DOMAIN UserMap /\ sub_bucket_cache[o] = Handle(n)
        BY <2>2, ObjectFacts
      <3>2. sub_bucket_cache[o].key = n /\ sub_bucket_cache[o].parent = kUserRootBucketId
        BY <3>1 DEF Handle
      <3>3. sub_bucket_map' = [sub_bucket_map EXCEPT ![kUserRootBucketId][n].pgid = x]
        BY <2>2, <3>2 DEF SetRoot, x
      <3>4. DEFINE mp2 == [UserMap EXCEPT ![n].pgid = x]
      <3>5. sub_bucket_map' = [sub_bucket_map EXCEPT ![kUserRootBucketId] = mp2]
        BY <3>3 DEF UserMap
      <3>6. \A j \in DOMAIN UserMap : UserMap[j] = [id |-> UserMap[j].id, pgid |-> UserMap[j].pgid]
        BY MapFacts DEF IsMap
      <3>7. IsMoved(UserMap, mp2, n, x)
        BY <3>1, <3>6 DEF IsMoved
      <3> HIDE DEF mp2
      <3>8. sub_bucket_map'[kUserRootBucketId] = mp2
        BY <3>5, MapFacts
      <3>9. IsUserMapOnly(sub_bucket_map')
        BY <3>5, MapFacts DEF IsUserMapOnly
      <3>10. QED
        BY <2>2, <3>2, <3>7, <3>8, <3>9 DEF MapWritten
    <2>3. QED
      BY <2>1, <2>2
  <1>6. QED
    BY <1>1, <1>3, <1>4, <1>5 DEF Written, x

LEMMA WriteFacts ==
    ASSUME MaxDepth = 1, IInv, writer # "idle", NEW o \in Objects, NEW e, NEW maps,
           o = kUserRootBucketId \/ maps = sub_bucket_map,
           BTreeWrite(o, e, maps)
    PROVE  \E x \in PageIds : Written(x, o, e) /\ MapWritten(x, o, maps)
  <1>1. CASE /\ RootOf(o) # kPageInvalidId
             /\ ~CopyNeeded(page[RootOf(o)].last_modified_txid)
             /\ page' = [page EXCEPT ![RootOf(o)].entries = e]
             /\ sub_bucket_map' = maps
             /\ UNCHANGED <<update_tx, pagerVars>>
    BY <1>1, WriteInPlace
  <1>2. CASE /\ RootOf(o) # kPageInvalidId => CopyNeeded(page[RootOf(o)].last_modified_txid)
             /\ NextPage \in PageIds
             /\ page' = [page EXCEPT ![NextPage] = LeafNode(update_tx.txid, e)]
             /\ SetRoot(o, NextPage, maps)
             /\ free_map' = free_map \ {NextPage}
             /\ alloc_records' = alloc_records \cup ({NextPage} \cap free_map)
             /\ pending_map' = [pending_map EXCEPT
                   ![update_tx.txid] = @ \cup ({RootOf(o)} \ {kPageInvalidId})]
    BY <1>2, WriteFresh
  <1>3. QED
    BY <1>1, <1>2 DEF BTreeWrite

-----------------------------------------------------------------------------
(* What a step keeps.                                                       *)

LEMMA MinViewFacts ==
    ASSUME IInv
    PROVE  /\ MinView \in Nat /\ MinView <= meta.txid
           /\ \A r \in OpenViews : MinView <= views[r].txid
  <1> DEFINE S == {meta.txid} \cup {views[r].txid : r \in OpenViews}
  <1>1. S \subseteq Nat
    <2>1. \A r \in OpenViews : views[r].txid \in Nat
      BY ConstantFacts DEF IInv, StateInv, OpenViews, TxIds
    <2>2. QED
      BY <2>1, MetaFacts
  <1>2. Min(S) \in S /\ \A y \in S : Min(S) <= y
    BY <1>1, MinOfNats
  <1>3. MinView = Min(S)
    BY DEF MinView
  <1>4. meta.txid \in S /\ \A r \in OpenViews : views[r].txid \in S
    OBVIOUS
  <1> HIDE DEF S
  <1>5. QED
    BY <1>1, <1>2, <1>3, <1>4

\* Page p is as it was and still kept for v.
StillKept(p, v) ==
    IsKept(p, v, meta, page, free_map, pending_map) =>
        page'[p] = page[p] /\ IsKept(p, v, meta', page', free_map', pending_map')

\* The view of r after a step that leaves its pages alone.
LEMMA ViewKept ==
    ASSUME MaxDepth = 1, IInv, meta.txid <= meta'.txid, meta'.txid \in Nat, NEW r \in OpenViews,
           \A v \in TxIds : MinView <= v /\ v <= meta.txid => \A p \in PageIds : StillKept(p, v)
    PROVE  IsVersion(views[r].txid, views[r].user_root, views[r].seen,
                     meta', page', free_map', pending_map')
  <1>1. IsVersion(views[r].txid, views[r].user_root, views[r].seen,
                  meta, page, free_map, pending_map)
    BY DEF IInv, VersionInv
  <1>2. views[r].txid \in TxIds /\ views[r].txid <= meta.txid /\ MinView <= views[r].txid
    BY <1>1, MinViewFacts DEF IsVersion
  <1>3. views[r].txid <= meta'.txid
    BY <1>2, MetaFacts, ConstantFacts DEF TxIds
  <1>4. \A p \in PageIds : StillKept(p, views[r].txid)
    BY <1>2
  <1>5. \A p \in PageIds : IsKept(p, views[r].txid, meta, page, free_map, pending_map) =>
           page'[p] = page[p] /\ IsKept(p, views[r].txid, meta', page', free_map', pending_map')
    BY <1>4 DEF StillKept
  <1>6. QED
    BY <1>1, <1>3, <1>5, MetaFacts, VersionKept

\* The committed version after a step that leaves its pages alone.
LEMMA CommittedKept ==
    ASSUME MaxDepth = 1, IInv, meta' = meta, committed' = committed,
           \A p \in PageIds : StillKept(p, meta.txid)
    PROVE  /\ IsVersion(meta'.txid, meta'.user_root, committed',
                        meta', page', free_map', pending_map')
           /\ Distinct(RootsOf(page', meta'.user_root))
  <1>1. /\ IsVersion(meta.txid, meta.user_root, committed, meta, page, free_map, pending_map)
        /\ Distinct(RootsOf(page, meta.user_root))
    BY DEF IInv, VersionInv
  <1>2. \A p \in PageIds : IsKept(p, meta.txid, meta, page, free_map, pending_map) =>
           page'[p] = page[p] /\ IsKept(p, meta.txid, meta, page', free_map', pending_map')
    BY DEF StillKept
  <1>3. /\ IsVersion(meta.txid, meta.user_root, committed, meta, page', free_map', pending_map')
        /\ RootsOf(page', meta.user_root) = RootsOf(page, meta.user_root)
    BY <1>1, <1>2, MetaFacts, VersionKept
  <1>4. QED
    BY <1>1, <1>3

LEMMA VersionsKept ==
    ASSUME MaxDepth = 1, IInv, UNCHANGED <<meta, committed, views>>,
           \A v \in TxIds : MinView <= v /\ v <= meta.txid => \A p \in PageIds : StillKept(p, v)
    PROVE  VersionInv'
  <1>1. \A p \in PageIds : StillKept(p, meta.txid)
    <2>1. meta.txid \in TxIds /\ MinView <= meta.txid /\ meta.txid <= meta.txid
      BY MetaFacts, MinViewFacts
    <2>2. QED
      BY <2>1
  <1>2. /\ IsVersion(meta'.txid, meta'.user_root, committed',
                     meta', page', free_map', pending_map')
        /\ Distinct(RootsOf(page', meta'.user_root))
    BY <1>1, CommittedKept
  <1>3. OpenViews' = OpenViews
    BY DEF OpenViews
  <1>4. ASSUME NEW r \in OpenViews'
        PROVE  IsVersion(views'[r].txid, views'[r].user_root, views'[r].seen,
                         meta', page', free_map', pending_map')
    <2>1. r \in OpenViews
      BY <1>3
    <2>2. IsVersion(views[r].txid, views[r].user_root, views[r].seen,
                    meta', page', free_map', pending_map')
      BY <2>1, ViewKept, MetaFacts
    <2>3. QED
      BY <2>2
  <1>5. QED
    BY <1>2, <1>4 DEF VersionInv

IsEntries(e) ==
    /\ DOMAIN e \subseteq Keys \cup Names
    /\ \A n \in Names : n \in DOMAIN e => e[n].value \in Root

\* A write keeps the pager's sets apart and disturbs no version.
LEMMA WrittenKeeps ==
    ASSUME MaxDepth = 1, IInv, writer # "idle", NEW o \in Objects, NEW x \in PageIds, NEW e,
           IsEntries(e), Written(x, o, e), UNCHANGED <<meta, writer, committed, views>>
    PROVE  /\ IsFile(page') /\ PagerInv' /\ VersionInv'
           /\ \A p \in alloc_records' : page'[p].last_modified_txid = update_tx.txid
  <1> DEFINE T == update_tx.txid
  <1>1. /\ page' = [page EXCEPT ![x] = LeafNode(T, e)]
        /\ \A t \in TxIds : x \notin pending_map[t]
        /\ \A v \in TxIds : ~IsKept(x, v, meta, page, free_map, pending_map)
        /\ IsMetaAfter(update_tx, update_tx', o, x)
        /\ free_map' = free_map \ {x}
        /\ alloc_records' = alloc_records \cup ({x} \cap free_map)
        /\ IsPendingAfter(pending_map, pending_map', RootOf(o), x, update_tx, page)
    BY DEF Written
  <1>2. page'[x] = LeafNode(T, e) /\ \A p \in PageIds : p # x => page'[p] = page[p]
    BY <1>1, MetaFacts DEF IsFile
  <1>3. IsFile(page')
    <2>1. IsLeaf(LeafNode(T, e))
      BY LeafFields, MetaFacts DEF IsLeaf, IsEntries
    <2>2. QED
      BY <1>1, <1>2, <2>1, MetaFacts DEF IsFile
  <1>4. \A p \in alloc_records' : page'[p].last_modified_txid = T
    <2>1. alloc_records \subseteq PageIds
      BY MetaFacts, ConstantFacts DEF IInv, PagerInv, PageIds
    <2>2. QED
      BY <1>1, <1>2, <2>1, WorkFacts, LeafFields
  <1>5. VersionInv'
    <2>1. ASSUME NEW v \in TxIds, NEW p \in PageIds, v <= meta.txid
          PROVE  StillKept(p, v)
      <3>1. SUFFICES ASSUME IsKept(p, v, meta, page, free_map, pending_map)
                     PROVE  page'[p] = page[p] /\ IsKept(p, v, meta', page', free_map', pending_map')
        BY DEF StillKept
      <3>2. p # x
        BY <1>1, <3>1
      <3>3. page'[p] = page[p]
        BY <1>2, <3>2
      <3>4. ASSUME NEW t \in TxIds, p \in pending_map'[t] PROVE t > v
        <4>1. p \in pending_map[t] \/ t = T
          BY <1>1, <3>4 DEF IsPendingAfter
        <4>2. QED
          BY <2>1, <3>1, <4>1, WorkFacts, MetaFacts, ConstantFacts DEF IsKept, TxIds
      <3>5. QED
        BY <1>1, <3>1, <3>3, <3>4 DEF IsKept
    <2>2. QED
      BY <2>1, VersionsKept
  <1>6. PagerInv'
    <2>1. /\ free_map \subseteq 0 .. (meta.page_count - 1)
          /\ alloc_records \subseteq 0 .. (meta.page_count - 1)
      BY DEF IInv, PagerInv
    <2>2. /\ free_map' \subseteq 0 .. (meta'.page_count - 1)
          /\ alloc_records' \subseteq 0 .. (meta'.page_count - 1)
          /\ pending_map' \in [TxIds -> SUBSET PageIds]
      BY <1>1, <2>1 DEF IsPendingAfter
    <2>3. ASSUME NEW t \in TxIds, NEW p \in pending_map'[t]
          PROVE  /\ t <= meta.txid => p < meta.page_count
                 /\ t > meta.txid => t = T /\ p < update_tx'.page_count
                 /\ p \notin free_map'
                 /\ p \notin alloc_records'
                 /\ \A s \in TxIds : p \in pending_map'[s] => s = t
      <3>1. t \in Nat /\ p \in Nat /\ p \in PageIds
        BY <2>2, ConstantFacts DEF TxIds, PageIds
      <3>2. update_tx.page_count <= update_tx'.page_count /\ update_tx'.page_count \in Nat
        BY <1>1 DEF IsMetaAfter, IsMeta
      <3>3. CASE p \in pending_map[t]
        <4>1. /\ t <= meta.txid => p < meta.page_count
              /\ t > meta.txid => t = T /\ p < update_tx.page_count
              /\ p \notin free_map
              /\ p \notin alloc_records
              /\ \A s \in TxIds : p \in pending_map[s] => s = t
          BY <3>3 DEF IInv, PagerInv
        <4>2. ASSUME NEW s \in TxIds, p \in pending_map'[s] PROVE s = t
          <5>1. CASE p \in pending_map[s]
            BY <4>1, <5>1
          <5>2. CASE p \notin pending_map[s]
            <6>1. p = RootOf(o)
              BY <1>1, <4>2, <5>2 DEF IsPendingAfter
            <6>2. Has(WorkRoots, p)
              BY <3>1, <6>1, ObjectFacts DEF Has
            <6>3. p \notin pending_map[t]
              BY <3>1, <6>2, WorkFacts DEF IsWork, IsInWork
            <6>4. QED
              BY <3>3, <6>3
          <5>3. QED
            BY <5>1, <5>2
        <4>3. QED
          BY <1>1, <3>1, <3>2, <4>1, <4>2, MetaFacts
      <3>4. CASE p \notin pending_map[t]
        <4>1. t = T /\ p = RootOf(o) /\ p # x /\ page[p].last_modified_txid < T
          BY <1>1, <3>4 DEF IsPendingAfter
        <4>2. Has(WorkRoots, p)
          BY <3>1, <4>1, ObjectFacts DEF Has
        <4>3. IsInWork(p, update_tx, page, free_map, pending_map)
          BY <3>1, <4>2, WorkFacts DEF IsWork
        <4>4. p \notin alloc_records
          BY <4>1, WorkFacts, MetaFacts
        <4>5. ASSUME NEW s \in TxIds, p \in pending_map'[s] PROVE s = t
          BY <1>1, <4>1, <4>3, <4>5 DEF IsPendingAfter, IsInWork
        <4>6. p < update_tx.page_count /\ p \notin free_map
          BY <4>3 DEF IsInWork
        <4>7. QED
          BY <1>1, <3>1, <3>2, <4>1, <4>4, <4>5, <4>6, WorkFacts, MetaFacts
      <3>5. QED
        BY <3>3, <3>4
    <2>4. update_tx'.txid = T
      BY <1>1 DEF IsMetaAfter
    <2>5. QED
      BY <2>2, <2>3, <2>4 DEF PagerInv
  <1>7. QED
    BY <1>3, <1>4, <1>5, <1>6

-----------------------------------------------------------------------------
(* The roots of the writer's buckets after a write.                         *)

\* Two trees agree on a name.
Agree(e, d, n) == (n \in DOMAIN e <=> n \in DOMAIN d) /\ (n \in DOMAIN d => e[n].value = d[n].value)

AgreeOn(S, e, d) == \A n \in S : Agree(e, d, n)

LEMMA SubRootAgrees ==
    ASSUME NEW pg, NEW root \in Root, NEW pg2, NEW x \in PageIds, NEW n,
           Agree(pg2[x].entries, Entries(pg, root), n)
    PROVE  SubRootAt(pg2, x, n) = SubRootAt(pg, root, n)
  <1>1. x # kPageInvalidId /\ x # NoBucket /\ root # NoBucket
    BY RootBounds
  <1>2. Entries(pg2, x) = pg2[x].entries
    BY <1>1 DEF Entries
  <1>3. QED
    BY <1>1, <1>2 DEF SubRootAt, Agree

\* f is e with x for k.
IsWith(f, e, k, x) ==
    /\ DOMAIN f = DOMAIN e \cup {k} /\ f[k] = x
    /\ \A j \in DOMAIN e : j # k => f[j] = e[j]

LEMMA WithFacts ==
    ASSUME NEW e, NEW k, NEW x
    PROVE  IsWith(With(e, k, x), e, k, x)
  BY DEF With, IsWith

\* G is F with the root x at a path.
IsSet(G, F, path, x) == G = [F EXCEPT ![path] = x]

\* The tree of the user bucket has moved to x.
LEMMA UserRootMoved ==
    ASSUME MaxDepth = 1, NEW pg, NEW root \in Root, NEW mp, NEW pg2, NEW x \in PageIds,
           AgreeOn(Names \ DOMAIN mp, pg2[x].entries, Entries(pg, root))
    PROVE  IsSet(WorkRootsOf(pg2, x, mp), WorkRootsOf(pg, root, mp), << >>, x)
  <1> DEFINE F == WorkRootsOf(pg, root, mp)
             G == WorkRootsOf(pg2, x, mp)
             H == [F EXCEPT ![<< >>] = x]
  <1>1. OnPaths(F) /\ OnPaths(G)
    BY RootsOnPaths
  <1>2. G[<< >>] = x /\ \A n \in Names : G[<<n>>] = F[<<n>>]
    <2>1. \A n \in Names : n \notin DOMAIN mp => SubRootAt(pg2, x, n) = SubRootAt(pg, root, n)
      BY SubRootAgrees DEF AgreeOn
    <2>2. QED
      BY <2>1, WorkRootsFacts
  <1> HIDE DEF F, G
  <1>3. OnPaths(H) /\ H[<< >>] = x /\ \A n \in Names : H[<<n>>] = F[<<n>>]
    BY <1>1, PathFacts DEF OnPaths
  <1> HIDE DEF H
  <1>4. SameRoots(G, H)
    BY <1>2, <1>3 DEF SameRoots
  <1>5. G = H
    BY <1>1, <1>3, <1>4, PathFunctions
  <1>6. QED
    BY <1>5 DEF F, G, H, IsSet

IsExtended(G, F, b, x) == G = [[F EXCEPT ![<< >>] = x] EXCEPT ![<<b>>] = kPageInvalidId]

\* It has moved to x and a bucket without a root has been added.
LEMMA UserRootExtended ==
    ASSUME MaxDepth = 1, NEW pg, NEW root \in Root, NEW mp, NEW pg2, NEW x \in PageIds, NEW b \in Names,
           NEW mp2, NEW y, IsWith(mp2, mp, b, y), y.pgid = kPageInvalidId,
           AgreeOn(Names \ {b}, pg2[x].entries, Entries(pg, root))
    PROVE  IsExtended(WorkRootsOf(pg2, x, mp2), WorkRootsOf(pg, root, mp), b, x)
  <1> DEFINE F == WorkRootsOf(pg, root, mp)
             G == WorkRootsOf(pg2, x, mp2)
             H == [[F EXCEPT ![<< >>] = x] EXCEPT ![<<b>>] = kPageInvalidId]
  <1>1. OnPaths(F) /\ OnPaths(G)
    BY RootsOnPaths
  <1>2. /\ G[<< >>] = x /\ G[<<b>>] = kPageInvalidId
        /\ \A n \in Names : n # b => G[<<n>>] = F[<<n>>]
    <2>1. \A n \in Names : n # b => SubRootAt(pg2, x, n) = SubRootAt(pg, root, n)
      BY SubRootAgrees DEF AgreeOn
    <2>2. QED
      BY <2>1, WorkRootsFacts DEF IsWith
  <1> HIDE DEF F, G
  <1>3. /\ OnPaths(H) /\ H[<< >>] = x /\ H[<<b>>] = kPageInvalidId
        /\ \A n \in Names : n # b => H[<<n>>] = F[<<n>>]
    BY <1>1, PathFacts DEF OnPaths
  <1> HIDE DEF H
  <1>4. SameRoots(G, H)
    BY <1>2, <1>3 DEF SameRoots
  <1>5. G = H
    BY <1>1, <1>3, <1>4, PathFunctions
  <1>6. QED
    BY <1>5 DEF F, G, H, IsExtended

\* The tree of bucket b has moved to x, and the map knows.
LEMMA SubRootMoved ==
    ASSUME MaxDepth = 1, NEW pg, NEW root \in Root, NEW mp, NEW pg2, NEW x, NEW b \in Names,
           b \in DOMAIN mp, NEW mp2, IsMoved(mp, mp2, b, x), root \in PageIds => pg2[root] = pg[root]
    PROVE  IsSet(WorkRootsOf(pg2, root, mp2), WorkRootsOf(pg, root, mp), <<b>>, x)
  <1> DEFINE F == WorkRootsOf(pg, root, mp)
             G == WorkRootsOf(pg2, root, mp2)
             H == [F EXCEPT ![<<b>>] = x]
  <1>1. OnPaths(F) /\ OnPaths(G)
    BY RootsOnPaths
  <1>2. /\ G[<< >>] = F[<< >>] /\ G[<<b>>] = x
        /\ \A n \in Names : n # b => G[<<n>>] = F[<<n>>]
    <2>1. \A n : SubRootAt(pg2, root, n) = SubRootAt(pg, root, n)
      BY SameEntries
    <2>2. QED
      BY <2>1, WorkRootsFacts DEF IsMoved
  <1> HIDE DEF F, G
  <1>3. /\ OnPaths(H) /\ H[<< >>] = F[<< >>] /\ H[<<b>>] = x
        /\ \A n \in Names : n # b => H[<<n>>] = F[<<n>>]
    BY <1>1, PathFacts DEF OnPaths
  <1> HIDE DEF H
  <1>4. SameRoots(G, H)
    BY <1>2, <1>3 DEF SameRoots
  <1>5. G = H
    BY <1>1, <1>3, <1>4, PathFunctions
  <1>6. QED
    BY <1>5 DEF F, G, H, IsSet

ContentOf(e) == [k \in Keys |-> IF k \in DOMAIN e THEN e[k].value ELSE NoValue]

LEMMA BucketAfter ==
    ASSUME NEW pg, NEW r
    PROVE  /\ BucketWith(pg, r) = [exists |-> TRUE, content |-> ContentOf(Entries(pg, r))]
           /\ r \in PageIds => Entries(pg, r) = pg[r].entries
  BY RootBounds DEF BucketWith, Content, ContentOf, Entries

IsBucket(b, y, c) == b = [exists |-> y, content |-> c]

LEMMA ContentChanged ==
    ASSUME NEW b, NEW y, NEW c, NEW d, IsBucket(b, y, c)
    PROVE  IsBucket([b EXCEPT !.content = d], y, d)
  BY DEF IsBucket

LEMMA EntriesType ==
    ASSUME NEW pg, IsFile(pg), NEW r \in Root
    PROVE  IsEntries(Entries(pg, r))
  <1>1. CASE r = kPageInvalidId
    <2>1. DOMAIN Entries(pg, r) = {}
      BY <1>1 DEF Entries
    <2>2. QED
      BY <2>1 DEF IsEntries
  <1>2. CASE r # kPageInvalidId
    <2>1. IsLeaf(pg[r]) /\ Entries(pg, r) = pg[r].entries
      BY <1>2, RootBounds DEF IsFile, Entries
    <2>2. QED
      BY <2>1 DEF IsEntries, IsLeaf
  <1>3. QED
    BY <1>1, <1>2

\* The writer's buckets after a write to the tree of object o.
LEMMA WorkAfterWrite ==
    ASSUME MaxDepth = 1, IInv, writer # "idle", NEW o \in Objects, NEW x \in PageIds, NEW e,
           Written(x, o, e)
    PROVE  IsWork([WorkRoots EXCEPT ![PathOf(o)] = x],
                  [work EXCEPT ![PathOf(o)] = [exists |-> TRUE, content |-> ContentOf(e)]],
                  update_tx', page', free_map', pending_map')
  <1>1. /\ page' = [page EXCEPT ![x] = LeafNode(update_tx.txid, e)]
        /\ x = RootOf(o) \/ ~Has(WorkRoots, x)
        /\ \A t \in TxIds : x \notin pending_map[t]
        /\ IsMetaAfter(update_tx, update_tx', o, x)
        /\ free_map' = free_map \ {x}
        /\ IsPendingAfter(pending_map, pending_map', RootOf(o), x, update_tx, page)
    BY DEF Written
  <1>2. /\ PathOf(o) \in Paths /\ WorkRoots[PathOf(o)] = RootOf(o)
        /\ RootOf(o) # NoBucket
    BY ObjectFacts, RootBounds
  <1>3. IsGrown(update_tx, update_tx', x)
    BY <1>1, MetaFacts DEF IsMetaAfter, IsGrown
  <1>4. IsWrite(WorkRoots, PathOf(o), x, pending_map, pending_map')
    BY <1>1, <1>2 DEF IsPendingAfter, IsWrite
  <1>5. IsWork(WorkRoots, work, update_tx, page, free_map, pending_map) /\ IsFile(page)
    BY WorkFacts, MetaFacts
  <1>6. IsWork([WorkRoots EXCEPT ![PathOf(o)] = x],
               [work EXCEPT ![PathOf(o)] = BucketWith(page', x)],
               update_tx', page', free_map', pending_map')
    BY <1>1, <1>3, <1>4, <1>5, WorkWritten
  <1>7. BucketWith(page', x) = [exists |-> TRUE, content |-> ContentOf(e)]
    <2>1. page'[x].entries = e
      BY <1>1, <1>5, LeafFields DEF IsFile
    <2>2. QED
      BY <2>1, BucketAfter
  <1>8. QED
    BY <1>6, <1>7

-----------------------------------------------------------------------------
(* Put and Delete.                                                          *)

LEMMA MapMoved ==
    ASSUME NEW mp, NEW mp2, NEW cache, IsMap(mp, cache), NEW n, NEW x \in Root,
           IsMoved(mp, mp2, n, x)
    PROVE  IsMap(mp2, cache)
  <1>1. ASSUME NEW j \in DOMAIN mp2
        PROVE  mp2[j] \in [id : 1 .. Len(cache), pgid : Root] /\ cache[mp2[j].id] = Handle(j)
    <2>1. j \in DOMAIN mp /\ mp2[j] = [id |-> mp[j].id, pgid |-> IF j = n THEN x ELSE mp[j].pgid]
      BY <1>1 DEF IsMoved
    <2>2. mp[j].id \in 1 .. Len(cache) /\ mp[j].pgid \in Root /\ cache[mp[j].id] = Handle(j)
      BY <2>1 DEF IsMap
    <2>3. mp2[j].id = mp[j].id
      BY <2>1
    <2>4. QED
      BY <2>1, <2>2, <2>3
  <1>2. ASSUME NEW i \in 1 .. Len(cache)
        PROVE  cache[i].key \in DOMAIN mp2 /\ mp2[cache[i].key].id = i
    BY DEF IsMap, IsMoved
  <1>3. QED
    BY <1>1, <1>2 DEF IsMap, IsMoved

\* The roots after a write that changes no entry for a bucket.
LEMMA RootsAfterWrite ==
    ASSUME MaxDepth = 1, IInv, writer # "idle", NEW o \in Objects, NEW x \in PageIds, NEW e,
           Written(x, o, e), MapWritten(x, o, sub_bucket_map),
           o = kUserRootBucketId => AgreeOn(Names \ DOMAIN UserMap, e, Entries(page, RootOf(o)))
    PROVE  /\ WorkRoots' = [WorkRoots EXCEPT ![PathOf(o)] = x]
           /\ IsUserMapOnly(sub_bucket_map') /\ IsMap(UserMap', sub_bucket_cache)
           /\ DOMAIN UserMap' = DOMAIN UserMap
  <1>1. page'[x].entries = e /\ \A p \in PageIds : p # x => page'[p] = page[p]
    BY MetaFacts, LeafFields DEF Written, IsFile
  <1>2. /\ update_tx'.user_root = IF o = kUserRootBucketId THEN x ELSE update_tx.user_root
        /\ update_tx.user_root \in Root
    BY MetaFacts DEF Written, IsMetaAfter
  <1>3. WorkRoots' = WorkRootsOf(page', update_tx'.user_root, UserMap')
    BY DEF WorkRoots
  <1>4. CASE o = kUserRootBucketId
    <2>1. UserMap' = UserMap /\ sub_bucket_map' = sub_bucket_map
      BY <1>4 DEF MapWritten, UserMap
    <2>2. PathOf(o) = << >> /\ RootOf(o) = update_tx.user_root
      BY <1>4, ObjectFacts
    <2>3. WorkRootsOf(page', x, UserMap) = [WorkRoots EXCEPT ![<< >>] = x]
      <3>1. AgreeOn(Names \ DOMAIN UserMap, page'[x].entries, Entries(page, update_tx.user_root))
        BY <1>1, <1>4, <2>2
      <3>2. IsSet(WorkRootsOf(page', x, UserMap),
                  WorkRootsOf(page, update_tx.user_root, UserMap), << >>, x)
        BY <1>2, <3>1, UserRootMoved
      <3>3. QED
        BY <3>2 DEF WorkRoots, IsSet
    <2>4. QED
      BY <1>2, <1>3, <1>4, <2>1, <2>2, <2>3, MapFacts
  <1>5. CASE o # kUserRootBucketId
    <2>1. PICK n \in Names : /\ n \in DOMAIN UserMap /\ sub_bucket_cache[o] = Handle(n)
                             /\ PathOf(o) = <<n>> /\ RootOf(o) = UserMap[n].pgid
      BY <1>5, ObjectFacts
    <2>2. IsUserMapOnly(sub_bucket_map') /\ IsMoved(UserMap, UserMap', n, x)
      BY <1>5, <2>1 DEF MapWritten, Handle, UserMap
    <2>3. update_tx.user_root \in PageIds => page'[update_tx.user_root] = page[update_tx.user_root]
      <3>1. SUFFICES ASSUME update_tx.user_root \in PageIds PROVE update_tx.user_root # x
        BY <1>1
      <3>2. WorkRoots[<< >>] = update_tx.user_root /\ << >> \in Paths /\ <<n>> \in Paths /\ <<n>> # << >>
        BY WorkRootsFacts, PathFacts DEF WorkRoots
      <3>3. WorkRoots[<<n>>] = RootOf(o)
        BY <2>1, ObjectFacts
      <3>4. Has(WorkRoots, update_tx.user_root)
        BY <3>1, <3>2 DEF Has
      <3>5. Distinct(WorkRoots)
        BY WorkFacts DEF IsWork
      <3>6. update_tx.user_root # RootOf(o)
        BY <3>1, <3>2, <3>3, <3>5 DEF Distinct
      <3>7. QED
        BY <3>4, <3>6 DEF Written
    <2>4. WorkRootsOf(page', update_tx.user_root, UserMap') = [WorkRoots EXCEPT ![<<n>>] = x]
      <3>1. IsSet(WorkRootsOf(page', update_tx.user_root, UserMap'),
                  WorkRootsOf(page, update_tx.user_root, UserMap), <<n>>, x)
        BY <1>2, <2>1, <2>2, <2>3, SubRootMoved
      <3>2. QED
        BY <3>1 DEF WorkRoots, IsSet
    <2>5. IsMap(UserMap', sub_bucket_cache) /\ DOMAIN UserMap' = DOMAIN UserMap
      <3>1. x \in Root /\ IsMap(UserMap, sub_bucket_cache)
        BY RootBounds, MapFacts
      <3>2. QED
        BY <2>2, <3>1, MapMoved DEF IsMoved
    <2>6. QED
      BY <1>2, <1>3, <1>5, <2>1, <2>2, <2>4, <2>5
  <1>6. QED
    BY <1>4, <1>5

\* The tree of object o gets another value for key k, or none.
LEMMA EntryWritten ==
    ASSUME MaxDepth = 1, IInv, writer = "open", NEW o \in Objects, NEW k \in Keys, NEW w, NEW e,
           IsEntries(e),
           AgreeOn(Names, e, Entries(page, RootOf(o))),
           ContentOf(e) = [ContentOf(Entries(page, RootOf(o))) EXCEPT ![k] = w],
           BTreeWrite(o, e, sub_bucket_map),
           work' = [work EXCEPT ![PathOf(o)].content[k] = w],
           ops < MaxOps, ops' = ops + 1,
           UNCHANGED <<meta, writer, sub_bucket_cache, stored, views, committed>>
    PROVE  IInv'
  <1>1. PICK x \in PageIds : Written(x, o, e) /\ MapWritten(x, o, sub_bucket_map)
    BY WriteFacts
  <1>2. /\ IsFile(page') /\ PagerInv' /\ VersionInv'
        /\ \A p \in alloc_records' : page'[p].last_modified_txid = update_tx.txid
    BY <1>1, WrittenKeeps
  <1>3. /\ WorkRoots' = [WorkRoots EXCEPT ![PathOf(o)] = x]
        /\ IsUserMapOnly(sub_bucket_map') /\ IsMap(UserMap', sub_bucket_cache)
        /\ DOMAIN UserMap' = DOMAIN UserMap
    <2>1. AgreeOn(Names \ DOMAIN UserMap, e, Entries(page, RootOf(o)))
      BY DEF AgreeOn
    <2>2. QED
      BY <1>1, <2>1, RootsAfterWrite
  <1>4. /\ IsMeta(update_tx') /\ update_tx'.txid = update_tx.txid
        /\ update_tx.page_count <= update_tx'.page_count
    BY <1>1 DEF Written, IsMetaAfter
  <1>5. stored = {}
    BY DEF IInv, StateInv
  <1>6. work' = [work EXCEPT ![PathOf(o)] = [exists |-> TRUE, content |-> ContentOf(e)]]
    <2>1. PathOf(o) \in Paths /\ WorkRoots[PathOf(o)] = RootOf(o) /\ RootOf(o) # NoBucket
      BY ObjectFacts, RootBounds
    <2>2. work = Buckets(page, WorkRoots)
      BY WorkFacts DEF IsWork
    <2>3. work[PathOf(o)] = [exists |-> TRUE, content |-> ContentOf(Entries(page, RootOf(o)))]
      BY <2>1, <2>2, BucketAfter DEF Buckets
    <2>4. [work[PathOf(o)] EXCEPT !.content[k] = w] = [exists |-> TRUE, content |-> ContentOf(e)]
      <3>1. [work[PathOf(o)] EXCEPT !.content[k] = w] =
               [work[PathOf(o)] EXCEPT !.content = [work[PathOf(o)].content EXCEPT ![k] = w]]
        OBVIOUS
      <3>2. [work[PathOf(o)].content EXCEPT ![k] = w] = ContentOf(e)
        BY <2>3
      <3>3. IsBucket(work[PathOf(o)], TRUE, ContentOf(Entries(page, RootOf(o))))
        BY <2>3 DEF IsBucket
      <3>4. IsBucket([work[PathOf(o)] EXCEPT !.content = ContentOf(e)], TRUE, ContentOf(e))
        BY <3>3, ContentChanged
      <3>5. QED
        BY <3>1, <3>2, <3>4 DEF IsBucket
    <2>5. work' = [work EXCEPT ![PathOf(o)] = [work[PathOf(o)] EXCEPT !.content[k] = w]]
      OBVIOUS
    <2>6. QED
      BY <2>4, <2>5
  <1>7. IsWork(WorkRoots', work', update_tx', page', free_map', pending_map')
    <2>1. IsWork([WorkRoots EXCEPT ![PathOf(o)] = x],
                 [work EXCEPT ![PathOf(o)] = [exists |-> TRUE, content |-> ContentOf(e)]],
                 update_tx', page', free_map', pending_map')
      BY <1>1, WorkAfterWrite
    <2>2. QED
      BY <1>3, <1>6, <2>1
  <1>8. WorkInv'
    <2>1. meta'.page_count <= update_tx'.page_count
      BY <1>4, WorkFacts, MetaFacts DEF IsMeta
    <2>2. QED
      BY <1>2, <1>4, <1>7, <2>1, WorkFacts DEF WorkInv
  <1>9. HandleInv'
    <2>1. ops' \in 0 .. MaxOps /\ Len(sub_bucket_cache') <= ops'
      BY ConstantFacts DEF IInv, HandleInv
    <2>2. sub_bucket_cache' \in Seq({Handle(n) : n \in Names})
      BY DEF IInv, HandleInv
    <2>3. QED
      BY <1>3, <1>5, <2>1, <2>2 DEF HandleInv, IsUserMapOnly, UserMap
  <1>10. StateInv'
    BY <1>2, <1>4, <1>5 DEF IInv, StateInv
  <1>11. QED
    BY <1>2, <1>8, <1>9, <1>10 DEF IInv

LEMMA PutStep ==
    ASSUME MaxDepth = 1, IInv, NEW o \in Objects, NEW k \in Keys, NEW v \in Values, Put(o, k, v)
    PROVE  IInv'
  <1> DEFINE d == Entries(page, RootOf(o))
             e == With(d, k, Plain(v))
  <1>1. /\ writer = "open" /\ ops < MaxOps
        /\ BTreeWrite(o, e, sub_bucket_map)
        /\ work' = [work EXCEPT ![PathOf(o)].content[k] = v]
        /\ ops' = ops + 1
        /\ UNCHANGED <<meta, writer, sub_bucket_cache, stored, views, committed>>
    BY DEF Put
  <1>2. IsEntries(d)
    <2>1. RootOf(o) \in Root
      BY <1>1, ObjectFacts
    <2>2. QED
      BY <2>1, MetaFacts, EntriesType
  <1>3. IsWith(e, d, k, Plain(v))
    BY WithFacts
  <1> HIDE DEF d, e
  <1> USE DEF IsWith
  <1>4. k \notin Names
    BY ConstantFacts
  <1>5. IsEntries(e) /\ AgreeOn(Names, e, d)
    BY <1>2, <1>3, <1>4 DEF IsEntries, AgreeOn, Agree
  <1>6. ContentOf(e) = [ContentOf(d) EXCEPT ![k] = v]
    <2>1. e[k].value = v
      BY <1>3 DEF Plain
    <2>2. QED
      BY <1>3, <2>1 DEF ContentOf
  <1>7. QED
    BY <1>1, <1>5, <1>6, EntryWritten DEF d

LEMMA DeleteStep ==
    ASSUME MaxDepth = 1, IInv, NEW o \in Objects, NEW k \in Keys, Delete(o, k)
    PROVE  IInv'
  <1> DEFINE d == Entries(page, RootOf(o))
             e == Without(d, k)
  <1>1. /\ writer = "open" /\ ops < MaxOps
        /\ BTreeWrite(o, e, sub_bucket_map)
        /\ work' = [work EXCEPT ![PathOf(o)].content[k] = NoValue]
        /\ ops' = ops + 1
        /\ UNCHANGED <<meta, writer, sub_bucket_cache, stored, views, committed>>
    BY DEF Delete
  <1>2. IsEntries(d)
    <2>1. RootOf(o) \in Root
      BY <1>1, ObjectFacts
    <2>2. QED
      BY <2>1, MetaFacts, EntriesType
  <1>3. DOMAIN e = DOMAIN d \ {k} /\ \A j \in DOMAIN d : j # k => e[j] = d[j]
    BY DEF Without
  <1> HIDE DEF d, e
  <1>4. k \notin Names
    BY ConstantFacts
  <1>5. IsEntries(e) /\ AgreeOn(Names, e, d)
    BY <1>2, <1>3, <1>4 DEF IsEntries, AgreeOn, Agree
  <1>6. ContentOf(e) = [ContentOf(d) EXCEPT ![k] = NoValue]
    BY <1>3 DEF ContentOf
  <1>7. QED
    BY <1>1, <1>5, <1>6, EntryWritten DEF d

-----------------------------------------------------------------------------
(* SubBucket.                                                               *)

\* NewSubBucket adds an object for a bucket that is not in the map.
LEMMA MapExtended ==
    ASSUME NEW mp, NEW cache \in Seq({Handle(j) : j \in Names}), IsMap(mp, cache),
           NEW n \in Names, n \notin DOMAIN mp, NEW r \in Root, NEW mp2,
           mp2 = With(mp, n, [id |-> Len(cache) + 1, pgid |-> r])
    PROVE  IsMap(mp2, Append(cache, Handle(n)))
  <1> DEFINE c2 == Append(cache, Handle(n))
  <1>1. /\ Len(cache) \in Nat /\ Len(c2) = Len(cache) + 1 /\ c2[Len(cache) + 1] = Handle(n)
        /\ \A i \in 1 .. Len(cache) : c2[i] = cache[i]
    OBVIOUS
  <1>2. /\ DOMAIN mp2 = DOMAIN mp \cup {n} /\ mp2[n] = [id |-> Len(cache) + 1, pgid |-> r]
        /\ \A j \in DOMAIN mp : j # n => mp2[j] = mp[j]
    <2>1. IsWith(mp2, mp, n, [id |-> Len(cache) + 1, pgid |-> r])
      BY WithFacts
    <2>2. QED
      BY <2>1 DEF IsWith
  <1>3. Handle(n).key = n
    BY DEF Handle
  <1> HIDE DEF c2
  <1>4. ASSUME NEW j \in DOMAIN mp2
        PROVE  mp2[j] \in [id : 1 .. Len(c2), pgid : Root] /\ c2[mp2[j].id] = Handle(j)
    <2>1. CASE j = n
      <3>1. Len(cache) + 1 \in 1 .. Len(c2)
        BY <1>1
      <3>2. mp2[j].id = Len(cache) + 1
        BY <1>2, <2>1
      <3>3. QED
        BY <1>1, <1>2, <2>1, <3>1, <3>2
    <2>2. CASE j # n
      <3>1. j \in DOMAIN mp /\ mp2[j] = mp[j]
        BY <1>2, <2>2
      <3>2. mp[j] \in [id : 1 .. Len(cache), pgid : Root] /\ cache[mp[j].id] = Handle(j)
        BY <3>1 DEF IsMap
      <3>3. mp[j].id \in 1 .. Len(cache) /\ mp[j] \in [id : 1 .. Len(c2), pgid : Root]
        BY <1>1, <3>2
      <3>4. QED
        BY <1>1, <3>1, <3>2, <3>3
    <2>3. QED
      BY <2>1, <2>2
  <1>5. ASSUME NEW i \in 1 .. Len(c2)
        PROVE  c2[i].key \in DOMAIN mp2 /\ mp2[c2[i].key].id = i
    <2>1. CASE i = Len(cache) + 1
      BY <1>1, <1>2, <1>3, <2>1
    <2>2. CASE i # Len(cache) + 1
      <3>1. i \in 1 .. Len(cache) /\ c2[i] = cache[i]
        BY <1>1, <2>2
      <3>2. cache[i].key \in DOMAIN mp /\ mp[cache[i].key].id = i
        BY <3>1 DEF IsMap
      <3>3. QED
        BY <1>2, <3>1, <3>2
    <2>3. QED
      BY <2>1, <2>2
  <1>6. DOMAIN mp2 \subseteq Names
    BY <1>2 DEF IsMap
  <1>7. QED
    BY <1>4, <1>5, <1>6 DEF IsMap, c2

\* Only the user bucket has room for buckets.
LEMMA SubBucketOfUser ==
    ASSUME MaxDepth = 1, IInv, writer # "idle", NEW o \in Objects, Len(PathOf(o)) < MaxDepth
    PROVE  o = kUserRootBucketId /\ PathOf(o) = << >> /\ RootOf(o) = update_tx.user_root
  <1>1. ASSUME NEW n PROVE Len(<<n>>) = 1
    OBVIOUS
  <1>2. QED
    BY <1>1, ObjectFacts

\* The cache and the map after NewSubBucket.
LEMMA HandleAdded ==
    ASSUME MaxDepth = 1, IInv, writer = "open", writer' = "open", stored' = stored,
           NEW n \in Names, n \notin DOMAIN UserMap, NEW r \in Root,
           sub_bucket_map' = MapsWith(kUserRootBucketId, n, r),
           sub_bucket_cache' = Append(sub_bucket_cache, Handle(n)),
           ops < MaxOps, ops' = ops + 1
    PROVE  /\ HandleInv'
           /\ IsWith(UserMap', UserMap, n, [id |-> Len(sub_bucket_cache) + 1, pgid |-> r])
  <1> DEFINE mp2 == With(UserMap, n, [id |-> Len(sub_bucket_cache) + 1, pgid |-> r])
  <1>1. sub_bucket_map' = [sub_bucket_map EXCEPT ![kUserRootBucketId] = mp2]
    BY DEF MapsWith, UserMap
  <1>2. IsWith(mp2, UserMap, n, [id |-> Len(sub_bucket_cache) + 1, pgid |-> r])
    BY WithFacts
  <1>3. sub_bucket_cache \in Seq({Handle(j) : j \in Names})
    BY DEF IInv, HandleInv
  <1>4. IsMap(mp2, sub_bucket_cache')
    BY <1>3, MapFacts, MapExtended
  <1> HIDE DEF mp2
  <1>5. UserMap' = mp2
    BY <1>1, MapFacts DEF UserMap
  <1>6. sub_bucket_map' = [o \in BucketIds |-> IF o = kUserRootBucketId THEN UserMap' ELSE << >>]
    BY <1>1, <1>5, MapFacts DEF IsUserMapOnly
  <1>7. sub_bucket_cache' \in Seq({Handle(j) : j \in Names}) /\ Len(sub_bucket_cache') <= ops'
    BY <1>3 DEF IInv, HandleInv
  <1>8. ops' \in 0 .. MaxOps /\ stored' = {}
    BY ConstantFacts DEF IInv, HandleInv, StateInv
  <1>9. HandleInv'
    BY <1>4, <1>5, <1>6, <1>7, <1>8 DEF HandleInv
  <1>10. QED
    BY <1>2, <1>5, <1>9

LEMMA UserObject ==
    ASSUME MaxDepth = 1, IInv, writer # "idle"
    PROVE  /\ kUserRootBucketId \in Objects
           /\ PathOf(kUserRootBucketId) = << >>
           /\ RootOf(kUserRootBucketId) = update_tx.user_root
           /\ update_tx.user_root \in Root
  <1>1. sub_bucket_cache \in Seq({Handle(j) : j \in Names})
    BY DEF IInv, HandleInv
  <1>2. kUserRootBucketId \in Objects
    BY <1>1 DEF Objects, kUserRootBucketId
  <1>3. QED
    BY <1>2, ObjectFacts

\* A write to the tree of the user bucket that leaves its keys alone.
LEMMA UserTreeWritten ==
    ASSUME MaxDepth = 1, IInv, writer # "idle", NEW x \in PageIds, NEW e,
           Written(x, kUserRootBucketId, e),
           ContentOf(e) = ContentOf(Entries(page, update_tx.user_root))
    PROVE  IsWork([WorkRoots EXCEPT ![<< >>] = x], work, update_tx', page', free_map', pending_map')
  <1> DEFINE u == update_tx.user_root
             d == Entries(page, u)
  <1>1. IsWork([WorkRoots EXCEPT ![<< >>] = x],
               [work EXCEPT ![<< >>] = [exists |-> TRUE, content |-> ContentOf(e)]],
               update_tx', page', free_map', pending_map')
    BY UserObject, WorkAfterWrite
  <1> HIDE DEF u, d
  <1>2. [work EXCEPT ![<< >>] = [exists |-> TRUE, content |-> ContentOf(e)]] = work
    <2>1. WorkRoots[<< >>] = u /\ << >> \in Paths /\ u # NoBucket
      BY UserObject, WorkRootsFacts, PathFacts, RootBounds DEF WorkRoots, u
    <2>2. work = Buckets(page, WorkRoots)
      BY WorkFacts DEF IsWork
    <2>3. work[<< >>] = [exists |-> TRUE, content |-> ContentOf(d)]
      BY <2>1, <2>2, BucketAfter DEF Buckets, d
    <2>4. work = [path \in Paths |-> work[path]]
      BY <2>2 DEF Buckets
    <2>5. ContentOf(d) = ContentOf(e)
      BY DEF d, u
    <2>6. QED
      BY <2>3, <2>4, <2>5
  <1>3. QED
    BY <1>1, <1>2

\* SubBucket of a bucket that is in the tree.
LEMMA OpenStep ==
    ASSUME MaxDepth = 1, IInv, writer = "open", ops < MaxOps, ops' = ops + 1,
           NEW n \in Names, n \notin DOMAIN UserMap,
           n \in DOMAIN Entries(page, update_tx.user_root),
           sub_bucket_map' = MapsWith(kUserRootBucketId, n, Entries(page, update_tx.user_root)[n].value),
           sub_bucket_cache' = Append(sub_bucket_cache, Handle(n)),
           UNCHANGED <<update_tx, pagerVars, page, work, meta, writer, stored, views, committed>>
    PROVE  IInv'
  <1> DEFINE r == Entries(page, update_tx.user_root)[n].value
             y == [id |-> Len(sub_bucket_cache) + 1, pgid |-> r]
  <1>1. r \in Root /\ SubRootAt(page, update_tx.user_root, n) = r
    BY MetaFacts, SubRootType
  <1>2. HandleInv' /\ IsWith(UserMap', UserMap, n, y)
    BY <1>1, HandleAdded
  <1>3. y.pgid = r
    OBVIOUS
  <1> HIDE DEF r, y
  <1>4. WorkRootsOf(page, update_tx.user_root, UserMap') = WorkRoots
    <2>1. SameRoots(WorkRootsOf(page, update_tx.user_root, UserMap'),
                    WorkRootsOf(page, update_tx.user_root, UserMap))
      BY <1>1, <1>2, <1>3, WorkRootsFacts DEF SameRoots, IsWith
    <2>2. QED
      BY <2>1, RootsOnPaths, PathFunctions DEF WorkRoots
  <1>5. WorkRoots' = WorkRoots
    BY <1>4 DEF WorkRoots
  <1>6. WorkInv'
    BY <1>5, WorkFacts DEF WorkInv, pagerVars
  <1>7. PagerInv' /\ VersionInv'
    <2>1. PagerInv'
      BY DEF IInv, PagerInv, pagerVars
    <2>2. OpenViews' = OpenViews
      BY DEF OpenViews
    <2>3. QED
      BY <2>1, <2>2 DEF IInv, VersionInv, pagerVars
  <1>8. StateInv'
    BY DEF IInv, StateInv
  <1>9. QED
    BY <1>2, <1>6, <1>7, <1>8 DEF IInv

\* SubBucket of a bucket that is not in the tree.
LEMMA CreateStep ==
    ASSUME MaxDepth = 1, IInv, writer = "open", ops < MaxOps, ops' = ops + 1,
           NEW n \in Names, n \notin DOMAIN UserMap,
           n \notin DOMAIN Entries(page, update_tx.user_root),
           BTreeWrite(kUserRootBucketId,
                      With(Entries(page, update_tx.user_root), n, SubRoot(kPageInvalidId)),
                      MapsWith(kUserRootBucketId, n, kPageInvalidId)),
           work' = [work EXCEPT ![<<n>>] = Empty],
           sub_bucket_cache' = Append(sub_bucket_cache, Handle(n)),
           UNCHANGED <<meta, writer, stored, views, committed>>
    PROVE  IInv'
  <1> DEFINE o == kUserRootBucketId
             u == update_tx.user_root
             d == Entries(page, u)
             e == With(d, n, SubRoot(kPageInvalidId))
             y == [id |-> Len(sub_bucket_cache) + 1, pgid |-> kPageInvalidId]
  <1>1. o \in Objects /\ PathOf(o) = << >> /\ RootOf(o) = u /\ u \in Root
    BY UserObject
  <1>2. PathOf(o) = << >> /\ RootOf(o) = u /\ u \in Root
    BY <1>1
  <1>3. PICK x \in PageIds : Written(x, o, e) /\ MapWritten(x, o, MapsWith(o, n, kPageInvalidId))
    BY <1>1, WriteFacts
  <1>4. sub_bucket_map' = MapsWith(o, n, kPageInvalidId)
    BY <1>3 DEF MapWritten
  <1>5. HandleInv' /\ IsWith(UserMap', UserMap, n, y)
    BY <1>4, RootBounds, HandleAdded
  <1>6. IsWith(e, d, n, SubRoot(kPageInvalidId)) /\ SubRoot(kPageInvalidId).value = kPageInvalidId
    BY WithFacts DEF SubRoot
  <1>7. IsEntries(d)
    BY <1>2, MetaFacts, EntriesType
  <1>8. y.pgid = kPageInvalidId /\ n \notin Keys
    BY ConstantFacts
  <1>9. SubRootAt(page, u, n) = NoBucket
    BY <1>2, MetaFacts, SubRootType
  <1>10. page'[x].entries = e /\ update_tx'.user_root = x
    BY <1>3, MetaFacts, LeafFields DEF Written, IsFile, IsMetaAfter
  <1> HIDE DEF o, d, e, y, u
  <1>11. IsEntries(e) /\ AgreeOn(Names \ {n}, e, d)
    BY <1>6, <1>7, RootBounds DEF IsWith, IsEntries, AgreeOn, Agree
  <1>12. ContentOf(e) = ContentOf(d)
    BY <1>6, <1>8 DEF IsWith, ContentOf
  <1>13. /\ IsFile(page') /\ PagerInv' /\ VersionInv'
         /\ \A p \in alloc_records' : page'[p].last_modified_txid = update_tx.txid
    BY <1>1, <1>3, <1>11, WrittenKeeps
  <1>14. IsWork([WorkRoots EXCEPT ![<< >>] = x], work, update_tx', page', free_map', pending_map')
    BY <1>3, <1>12, UserTreeWritten DEF o, d, u
  <1>15. IsWork([[WorkRoots EXCEPT ![<< >>] = x] EXCEPT ![<<n>>] = kPageInvalidId], work',
                update_tx', page', free_map', pending_map')
    <2>1. [WorkRoots EXCEPT ![<< >>] = x][<<n>>] = NoBucket
      <3>1. WorkRoots[<<n>>] = NoBucket
        BY <1>9, WorkRootsFacts DEF WorkRoots, u
      <3>2. OnPaths(WorkRoots) /\ <<n>> \in Paths /\ <<n>> # << >>
        BY RootsOnPaths, PathFacts DEF WorkRoots
      <3>3. QED
        BY <3>1, <3>2 DEF OnPaths
    <2>2. QED
      BY <1>14, <2>1, WorkExtended
  <1>16. WorkRoots' = [[WorkRoots EXCEPT ![<< >>] = x] EXCEPT ![<<n>>] = kPageInvalidId]
    <2>1. IsExtended(WorkRootsOf(page', x, UserMap'), WorkRootsOf(page, u, UserMap), n, x)
      BY <1>2, <1>5, <1>8, <1>10, <1>11, UserRootExtended DEF d
    <2>2. QED
      BY <1>10, <2>1 DEF IsExtended, WorkRoots, u
  <1>17. /\ IsMeta(update_tx') /\ update_tx'.txid = update_tx.txid
         /\ update_tx.page_count <= update_tx'.page_count
    BY <1>3 DEF Written, IsMetaAfter
  <1>18. WorkInv'
    <2>1. meta'.page_count <= update_tx'.page_count
      BY <1>17, WorkFacts, MetaFacts DEF IsMeta
    <2>2. QED
      BY <1>13, <1>15, <1>16, <1>17, <2>1, WorkFacts DEF WorkInv
  <1>19. StateInv'
    BY <1>13, <1>17 DEF IInv, StateInv
  <1>20. QED
    BY <1>5, <1>13, <1>18, <1>19 DEF IInv

LEMMA SubBucketStep ==
    ASSUME MaxDepth = 1, IInv, NEW o \in Objects, NEW n \in Names, SubBucket(o, n)
    PROVE  IInv'
  <1>1. writer = "open" /\ ops < MaxOps /\ ops' = ops + 1 /\ Len(PathOf(o)) < MaxDepth
        /\ n \notin DOMAIN sub_bucket_map[o]
        /\ UNCHANGED <<meta, writer, stored, views, committed>>
    BY DEF SubBucket
  <1>2. o = kUserRootBucketId /\ PathOf(o) = << >> /\ RootOf(o) = update_tx.user_root
    BY <1>1, SubBucketOfUser
  <1>3. n \notin DOMAIN UserMap
    BY <1>1, <1>2 DEF UserMap
  <1>4. Append(PathOf(o), n) = <<n>>
    BY <1>2
  <1>5. sub_bucket_cache' = Append(sub_bucket_cache, Handle(n))
    BY <1>2, <1>4 DEF SubBucket, Handle
  <1>6. CASE n \in DOMAIN Entries(page, update_tx.user_root)
    <2>1. sub_bucket_map' = MapsWith(o, n, Entries(page, update_tx.user_root)[n].value)
          /\ UNCHANGED <<update_tx, pagerVars, page, work>>
      BY <1>2, <1>6 DEF SubBucket
    <2>2. QED
      BY <1>1, <1>2, <1>3, <1>5, <1>6, <2>1, OpenStep
  <1>7. CASE n \notin DOMAIN Entries(page, update_tx.user_root)
    <2>1. /\ BTreeWrite(o, With(Entries(page, update_tx.user_root), n, SubRoot(kPageInvalidId)),
                        MapsWith(o, n, kPageInvalidId))
          /\ work' = [work EXCEPT ![<<n>>] = Empty]
      BY <1>2, <1>4, <1>7 DEF SubBucket
    <2>2. QED
      BY <1>1, <1>2, <1>3, <1>5, <1>7, <2>1, CreateStep
  <1>8. QED
    BY <1>6, <1>7

-----------------------------------------------------------------------------
(* Transactions begin and end.                                              *)

LEMMA ViewsUnchanged ==
    ASSUME IInv, UNCHANGED <<meta, views, committed, page, free_map, pending_map>>
    PROVE  VersionInv'
  <1>1. OpenViews' = OpenViews
    BY DEF OpenViews
  <1>2. QED
    BY <1>1 DEF IInv, VersionInv

\* The user bucket's map is empty: every root is in the tree.
LEMMA RootsOfEmptyMap ==
    ASSUME MaxDepth = 1, NEW pg, NEW root, NEW mp,
           \A n \in Names : n \in DOMAIN mp => mp[n].pgid = SubRootAt(pg, root, n)
    PROVE  WorkRootsOf(pg, root, mp) = RootsOf(pg, root)
  <1>1. SameRoots(WorkRootsOf(pg, root, mp), RootsOf(pg, root))
    BY WorkRootsFacts, RootsOfFacts DEF SameRoots
  <1>2. QED
    BY <1>1, RootsOnPaths, PathFunctions

LEMMA IdleHandles ==
    ASSUME IInv, EndOfTransaction
    PROVE  HandleInv'
  <1>1. /\ sub_bucket_map' = NoMaps /\ sub_bucket_cache' = << >> /\ stored' = {} /\ ops' = 0
    BY DEF EndOfTransaction
  <1>2. UserMap' = << >>
    BY <1>1, MapFacts DEF UserMap, NoMaps
  <1>3. sub_bucket_map' = [o \in BucketIds |-> IF o = kUserRootBucketId THEN UserMap' ELSE << >>]
    BY <1>1, <1>2 DEF NoMaps
  <1>4. IsMap(<< >>, << >>)
    BY DEF IsMap
  <1>5. << >> \in Seq({Handle(n) : n \in Names})
    OBVIOUS
  <1>6. QED
    BY <1>1, <1>2, <1>3, <1>4, <1>5, ConstantFacts DEF HandleInv

LEMMA NoUpdateTxIsMeta == IsMeta(NoUpdateTx)
  BY ConstantFacts, RootBounds DEF IsMeta, NoUpdateTx, TxIds

LEMMA ViewStep ==
    ASSUME MaxDepth = 1, IInv, NEW r \in Readers, View(r) \/ RollBackView(r)
    PROVE  IInv'
  <1>1. UNCHANGED <<meta, update_tx, writer, sub_bucket_map, sub_bucket_cache, stored, work, ops,
                    free_map, pending_map, alloc_records, page, committed>>
    BY DEF View, RollBackView, txVars, pagerVars
  <1>2. PagerInv' /\ HandleInv' /\ WorkInv'
    <2>1. UserMap' = UserMap /\ WorkRoots' = WorkRoots
      BY <1>1 DEF UserMap, WorkRoots
    <2>2. QED
      BY <1>1, <2>1 DEF IInv, PagerInv, HandleInv, WorkInv
  <1>3. views = [s \in Readers |-> views[s]]
    BY DEF IInv, StateInv
  <1>4. \A s \in Readers : s # r => views'[s] = views[s]
    BY <1>3 DEF View, RollBackView
  <1>5. CASE View(r)
    <2>1. views'[r] = [txid |-> meta.txid, user_root |-> meta.user_root, seen |-> committed]
      BY <1>3, <1>5 DEF View
    <2>2. views'[r].txid = meta.txid /\ views'[r].user_root = meta.user_root
          /\ views'[r].seen = committed
      BY <2>1
    <2>3. views' = [s \in Readers |-> views'[s]]
      BY <1>3, <1>5 DEF View
    <2>4. StateInv'
      BY <1>1, <1>4, <2>2, <2>3, MetaFacts DEF IInv, StateInv
    <2>5. ASSUME NEW s \in OpenViews'
          PROVE  IsVersion(views'[s].txid, views'[s].user_root, views'[s].seen,
                           meta', page', free_map', pending_map')
      <3>1. CASE s = r
        BY <1>1, <2>2, <3>1 DEF IInv, VersionInv
      <3>2. CASE s # r
        <4>1. s \in OpenViews /\ views'[s] = views[s]
          BY <1>4, <3>2 DEF OpenViews
        <4>2. QED
          BY <1>1, <4>1 DEF IInv, VersionInv
      <3>3. QED
        BY <3>1, <3>2
    <2>6. VersionInv'
      BY <1>1, <2>5 DEF IInv, VersionInv
    <2>7. QED
      BY <1>2, <2>4, <2>6 DEF IInv
  <1>6. CASE RollBackView(r)
    <2>1. views'[r] = NoView
      BY <1>3, <1>6 DEF RollBackView
    <2>2. views'[r].txid \in TxIds /\ views'[r].user_root \in Root
      BY <2>1, ConstantFacts, RootBounds DEF NoView, TxIds
    <2>3. views' = [s \in Readers |-> views'[s]]
      BY <1>3, <1>6 DEF RollBackView
    <2>4. StateInv'
      BY <1>1, <1>4, <2>2, <2>3, MetaFacts DEF IInv, StateInv
    <2>5. ASSUME NEW s \in OpenViews'
          PROVE  IsVersion(views'[s].txid, views'[s].user_root, views'[s].seen,
                           meta', page', free_map', pending_map')
      <3>1. s # r /\ s \in Readers
        BY <2>1 DEF OpenViews, NoView, NoBuckets
      <3>2. s \in OpenViews /\ views'[s] = views[s]
        BY <1>4, <3>1 DEF OpenViews, NoView, NoBuckets
      <3>3. QED
        BY <1>1, <3>2 DEF IInv, VersionInv
    <2>6. VersionInv'
      BY <1>1, <2>5 DEF IInv, VersionInv
    <2>7. QED
      BY <1>2, <2>4, <2>6 DEF IInv
  <1>7. QED
    BY <1>5, <1>6

LEMMA UpdateStep ==
    ASSUME MaxDepth = 1, IInv, Update
    PROVE  IInv'
  <1> DEFINE released == {t \in TxIds : t < MinView - 1}
  <1>1. /\ writer = "idle" /\ meta.txid < MaxTxId /\ writer' = "open"
        /\ update_tx' = [meta EXCEPT !.txid = @ + 1]
        /\ free_map' = free_map \cup UNION {pending_map[t] : t \in released}
        /\ pending_map' = [t \in TxIds |-> IF t \in released THEN {} ELSE pending_map[t]]
        /\ alloc_records' = {}
        /\ work' = committed
        /\ UNCHANGED <<meta, sub_bucket_map, sub_bucket_cache, stored, views, page, committed, ops>>
    BY DEF Update
  <1>2. /\ free_map \subseteq 0 .. (meta.page_count - 1)
        /\ pending_map \in [TxIds -> SUBSET PageIds]
        /\ \A t \in TxIds : \A p \in pending_map[t] :
              /\ t <= meta.txid => p < meta.page_count
              /\ t <= meta.txid
              /\ p \notin free_map
              /\ \A s \in TxIds : p \in pending_map[s] => s = t
    <2>1. \A t \in TxIds : t \in Nat
      BY ConstantFacts DEF TxIds
    <2>2. QED
      BY <1>1, <2>1, MetaFacts DEF IInv, PagerInv
  <1>3. \A p : p \in free_map' <=> p \in free_map \/ \E t \in TxIds : t < MinView - 1 /\ p \in pending_map[t]
    BY <1>1
  <1>4. \A t \in TxIds : \A p : p \in pending_map'[t] <=> p \in pending_map[t] /\ ~(t < MinView - 1)
    BY <1>1
  <1>5. pending_map' \in [TxIds -> SUBSET PageIds]
    BY <1>1, <1>2
  <1>6. MinView \in Nat /\ MinView <= meta.txid
    BY MinViewFacts
  <1>7. /\ update_tx'.txid = meta.txid + 1 /\ update_tx'.user_root = meta.user_root
        /\ update_tx'.page_count = meta.page_count /\ IsMeta(update_tx')
    <2>1. meta \in [txid : TxIds, user_root : Root, page_count : 0 .. PageMaxCount]
      BY MetaFacts DEF IsMeta
    <2>2. meta.txid + 1 \in TxIds
      BY <1>1, <2>1, ConstantFacts DEF TxIds
    <2>3. QED
      BY <1>1, <2>1, <2>2 DEF IsMeta
  <1> HIDE DEF released
  <1>8. ASSUME NEW v \in TxIds, MinView <= v, NEW p \in PageIds
        PROVE  StillKept(p, v)
    <2>1. SUFFICES ASSUME IsKept(p, v, meta, page, free_map, pending_map)
                   PROVE  IsKept(p, v, meta, page, free_map', pending_map')
      BY <1>1 DEF StillKept
    <2>2. \A t \in TxIds : p \in pending_map[t] => ~(t < MinView - 1)
      BY <1>6, <1>8, <2>1, ConstantFacts DEF IsKept, TxIds
    <2>3. p \notin free_map'
      BY <1>3, <2>1, <2>2 DEF IsKept
    <2>4. QED
      BY <1>4, <2>1, <2>3 DEF IsKept
  <1>9. VersionInv'
    BY <1>1, <1>8, VersionsKept
  <1>10. PagerInv'
    <2>1. free_map' \subseteq 0 .. (meta'.page_count - 1)
      <3>1. ASSUME NEW p \in free_map' PROVE p \in 0 .. (meta.page_count - 1)
        <4>1. CASE p \in free_map
          BY <1>2, <4>1
        <4>2. CASE p \notin free_map
          <5>1. PICK t \in TxIds : p \in pending_map[t]
            BY <1>3, <4>2
          <5>2. p \in PageIds /\ p < meta.page_count
            BY <1>2, <5>1
          <5>3. QED
            BY <5>2, RootBounds, MetaFacts
        <4>3. QED
          BY <4>1, <4>2
      <3>2. QED
        BY <1>1, <3>1
    <2>2. ASSUME NEW t \in TxIds, NEW p \in pending_map'[t]
          PROVE  /\ t <= meta.txid => p < meta.page_count
                 /\ t <= meta.txid
                 /\ p \notin free_map'
                 /\ \A s \in TxIds : p \in pending_map'[s] => s = t
      <3>1. p \in pending_map[t] /\ ~(t < MinView - 1)
        BY <1>4
      <3>2. p \notin free_map'
        BY <1>2, <1>3, <3>1
      <3>3. QED
        BY <1>2, <1>4, <3>1, <3>2
    <2>3. QED
      <3>1. \A t \in TxIds : t \in Nat
        BY ConstantFacts DEF TxIds
      <3>2. QED
        BY <1>1, <1>5, <2>1, <2>2, <3>1, MetaFacts DEF PagerInv
  <1>11. sub_bucket_map = NoMaps /\ stored = {} /\ sub_bucket_cache = << >>
    BY <1>1 DEF IInv, StateInv
  <1>12. StateInv'
    BY <1>1, <1>7, <1>11 DEF IInv, StateInv
  <1>13. UserMap' = UserMap /\ DOMAIN UserMap = {}
    BY <1>1, <1>11, MapFacts DEF UserMap, NoMaps
  <1>14. HandleInv'
    BY <1>1, <1>11, <1>13 DEF IInv, HandleInv
  <1>15. WorkRoots' = RootsOf(page, meta.user_root)
    <2>1. WorkRootsOf(page, meta.user_root, UserMap) = RootsOf(page, meta.user_root)
      BY <1>13, RootsOfEmptyMap
    <2>2. QED
      BY <1>1, <1>7, <1>13, <2>1 DEF WorkRoots
  <1>16. IsWork(RootsOf(page, meta.user_root), committed, update_tx', page, free_map', pending_map')
    <2>1. /\ IsVersion(meta.txid, meta.user_root, committed, meta, page, free_map, pending_map)
          /\ Distinct(RootsOf(page, meta.user_root))
      BY DEF IInv, VersionInv
    <2>2. /\ RootsOf(page, meta.user_root) \in [Paths -> 0 .. NoBucket]
          /\ RootsOf(page, meta.user_root)[<< >>] \in Root
      BY MetaFacts, RootsType, RootsOfFacts
    <2>3. ASSUME NEW p \in PageIds, Has(RootsOf(page, meta.user_root), p)
          PROVE  IsInWork(p, update_tx', page, free_map', pending_map')
      <3>1. IsKept(p, meta.txid, meta, page, free_map, pending_map)
        BY <2>1, <2>3 DEF IsVersion
      <3>2. \A t \in TxIds : p \notin pending_map[t]
        BY <1>2, <3>1, MetaFacts, ConstantFacts DEF IsKept, TxIds
      <3>3. p \notin free_map' /\ \A t \in TxIds : p \notin pending_map'[t]
        BY <1>3, <1>4, <3>1, <3>2 DEF IsKept
      <3>4. page[p].last_modified_txid \in Nat
        BY MetaFacts, ConstantFacts DEF IsFile, IsLeaf, TxIds
      <3>5. page[p].last_modified_txid <= meta.txid + 1 /\ p < meta.page_count
        BY <3>1, <3>4, MetaFacts DEF IsKept
      <3>6. QED
        BY <1>7, <3>3, <3>5 DEF IsInWork
    <2>4. QED
      BY <2>1, <2>2, <2>3 DEF IsWork, IsVersion
  <1>17. WorkInv'
    BY <1>1, <1>7, <1>15, <1>16, MetaFacts DEF WorkInv
  <1>18. QED
    BY <1>9, <1>10, <1>12, <1>14, <1>17 DEF IInv

LEMMA RollBackStep ==
    ASSUME MaxDepth = 1, IInv, RollBack
    PROVE  IInv'
  <1> DEFINE T == update_tx.txid
  <1>1. /\ writer = "open"
        /\ pending_map' = [pending_map EXCEPT ![T] = {}]
        /\ free_map' = free_map \cup alloc_records /\ alloc_records' = {}
        /\ EndOfTransaction
        /\ UNCHANGED <<meta, views, page, committed>>
    BY DEF RollBack
  <1>2. writer' = "idle" /\ update_tx' = NoUpdateTx /\ sub_bucket_map' = NoMaps
        /\ sub_bucket_cache' = << >> /\ stored' = {}
    BY <1>1 DEF EndOfTransaction
  <1>3. HandleInv'
    BY <1>1, IdleHandles
  <1>4. StateInv'
    BY <1>1, <1>2, NoUpdateTxIsMeta DEF IInv, StateInv
  <1>5. WorkInv'
    BY <1>2 DEF WorkInv
  <1>6. /\ T = meta.txid + 1 /\ T \in TxIds
        /\ \A p \in alloc_records : page[p].last_modified_txid = T
    BY <1>1, WorkFacts, MetaFacts
  <1>7. /\ pending_map \in [TxIds -> SUBSET PageIds]
        /\ free_map \subseteq 0 .. (meta.page_count - 1)
        /\ alloc_records \subseteq 0 .. (meta.page_count - 1)
        /\ \A t \in TxIds : \A p \in pending_map[t] :
              /\ t <= meta.txid => p < meta.page_count
              /\ t > meta.txid => t = T
              /\ p \notin free_map /\ p \notin alloc_records
              /\ \A s \in TxIds : p \in pending_map[s] => s = t
    BY <1>1 DEF IInv, PagerInv
  <1> HIDE DEF T
  <1>8. /\ pending_map' \in [TxIds -> SUBSET PageIds]
        /\ \A t \in TxIds : \A p : p \in pending_map'[t] <=> p \in pending_map[t] /\ t # T
    BY <1>1, <1>6, <1>7
  <1>9. PagerInv'
    BY <1>1, <1>7, <1>8 DEF PagerInv
  <1>10. ASSUME NEW v \in TxIds, NEW p \in PageIds
         PROVE  StillKept(p, v)
    <2>1. SUFFICES ASSUME IsKept(p, v, meta, page, free_map, pending_map)
                   PROVE  IsKept(p, v, meta, page, free_map', pending_map')
      BY <1>1 DEF StillKept
    <2>2. p \notin alloc_records
      BY <1>6, <2>1, MetaFacts DEF IsKept
    <2>3. QED
      BY <1>1, <1>8, <2>1, <2>2 DEF IsKept
  <1>11. VersionInv'
    BY <1>1, <1>10, VersionsKept
  <1>12. QED
    BY <1>3, <1>4, <1>5, <1>9, <1>11 DEF IInv

-----------------------------------------------------------------------------
(* TxImpl::Commit.                                                          *)

LEMMA BeginCommitStep ==
    ASSUME MaxDepth = 1, IInv, BeginCommit
    PROVE  IInv'
  <1>1. /\ writer = "open" /\ writer' = "storing"
        /\ UNCHANGED <<meta, update_tx, sub_bucket_map, sub_bucket_cache, stored, views,
                       free_map, pending_map, alloc_records, page, work, committed, ops>>
    BY DEF BeginCommit, pagerVars
  <1>2. UserMap' = UserMap /\ WorkRoots' = WorkRoots
    BY <1>1 DEF UserMap, WorkRoots
  <1>3. VersionInv'
    BY <1>1, ViewsUnchanged
  <1>4. StateInv'
    BY <1>1 DEF IInv, StateInv
  <1>5. PagerInv' /\ HandleInv' /\ WorkInv'
    BY <1>1, <1>2 DEF IInv, PagerInv, HandleInv, WorkInv
  <1>6. QED
    BY <1>3, <1>4, <1>5 DEF IInv

\* The entry of a bucket of the user bucket is put into its tree.
LEMMA StoreStep ==
    ASSUME MaxDepth = 1, IInv, writer = "storing", NEW n \in DOMAIN UserMap,
           BTreeWrite(kUserRootBucketId,
                      With(Entries(page, update_tx.user_root), n, SubRoot(UserMap[n].pgid)),
                      sub_bucket_map),
           stored' = stored \cup {<<kUserRootBucketId, n>>},
           UNCHANGED <<meta, writer, sub_bucket_cache, views, work, committed, ops>>
    PROVE  IInv'
  <1> DEFINE o == kUserRootBucketId
             u == update_tx.user_root
             d == Entries(page, u)
             r == UserMap[n].pgid
             e == With(d, n, SubRoot(r))
  <1>1. o \in Objects /\ PathOf(o) = << >> /\ RootOf(o) = u /\ u \in Root
    BY UserObject
  <1>2. PICK x \in PageIds : Written(x, o, e) /\ MapWritten(x, o, sub_bucket_map)
    BY <1>1, WriteFacts
  <1>3. sub_bucket_map' = sub_bucket_map /\ UserMap' = UserMap
    BY <1>2 DEF MapWritten, UserMap
  <1>4. IsWith(e, d, n, SubRoot(r)) /\ SubRoot(r).value = r
    BY WithFacts DEF SubRoot
  <1>5. IsEntries(d) /\ r \in Root /\ n \in Names /\ n \notin Keys
    BY <1>1, MetaFacts, EntriesType, MapFacts, ConstantFacts DEF IsMap
  <1>6. page'[x].entries = e /\ update_tx'.user_root = x
    BY <1>2, MetaFacts, LeafFields DEF Written, IsFile, IsMetaAfter
  <1> HIDE DEF o, d, e, u, r
  <1>7. IsEntries(e) /\ AgreeOn(Names \ {n}, e, d)
    BY <1>4, <1>5, RootBounds DEF IsWith, IsEntries, AgreeOn, Agree
  <1>8. AgreeOn(Names \ DOMAIN UserMap, e, Entries(page, RootOf(o)))
    BY <1>1, <1>7 DEF AgreeOn, d
  <1>9. ContentOf(e) = ContentOf(d)
    BY <1>4, <1>5 DEF IsWith, ContentOf
  <1>10. /\ IsFile(page') /\ PagerInv' /\ VersionInv'
         /\ \A p \in alloc_records' : page'[p].last_modified_txid = update_tx.txid
    BY <1>1, <1>2, <1>7, WrittenKeeps
  <1>11. IsWork([WorkRoots EXCEPT ![<< >>] = x], work, update_tx', page', free_map', pending_map')
    BY <1>2, <1>9, UserTreeWritten DEF o, d, u
  <1>12. WorkRoots' = [WorkRoots EXCEPT ![<< >>] = x]
    BY <1>1, <1>2, <1>8, RootsAfterWrite
  <1>13. /\ IsMeta(update_tx') /\ update_tx'.txid = update_tx.txid
         /\ update_tx.page_count <= update_tx'.page_count
    BY <1>2 DEF Written, IsMetaAfter
  <1>14. WorkInv'
    <2>1. meta'.page_count <= update_tx'.page_count
      BY <1>13, WorkFacts, MetaFacts DEF IsMeta
    <2>2. QED
      BY <1>10, <1>11, <1>12, <1>13, <2>1, WorkFacts DEF WorkInv
  <1>15. ASSUME NEW j \in Names, <<kUserRootBucketId, j>> \in stored'
         PROVE  SubRootAt(page', x, j) = UserMap[j].pgid
    <2>1. CASE j = n
      <3>1. Entries(page', x) = e /\ x # NoBucket
        BY <1>6, BucketAfter, RootBounds
      <3>2. QED
        BY <1>4, <2>1, <3>1 DEF SubRootAt, IsWith, r
    <2>2. CASE j # n
      <3>1. <<kUserRootBucketId, j>> \in stored
        BY <1>15, <2>2
      <3>2. SubRootAt(page, u, j) = UserMap[j].pgid
        BY <3>1 DEF IInv, HandleInv, u
      <3>3. Agree(page'[x].entries, Entries(page, u), j)
        BY <1>6, <1>7, <2>2 DEF AgreeOn, d
      <3>4. QED
        BY <1>1, <3>2, <3>3, SubRootAgrees
    <2>3. QED
      BY <2>1, <2>2
  <1>16. HandleInv'
    <2>1. stored' \subseteq {<<kUserRootBucketId, j>> : j \in DOMAIN UserMap}
      BY DEF IInv, HandleInv
    <2>2. QED
      BY <1>3, <1>6, <1>15, <2>1 DEF IInv, HandleInv
  <1>17. StateInv'
    BY <1>10, <1>13 DEF IInv, StateInv
  <1>18. QED
    BY <1>10, <1>14, <1>16, <1>17 DEF IInv

LEMMA ObjectInMaps ==
    ASSUME MaxDepth = 1, IInv, writer # "idle", NEW o \in Objects
    PROVE  o \in BucketIds
  <1>1. /\ sub_bucket_cache \in Seq({Handle(j) : j \in Names})
        /\ Len(sub_bucket_cache) <= ops /\ ops \in 0 .. MaxOps
    BY DEF IInv, HandleInv
  <1>2. QED
    BY <1>1, ConstantFacts DEF Objects, BucketIds, kUserRootBucketId

LEMMA StoreNextStep ==
    ASSUME MaxDepth = 1, IInv, StoreNext
    PROVE  IInv'
  <1>1. PICK o \in Objects : \E n \in ToStore(o) :
           /\ BTreeWrite(o, With(Entries(page, RootOf(o)), n,
                                 SubRoot(sub_bucket_map[o][n].pgid)), sub_bucket_map)
           /\ stored' = stored \cup {<<o, n>>}
    BY DEF StoreNext
  <1>2. PICK n \in ToStore(o) :
           /\ BTreeWrite(o, With(Entries(page, RootOf(o)), n,
                                 SubRoot(sub_bucket_map[o][n].pgid)), sub_bucket_map)
           /\ stored' = stored \cup {<<o, n>>}
    BY <1>1
  <1>3. writer = "storing"
        /\ UNCHANGED <<meta, writer, sub_bucket_cache, views, work, committed, ops>>
    BY DEF StoreNext
  <1>4. n \in DOMAIN sub_bucket_map[o]
    BY <1>2 DEF ToStore
  <1>5. o = kUserRootBucketId
    <2>1. SUFFICES ASSUME o # kUserRootBucketId PROVE FALSE
      OBVIOUS
    <2>2. o \in BucketIds => sub_bucket_map[o] = << >>
      BY <2>1, MapFacts DEF IsUserMapOnly
    <2>3. o \in BucketIds
      BY <1>3, <2>1, ObjectInMaps
    <2>4. DOMAIN << >> = {}
      OBVIOUS
    <2>5. QED
      BY <1>4, <2>2, <2>3, <2>4
  <1>6. RootOf(o) = update_tx.user_root /\ sub_bucket_map[o] = UserMap
    BY <1>3, <1>5, UserObject DEF UserMap
  <1>7. QED
    BY <1>2, <1>3, <1>4, <1>5, <1>6, StoreStep

\* When everything is stored, the tree of the user bucket knows every root.
LEMMA StoredRoots ==
    ASSUME MaxDepth = 1, IInv, writer = "storing", AllStored
    PROVE  WorkRoots = RootsOf(page, update_tx.user_root)
  <1>1. ToStore(kUserRootBucketId) = {}
    BY UserObject DEF AllStored
  <1>2. ASSUME NEW n \in Names, n \in DOMAIN UserMap
        PROVE  UserMap[n].pgid = SubRootAt(page, update_tx.user_root, n)
    <2>1. <<kUserRootBucketId, n>> \in stored
      BY <1>1, <1>2 DEF ToStore, UserMap
    <2>2. QED
      BY <1>2, <2>1 DEF IInv, HandleInv
  <1>3. QED
    BY <1>2, RootsOfEmptyMap DEF WorkRoots

LEMMA CommitStep ==
    ASSUME MaxDepth = 1, IInv, Commit
    PROVE  IInv'
  <1> DEFINE q == NextPage
  <1>1. /\ writer = "storing" /\ AllStored
        /\ meta' = update_tx /\ committed' = work
        /\ free_map' = free_map \ {q}
        /\ alloc_records' = alloc_records \cup ({q} \cap free_map)
        /\ page' = [p \in PageIds |-> IF p = q THEN Blank ELSE page[p]]
        /\ EndOfTransaction
        /\ UNCHANGED <<views, pending_map>>
    BY DEF Commit
  <1>2. /\ q \in Nat /\ (q \in free_map \/ q = update_tx.page_count)
        /\ \A v : ~IsKept(q, v, meta, page, free_map, pending_map)
    BY <1>1, NextPageFacts
  <1>3. writer' = "idle" /\ update_tx' = NoUpdateTx /\ sub_bucket_map' = NoMaps
        /\ sub_bucket_cache' = << >> /\ stored' = {}
    BY <1>1 DEF EndOfTransaction
  <1> HIDE DEF q
  <1>4. HandleInv'
    BY <1>1, IdleHandles
  <1>5. WorkInv'
    BY <1>3 DEF WorkInv
  <1>6. IsFile(page')
    <2>1. DOMAIN << >> = {}
      OBVIOUS
    <2>2. IsLeaf(Blank)
      BY <2>1, LeafFields, ConstantFacts DEF IsLeaf, Blank, TxIds
    <2>3. QED
      BY <1>1, <2>2, MetaFacts DEF IsFile
  <1>7. StateInv'
    BY <1>1, <1>3, <1>6, NoUpdateTxIsMeta DEF IInv, StateInv
  <1>8. /\ update_tx.txid = meta.txid + 1 /\ meta.page_count <= update_tx.page_count
        /\ IsWork(WorkRoots, work, update_tx, page, free_map, pending_map)
    BY <1>1, WorkFacts
  <1>9. PagerInv'
    <2>1. /\ free_map \subseteq 0 .. (meta.page_count - 1)
          /\ alloc_records \subseteq 0 .. (meta.page_count - 1)
          /\ pending_map \in [TxIds -> SUBSET PageIds]
          /\ \A t \in TxIds : \A p \in pending_map[t] :
                /\ t <= meta.txid => p < meta.page_count
                /\ t > meta.txid => t = update_tx.txid /\ p < update_tx.page_count
                /\ p \notin free_map
                /\ \A s \in TxIds : p \in pending_map[s] => s = t
      BY <1>1 DEF IInv, PagerInv
    <2>2. /\ free_map' \subseteq 0 .. (meta'.page_count - 1)
          /\ alloc_records' \subseteq 0 .. (meta'.page_count - 1)
      <3>1. 0 .. (meta.page_count - 1) \subseteq 0 .. (update_tx.page_count - 1)
        BY <1>8, MetaFacts
      <3>2. QED
        BY <1>1, <2>1, <3>1
    <2>3. ASSUME NEW t \in TxIds, NEW p \in pending_map[t]
          PROVE  p < update_tx.page_count /\ t <= update_tx.txid
      <3>1. p \in Nat /\ t \in Nat
        BY <2>1, RootBounds, ConstantFacts DEF TxIds
      <3>2. QED
        BY <1>8, <2>1, <3>1, MetaFacts
    <2>4. ASSUME NEW t \in TxIds PROVE ~(t > update_tx.txid /\ t <= update_tx.txid)
      BY MetaFacts, ConstantFacts DEF TxIds
    <2>5. QED
      BY <1>1, <1>3, <2>1, <2>2, <2>3, <2>4 DEF PagerInv
  <1>10. ASSUME NEW v \in TxIds, NEW p \in PageIds
         PROVE  StillKept(p, v)
    <2>1. SUFFICES ASSUME IsKept(p, v, meta, page, free_map, pending_map)
                   PROVE  page'[p] = page[p] /\ IsKept(p, v, meta', page', free_map', pending_map')
      BY DEF StillKept
    <2>2. p # q
      BY <1>2, <2>1
    <2>3. page'[p] = page[p] /\ p \in Nat /\ page[p].last_modified_txid \in Nat
      BY <1>1, <2>2, RootBounds, MetaFacts, ConstantFacts DEF IsFile, IsLeaf, TxIds
    <2>4. p < update_tx.page_count /\ page[p].last_modified_txid <= update_tx.txid
      BY <1>8, <2>1, <2>3, MetaFacts DEF IsKept
    <2>5. QED
      BY <1>1, <2>1, <2>3, <2>4 DEF IsKept
  <1>11. ASSUME NEW r \in OpenViews'
         PROVE  IsVersion(views'[r].txid, views'[r].user_root, views'[r].seen,
                          meta', page', free_map', pending_map')
    <2>1. r \in OpenViews /\ views'[r] = views[r]
      BY <1>1 DEF OpenViews
    <2>2. meta.txid <= meta'.txid /\ meta'.txid \in Nat
      BY <1>1, <1>8, MetaFacts
    <2>3. QED
      BY <1>10, <2>1, <2>2, ViewKept
  <1>12. /\ IsVersion(update_tx.txid, update_tx.user_root, work,
                      update_tx, page, free_map, pending_map)
         /\ Distinct(RootsOf(page, update_tx.user_root))
    <2>1. IsWork(RootsOf(page, update_tx.user_root), work, update_tx, page, free_map, pending_map)
      BY <1>1, <1>8, StoredRoots
    <2>2. ASSUME NEW p \in PageIds, Has(RootsOf(page, update_tx.user_root), p)
          PROVE  IsKept(p, update_tx.txid, update_tx, page, free_map, pending_map)
      <3>1. IsInWork(p, update_tx, page, free_map, pending_map)
        BY <2>1, <2>2 DEF IsWork
      <3>2. QED
        BY <3>1 DEF IsInWork, IsKept
    <2>3. update_tx.txid \in TxIds /\ update_tx.txid <= update_tx.txid /\ update_tx.user_root \in Root
      BY MetaFacts
    <2>4. QED
      BY <2>1, <2>2, <2>3 DEF IsWork, IsVersion
  <1>13. /\ IsVersion(meta'.txid, meta'.user_root, committed', meta', page', free_map', pending_map')
         /\ Distinct(RootsOf(page', meta'.user_root))
    <2>1. ASSUME NEW p \in PageIds,
                 IsKept(p, update_tx.txid, update_tx, page, free_map, pending_map)
          PROVE  page'[p] = page[p]
                 /\ IsKept(p, update_tx.txid, update_tx, page', free_map', pending_map')
      <3>1. p # q
        BY <1>2, <2>1, MetaFacts DEF IsKept
      <3>2. page'[p] = page[p]
        BY <1>1, <3>1
      <3>3. QED
        BY <1>1, <2>1, <3>2 DEF IsKept
    <2>2. update_tx.txid <= update_tx.txid
      BY MetaFacts
    <2>3. /\ IsVersion(update_tx.txid, update_tx.user_root, work,
                       update_tx, page', free_map', pending_map')
          /\ RootsOf(page', update_tx.user_root) = RootsOf(page, update_tx.user_root)
      BY <1>12, <2>1, <2>2, MetaFacts, VersionKept
    <2>4. QED
      BY <1>1, <1>12, <2>3
  <1>14. VersionInv'
    BY <1>11, <1>13 DEF VersionInv
  <1>15. QED
    BY <1>4, <1>5, <1>7, <1>9, <1>14 DEF IInv

-----------------------------------------------------------------------------
(* The invariant holds.                                                     *)

LEMMA BucketsOfRoots ==
    ASSUME NEW pg, NEW root
    PROVE  BucketsAt(pg, root) = Buckets(pg, RootsOf(pg, root))
  BY DEF BucketsAt, Buckets, RootsOf, BucketWith

LEMMA InitialInv ==
    ASSUME MaxDepth = 1, Init
    PROVE  IInv
  <1>1. /\ meta = InitMeta /\ update_tx = NoUpdateTx /\ writer = "idle"
        /\ sub_bucket_map = NoMaps /\ sub_bucket_cache = << >> /\ stored = {}
        /\ views = [r \in Readers |-> NoView]
        /\ free_map = {} /\ pending_map = [t \in TxIds |-> {}] /\ alloc_records = {}
        /\ committed = BucketsAt(page, 2) /\ ops = 0
    BY DEF Init
  <1>2. PICK n \in Names, v \in Values :
           page = [p \in PageIds |->
              CASE p = 2 -> LeafNode(1, [j \in {n} |-> SubRoot(3)])
                [] p = 3 -> LeafNode(1, [k \in Keys |-> Plain(v)])
                [] OTHER -> Blank]
    BY DEF Init
  <1>3. meta.txid = 1 /\ meta.user_root = 2 /\ meta.page_count = 4
    BY <1>1 DEF InitMeta
  <1>4. IsMeta(meta) /\ 2 \in PageIds /\ 3 \in PageIds /\ 2 \in Root /\ 3 \in Root
    BY <1>1, ConstantFacts DEF InitMeta, IsMeta, TxIds, Root, PageIds, kPageInvalidId
  <1>5. /\ page[2] = LeafNode(1, [j \in {n} |-> SubRoot(3)])
        /\ page[3] = LeafNode(1, [k \in Keys |-> Plain(v)])
        /\ \A p \in PageIds : p # 2 /\ p # 3 => page[p] = Blank
    BY <1>2, <1>4
  <1>6. IsFile(page)
    <2>1. DOMAIN << >> = {}
      OBVIOUS
    <2>2. IsLeaf(Blank)
      BY <2>1, LeafFields, ConstantFacts DEF IsLeaf, Blank, TxIds
    <2>3. IsLeaf(page[2])
      <3>1. SubRoot(3).value = 3
        BY DEF SubRoot
      <3>2. 1 \in TxIds
        BY ConstantFacts DEF TxIds
      <3>3. QED
        BY <1>4, <1>5, <3>1, <3>2, LeafFields DEF IsLeaf
    <2>4. IsLeaf(page[3])
      <3>1. 1 \in TxIds /\ Names \cap Keys = {}
        BY ConstantFacts DEF TxIds
      <3>2. QED
        BY <1>5, <3>1, LeafFields DEF IsLeaf
    <2>5. \A p \in PageIds : IsLeaf(page[p])
      BY <1>5, <2>2, <2>3, <2>4
    <2>6. page = [p \in PageIds |-> page[p]]
      BY <1>2
    <2>7. QED
      BY <2>5, <2>6 DEF IsFile
  <1>7. StateInv
    <2>1. NoView.txid \in TxIds /\ NoView.user_root \in Root
      BY ConstantFacts, RootBounds DEF NoView, TxIds
    <2>2. QED
      BY <1>1, <1>4, <1>6, <2>1, NoUpdateTxIsMeta DEF StateInv
  <1>8. PagerInv
    BY <1>1 DEF PagerInv
  <1>9. HandleInv
    <2>1. UserMap = << >>
      BY <1>1, ConstantFacts DEF UserMap, NoMaps, BucketIds, kUserRootBucketId
    <2>2. sub_bucket_map = [o \in BucketIds |-> IF o = kUserRootBucketId THEN UserMap ELSE << >>]
      BY <1>1, <2>1 DEF NoMaps
    <2>3. IsMap(<< >>, << >>)
      BY DEF IsMap
    <2>4. << >> \in Seq({Handle(j) : j \in Names}) /\ Len(<< >>) = 0
      OBVIOUS
    <2>5. QED
      BY <1>1, <2>1, <2>2, <2>3, <2>4, ConstantFacts DEF HandleInv
  <1>10. WorkInv
    BY <1>1 DEF WorkInv
  <1>11. VersionInv
    <2>1. RootsOf(page, 2)[<< >>] = 2 /\ RootsOf(page, 2)[<<n>>] = 3
          /\ \A j \in Names : j # n => RootsOf(page, 2)[<<j>>] = NoBucket
      <3>1. Entries(page, 2) = [j \in {n} |-> SubRoot(3)]
        <4>1. Entries(page, 2) = page[2].entries
          BY <1>4, BucketAfter
        <4>2. \A e : LeafNode(1, e).entries = e
          BY LeafFields
        <4>3. QED
          BY <1>5, <4>1, <4>2
      <3>2. SubRoot(3).value = 3 /\ 2 # NoBucket
        BY <1>4, RootBounds DEF SubRoot
      <3>3. SubRootAt(page, 2, n) = 3 /\ \A j \in Names : j # n => SubRootAt(page, 2, j) = NoBucket
        BY <3>1, <3>2 DEF SubRootAt
      <3>4. QED
        BY <3>3, RootsOfFacts
    <2>2. \A path \in Paths : \/ path = << >> /\ RootsOf(page, 2)[path] = 2
                              \/ path = <<n>> /\ RootsOf(page, 2)[path] = 3
                              \/ RootsOf(page, 2)[path] = NoBucket
      BY <2>1, PathCases
    <2>3. Distinct(RootsOf(page, 2))
      BY <2>2, RootBounds DEF Distinct
    <2>4. ASSUME NEW p \in PageIds, Has(RootsOf(page, 2), p)
          PROVE  IsKept(p, 1, meta, page, free_map, pending_map)
      <3>1. p = 2 \/ p = 3
        BY <2>2, <2>4, RootBounds DEF Has
      <3>2. page[p].last_modified_txid = 1
        BY <1>5, <3>1, LeafFields
      <3>3. QED
        BY <1>1, <1>3, <3>1, <3>2 DEF IsKept
    <2>5. IsVersion(meta.txid, meta.user_root, committed, meta, page, free_map, pending_map)
      <3>1. 1 \in TxIds /\ meta.txid <= meta.txid
        BY <1>3, ConstantFacts DEF TxIds
      <3>2. committed = Buckets(page, RootsOf(page, 2))
        BY <1>1, BucketsOfRoots
      <3>3. QED
        BY <1>3, <1>4, <2>4, <3>1, <3>2 DEF IsVersion
    <2>6. OpenViews = {}
      BY <1>1 DEF OpenViews
    <2>7. QED
      BY <1>3, <2>3, <2>5, <2>6 DEF VersionInv
  <1>12. QED
    BY <1>7, <1>8, <1>9, <1>10, <1>11 DEF IInv

LEMMA NextInv ==
    ASSUME MaxDepth = 1, IInv, [Next]_vars
    PROVE  IInv'
  <1>1. CASE Update
    BY <1>1, UpdateStep
  <1>2. CASE RollBack
    BY <1>2, RollBackStep
  <1>3. ASSUME NEW r \in Readers, View(r) \/ RollBackView(r) PROVE IInv'
    BY <1>3, ViewStep
  <1>4. ASSUME NEW o \in Objects, NEW k \in Keys, NEW v \in Values, Put(o, k, v) PROVE IInv'
    BY <1>4, PutStep
  <1>5. ASSUME NEW o \in Objects, NEW k \in Keys, Delete(o, k) PROVE IInv'
    BY <1>5, DeleteStep
  <1>6. ASSUME NEW o \in Objects, NEW n \in Names, SubBucket(o, n) PROVE IInv'
    BY <1>6, SubBucketStep
  <1>7. CASE BeginCommit
    BY <1>7, BeginCommitStep
  <1>8. CASE StoreNext
    BY <1>8, StoreNextStep
  <1>9. CASE Commit
    BY <1>9, CommitStep
  <1>10. CASE UNCHANGED vars
    <2>1. UNCHANGED <<meta, update_tx, writer, sub_bucket_map, sub_bucket_cache, stored, views,
                      free_map, pending_map, alloc_records, page, work, committed, ops>>
      BY <1>10 DEF vars, txVars, pagerVars
    <2>2. UserMap' = UserMap /\ WorkRoots' = WorkRoots
      BY <2>1 DEF UserMap, WorkRoots
    <2>3. VersionInv'
      BY <2>1, ViewsUnchanged
    <2>4. StateInv'
      BY <2>1 DEF IInv, StateInv
    <2>5. PagerInv' /\ HandleInv' /\ WorkInv'
      BY <2>1, <2>2 DEF IInv, PagerInv, HandleInv, WorkInv
    <2>6. QED
      BY <2>3, <2>4, <2>5 DEF IInv
  <1>11. QED
    BY <1>1, <1>2, <1>3, <1>4, <1>5, <1>6, <1>7, <1>8, <1>9, <1>10 DEF Next

-----------------------------------------------------------------------------
(* Theorems.                                                                *)

\* With buckets in the user bucket only, Update, SubBucket, Put, Delete, the
\* loop of TxImpl::Commit, RollBack and the views keep the invariant: the
\* roots in sub_bucket_map and in the user bucket's tree together lead to what
\* the writer put, through pages that no version reads.
THEOREM BucketInvariance ==
    ASSUME MaxDepth = 1
    PROVE  Spec => []IInv
  <1>1. Init => IInv
    BY InitialInv
  <1>2. IInv /\ [Next]_vars => IInv'
    BY NextInv
  <1>3. QED
    BY <1>1, <1>2, PTL DEF Spec

\* The ids, page ids and sets that BucketImpl, TxImpl and the pager keep have
\* their types.
THEOREM TypeOKHolds ==
    ASSUME MaxDepth = 1
    PROVE  Spec => []TypeOK
  <1>1. IInv => TypeOK
    <2> SUFFICES ASSUME IInv PROVE TypeOK
      OBVIOUS
    <2>1. IsMeta(meta) /\ IsMeta(update_tx) /\ writer \in {"idle", "open", "storing"}
          /\ \A r \in Readers : views[r].txid \in TxIds /\ views[r].user_root \in Root
      BY DEF IInv, StateInv
    <2>2. ASSUME NEW o \in BucketIds, NEW n \in DOMAIN sub_bucket_map[o]
          PROVE  sub_bucket_map[o][n] \in [id : 1 .. Len(sub_bucket_cache), pgid : Root]
      <3>1. CASE o = kUserRootBucketId
        <4>1. sub_bucket_map[o] = UserMap
          BY <3>1 DEF UserMap
        <4>2. QED
          BY <2>2, <4>1, MapFacts DEF IsMap
      <3>2. CASE o # kUserRootBucketId
        <4>1. sub_bucket_map[o] = << >>
          BY <3>2, MapFacts DEF IsUserMapOnly
        <4>2. DOMAIN << >> = {}
          OBVIOUS
        <4>3. QED
          BY <2>2, <4>1, <4>2
      <3>3. QED
        BY <3>1, <3>2
    <2>3. stored \subseteq Objects \X Names
      <3>1. stored \subseteq {<<kUserRootBucketId, n>> : n \in DOMAIN UserMap}
            /\ DOMAIN UserMap \subseteq Names
            /\ sub_bucket_cache \in Seq({Handle(j) : j \in Names})
        BY MapFacts DEF IInv, HandleInv, IsMap
      <3>2. kUserRootBucketId \in Objects
        BY <3>1 DEF Objects, kUserRootBucketId
      <3>3. QED
        BY <3>1, <3>2
    <2>4. free_map \subseteq PageIds /\ alloc_records \subseteq PageIds
          /\ pending_map \in [TxIds -> SUBSET PageIds]
      BY MetaFacts, ConstantFacts DEF IInv, PagerInv, PageIds
    <2>5. \A p \in PageIds : DOMAIN page[p].entries \subseteq Keys \cup Names
      BY MetaFacts DEF IsFile, IsLeaf
    <2>6. QED
      BY <2>1, <2>2, <2>3, <2>4, <2>5 DEF TypeOK, IsMeta, Root
  <1>2. QED
    BY <1>1, BucketInvariance, PTL

\* Whatever the writer has copied, stored or given up, the committed user root
\* leads to what the last TxImpl::Commit was to store, in every bucket.
THEOREM CommittedBucketsReadableHolds ==
    ASSUME MaxDepth = 1
    PROVE  Spec => []CommittedBucketsReadable
  <1>1. IInv => CommittedBucketsReadable
    BY BucketsOfRoots DEF IInv, VersionInv, IsVersion, CommittedBucketsReadable
  <1>2. QED
    BY <1>1, BucketInvariance, PTL

\* A view transaction reads in every bucket what was committed when it began:
\* Pager::Release and Alloc give away none of its pages.
THEOREM ViewsSeeTheirBucketsHolds ==
    ASSUME MaxDepth = 1
    PROVE  Spec => []ViewsSeeTheirBuckets
  <1>1. IInv => ViewsSeeTheirBuckets
    BY BucketsOfRoots DEF IInv, VersionInv, IsVersion, ViewsSeeTheirBuckets
  <1>2. QED
    BY <1>1, BucketInvariance, PTL

\* Each object in sub_bucket_cache shows the writer's own puts and deletes, and
\* the id in sub_bucket_map is that of the object NewSubBucket made for it.
THEOREM HandlesReadOwnWritesHolds ==
    ASSUME MaxDepth = 1
    PROVE  Spec => []HandlesReadOwnWrites
  <1>1. IInv => HandlesReadOwnWrites
    <2> SUFFICES ASSUME IInv, writer # "idle", NEW o \in Objects
                 PROVE  /\ Content(page, RootOf(o)) = work[PathOf(o)].content
                        /\ \A n \in DOMAIN sub_bucket_map[o] :
                              sub_bucket_cache[sub_bucket_map[o][n].id].path = Append(PathOf(o), n)
      BY DEF HandlesReadOwnWrites
    <2>1. Content(page, RootOf(o)) = work[PathOf(o)].content
      <3>1. PathOf(o) \in Paths /\ WorkRoots[PathOf(o)] = RootOf(o) /\ RootOf(o) # NoBucket
        BY ObjectFacts, RootBounds
      <3>2. work = Buckets(page, WorkRoots)
        BY WorkFacts DEF IsWork
      <3>3. work[PathOf(o)] = BucketWith(page, RootOf(o))
        BY <3>1, <3>2 DEF Buckets
      <3>4. QED
        BY <3>3 DEF BucketWith
    <2>2. ASSUME NEW n \in DOMAIN sub_bucket_map[o]
          PROVE  sub_bucket_cache[sub_bucket_map[o][n].id].path = Append(PathOf(o), n)
      <3>1. CASE o = kUserRootBucketId
        <4>1. sub_bucket_map[o] = UserMap /\ PathOf(o) = << >>
          BY <3>1 DEF UserMap, PathOf
        <4>2. sub_bucket_cache[UserMap[n].id] = Handle(n)
          BY <2>2, <4>1, MapFacts DEF IsMap
        <4>3. Append(<< >>, n) = <<n>>
          OBVIOUS
        <4>4. QED
          BY <4>1, <4>2, <4>3 DEF Handle
      <3>2. CASE o # kUserRootBucketId
        <4>1. o \in BucketIds
          BY <3>2, ObjectInMaps
        <4>2. sub_bucket_map[o] = << >>
          BY <3>2, <4>1, MapFacts DEF IsUserMapOnly
        <4>3. DOMAIN << >> = {}
          OBVIOUS
        <4>4. QED
          BY <2>2, <4>2, <4>3
      <3>3. QED
        BY <3>1, <3>2
    <2>3. QED
      BY <2>1, <2>2
  <1>2. QED
    BY <1>1, BucketInvariance, PTL

\* Between transactions free_map and pending_map hold no page of a committed
\* bucket, and no page belongs to two buckets.
THEOREM BucketPagesNotFreeHolds ==
    ASSUME MaxDepth = 1
    PROVE  Spec => []BucketPagesNotFree
  <1>1. IInv => BucketPagesNotFree
    <2> SUFFICES ASSUME IInv, writer = "idle"
                 PROVE  /\ ReachedFrom(meta.user_root) \cap (free_map \cup Pending) = {}
                        /\ \A s, t \in Paths :
                              /\ RootAt(page, meta.user_root, s) = RootAt(page, meta.user_root, t)
                              /\ RootAt(page, meta.user_root, s) \in PageIds
                              => s = t
      BY DEF BucketPagesNotFree
    <2>1. /\ IsVersion(meta.txid, meta.user_root, committed, meta, page, free_map, pending_map)
          /\ Distinct(RootsOf(page, meta.user_root))
      BY DEF IInv, VersionInv
    <2>2. ASSUME NEW p \in ReachedFrom(meta.user_root)
          PROVE  p \notin free_map /\ p \notin Pending
      <3>1. PICK path \in Paths : p = RootAt(page, meta.user_root, path)
        BY <2>2 DEF ReachedFrom
      <3>2. p # kPageInvalidId /\ p # NoBucket
        BY <2>2 DEF ReachedFrom
      <3>3. RootsOf(page, meta.user_root)[path] = p
        BY <3>1 DEF RootsOf
      <3>4. p \in PageIds
        <4>1. p \in 0 .. NoBucket
          BY <3>3, MetaFacts, RootsType
        <4>2. QED
          BY <3>2, <4>1, RootBounds
      <3>5. Has(RootsOf(page, meta.user_root), p)
        BY <3>3, <3>4 DEF Has
      <3>6. IsKept(p, meta.txid, meta, page, free_map, pending_map)
        BY <2>1, <3>4, <3>5 DEF IsVersion
      <3>7. \A t \in TxIds : p \notin pending_map[t]
        <4>1. \A t \in TxIds : p \in pending_map[t] => ~(t > meta.txid)
          BY DEF IInv, PagerInv
        <4>2. QED
          BY <3>6, <4>1 DEF IsKept
      <3>8. QED
        BY <3>6, <3>7 DEF IsKept, Pending
    <2>3. QED
      BY <2>1, <2>2 DEF Distinct, RootsOf
  <1>2. QED
    BY <1>1, BucketInvariance, PTL
=============================================================================
