------------------------- MODULE StoreBufferProofs -------------------------
(***************************************************************************)
(* For every memory, every size of buffer and ROB and every commit width:  *)
(* no retired store is lost and no other one reaches memory, the buffer is *)
(* in program order and matches the ROB, and a load returns what program   *)
(* order defines.                                                          *)
(***************************************************************************)
EXTENDS StoreBuffer, Induction, SequenceTheorems, TLAPS

RobEntry == [id : RobId, store : Store \cup {NoStore},
             status : {"waiting", "executed", "finished"}]
BufferItem == [rob_id : RobId, store : Store, committed : BOOLEAN]
Types == /\ stage \in {"commit", "lsu", "rename", "store"}
         /\ rob \in Seq(RobEntry) /\ Len(rob) <= RobSize /\ new_id \in RobId
         /\ trap \in BOOLEAN
         /\ feedback \in [flush : BOOLEAN, committed : SUBSET RobId]
         /\ buffer \in Seq(BufferItem) /\ push_q \in Seq(BufferItem)
         /\ Len(buffer) + Len(push_q) <= BufferSize
         /\ memory \in [Addr -> Byte] /\ retired \in [Addr -> Byte]

(* What a pass has done so far.                                             *)
PassInv == /\ stage = "commit" => feedback = NoFeedback
           /\ stage \in {"commit", "lsu"} \/ feedback.flush => push_q = << >>
           /\ feedback.flush \/ trap => rob = << >>
           /\ trap /\ stage # "commit" => feedback.flush

(* The ids of the entries are the ones before new_id, in order.             *)
Before(id, d) == IF d <= id THEN id - d ELSE id + RobSize - d
Consecutive(r, next) == \A k \in 1 .. Len(r) : r[k].id = Before(next, Len(r) + 1 - k)

(* Ids announced in this pass belong to entries that have left the ROB: an  *)
(* id may be handed out again in the same pass, to an instruction that has  *)
(* not been executed.                                                       *)
IdsLeft == \A k \in 1 .. Len(rob) :
              stage = "lsu" \/ rob[k].status # "waiting" => rob[k].id \notin feedback.committed

(* Stores are executed in program order.                                    *)
StoresInOrder(r) == \A j, k \in 1 .. Len(r) :
                       j < k /\ IsStore(r[j]) /\ Executed(r[k]) => Executed(r[j])

(* An item is fixed when its store has retired, which the buffer may not    *)
(* have marked yet.                                                         *)
Fixed(i, c) == i.committed \/ i.rob_id \in c
FixedFirst(q, c) == \A j, k \in 1 .. Len(q) : j < k /\ Fixed(q[k], c) => Fixed(q[j], c)
FixedStores(q, c) == [k \in 1 .. Len(q) |-> IF Fixed(q[k], c) THEN q[k].store ELSE NoStore]

(* Memory and the fixed items make up the retired state.                    *)
Content(m, q, c, ret) == \A a \in Addr : ret[a] = ByteOf(m, FixedStores(q, c), a)

(* The other items are the executed stores of the ROB, in order.            *)
Matches(q, c, r) ==
    /\ \A k \in 1 .. Len(q) : ~ Fixed(q[k], c) =>
          \E j \in 1 .. Len(r) : Executed(r[j]) /\ Same(q[k], r[j])
    /\ \A j \in 1 .. Len(r) : Executed(r[j]) =>
          \E k \in 1 .. Len(q) : ~ Fixed(q[k], c) /\ Same(q[k], r[j])
    /\ \A k1, k2 \in 1 .. Len(q), j1, j2 \in 1 .. Len(r) :
          /\ ~ Fixed(q[k1], c) /\ ~ Fixed(q[k2], c) /\ Executed(r[j1]) /\ Executed(r[j2])
          /\ Same(q[k1], r[j1]) /\ Same(q[k2], r[j2])
          => (k1 < k2 <=> j1 < j2)

(* The buffer with the push that is under way.                              *)
Row == buffer \o push_q
PushOpen == \A k \in 1 .. Len(push_q) : ~ Fixed(push_q[k], feedback.committed)

BufferInv == /\ Types /\ PassInv
             /\ Consecutive(rob, new_id) /\ IdsLeft /\ StoresInOrder(rob)
             /\ PushOpen
             /\ FixedFirst(Row, feedback.committed)
             /\ Content(memory, Row, feedback.committed, retired)
             /\ ~ feedback.flush => Matches(Row, feedback.committed, rob)

-----------------------------------------------------------------------------
(* Stores and the bytes they determine.                                     *)
LEMMA AddrTyped == Addr \subseteq Nat /\ \A a, b \in Addr : \A c \in Nat : a <= c /\ c <= b => c \in Addr
  BY AddrAssumption

LEMMA StoreTyped ==
    ASSUME NEW s \in Store
    PROVE  /\ s.addr \in Addr /\ s.addr \in Nat /\ s.size \in {1, 2, 4}
           /\ s.data \in [0 .. s.size - 1 -> Byte]
  <1>1. PICK x \in Access : s \in [addr : {x.addr}, size : {x.size}, data : [0 .. x.size - 1 -> Byte]]
    BY DEF Store
  <1>2. x.addr \in Addr /\ x.size \in Sizes
    BY DEF Access
  <1>3. s.addr = x.addr /\ s.size = x.size /\ s.data \in [0 .. x.size - 1 -> Byte]
    BY <1>1
  <1>4. QED
    BY <1>2, <1>3, AddrAssumption

LEMMA NoStoreCovers == \A a \in Addr : ~ Covers(NoStore, a)
  <1>1. NoStore.addr = 0 /\ NoStore.size = 0
    BY DEF NoStore
  <1> HIDE DEF NoStore
  <1>2. ASSUME NEW a \in Addr PROVE ~ Covers(NoStore, a)
    <2>1. a \in Nat
      BY AddrTyped
    <2>2. QED
      BY <1>1, <2>1 DEF Covers
  <1>3. QED
    BY <1>2

LEMMA NewestIs ==
    ASSUME NEW n \in Nat, NEW ks, ks \subseteq 0 .. n, ks # {}
    PROVE  Newest(ks) \in ks /\ \A j \in ks : j <= Newest(ks)
  <1>1. \E k \in ks : \A j \in ks : j <= k
    BY Greatest
  <1>2. QED
    BY <1>1 DEF Newest

LEMMA NewestUnique ==
    ASSUME NEW ks, ks \subseteq Int, NEW k \in ks, \A j \in ks : j <= k
    PROVE  Newest(ks) = k
  <1> DEFINE x == Newest(ks)
  <1>1. x \in ks /\ \A j \in ks : j <= x
    BY DEF Newest
  <1> HIDE DEF x
  <1>2. x <= k /\ k <= x /\ x \in Int /\ k \in Int
    BY <1>1
  <1>3. x = k
    BY <1>2
  <1>4. QED
    BY <1>3 DEF x

(* The two cases of ByteOf.                                                 *)
IsLast(q, a, k) == /\ k \in 1 .. Len(q) /\ Covers(q[k], a)
                   /\ \A j \in 1 .. Len(q) : Covers(q[j], a) => j <= k
LEMMA ByteNone ==
    ASSUME NEW m, NEW q, NEW a, \A k \in 1 .. Len(q) : ~ Covers(q[k], a)
    PROVE  ByteOf(m, q, a) = m[a]
  BY DEF ByteOf, Covering

LEMMA ByteLast ==
    ASSUME NEW m, NEW q, Len(q) \in Nat, NEW a, NEW k, IsLast(q, a, k)
    PROVE  ByteOf(m, q, a) = q[k].data[a - q[k].addr]
  <1>1. k \in Covering(q, a) /\ Covering(q, a) \subseteq Int
    BY DEF Covering, IsLast
  <1>2. \A j \in Covering(q, a) : j <= k
    BY DEF Covering, IsLast
  <1>3. Newest(Covering(q, a)) = k
    BY <1>1, <1>2, NewestUnique
  <1>4. QED
    BY <1>1, <1>3 DEF ByteOf

LEMMA ByteCases ==
    ASSUME NEW q, Len(q) \in Nat, NEW a
    PROVE  (\A k \in 1 .. Len(q) : ~ Covers(q[k], a)) \/ \E k \in 1 .. Len(q) : IsLast(q, a, k)
  <1> SUFFICES ASSUME NEW k \in 1 .. Len(q), Covers(q[k], a)
               PROVE  \E j \in 1 .. Len(q) : IsLast(q, a, j)
    OBVIOUS
  <1>1. Covering(q, a) # {} /\ Covering(q, a) \subseteq 0 .. Len(q)
    BY DEF Covering
  <1> DEFINE x == Newest(Covering(q, a))
  <1>2. x \in Covering(q, a) /\ \A j \in Covering(q, a) : j <= x
    BY <1>1, NewestIs
  <1> HIDE DEF x
  <1>3. IsLast(q, a, x) /\ x \in 1 .. Len(q)
    BY <1>2 DEF IsLast, Covering
  <1>4. QED
    BY <1>3

(* Two sequences agree on a byte when the stores that cover it are the same *)
(* as far as the last one is concerned.                                     *)
LEMMA ByteSame ==
    ASSUME NEW m, NEW q, NEW r, Len(q) \in Nat, Len(r) \in Nat, NEW a,
           (\A k \in 1 .. Len(q) : ~ Covers(q[k], a)) => \A k \in 1 .. Len(r) : ~ Covers(r[k], a),
           \A k \in 1 .. Len(q) : IsLast(q, a, k) => \E j \in 1 .. Len(r) : IsLast(r, a, j) /\ r[j] = q[k]
    PROVE  ByteOf(m, q, a) = ByteOf(m, r, a)
  <1>1. CASE \A k \in 1 .. Len(q) : ~ Covers(q[k], a)
    BY <1>1, ByteNone
  <1>2. CASE \E k \in 1 .. Len(q) : IsLast(q, a, k)
    <2>1. PICK k \in 1 .. Len(q) : IsLast(q, a, k)
      BY <1>2
    <2>2. PICK j \in 1 .. Len(r) : IsLast(r, a, j) /\ r[j] = q[k]
      BY <2>1
    <2>3. ByteOf(m, q, a) = q[k].data[a - q[k].addr] /\ ByteOf(m, r, a) = r[j].data[a - r[j].addr]
      BY <2>1, <2>2, ByteLast
    <2>4. QED
      BY <2>2, <2>3
  <1>3. QED
    BY <1>1, <1>2, ByteCases

LEMMA FixedStoresIs ==
    ASSUME NEW q, Len(q) \in Nat, NEW c
    PROVE  /\ Len(FixedStores(q, c)) = Len(q)
           /\ \A k \in 1 .. Len(q) : FixedStores(q, c)[k] = IF Fixed(q[k], c) THEN q[k].store ELSE NoStore
  BY DEF FixedStores

(* ByteOf for the fixed items of a queue.                                   *)
CoversIn(q, c, a, k) == Fixed(q[k], c) /\ Covers(q[k].store, a)
LastIn(q, c, a, k) == /\ k \in 1 .. Len(q) /\ CoversIn(q, c, a, k)
                      /\ \A j \in 1 .. Len(q) : CoversIn(q, c, a, j) => j <= k
NoneIn(q, c, a) == \A k \in 1 .. Len(q) : ~ CoversIn(q, c, a, k)
LEMMA FixedIsLast ==
    ASSUME NEW q, Len(q) \in Nat, NEW c, NEW a \in Addr
    PROVE  /\ \A k \in 1 .. Len(q) : Covers(FixedStores(q, c)[k], a) <=> CoversIn(q, c, a, k)
           /\ \A k \in 1 .. Len(q) : IsLast(FixedStores(q, c), a, k) <=> LastIn(q, c, a, k)
  <1> DEFINE f == FixedStores(q, c)
  <1>1. /\ Len(f) = Len(q)
        /\ \A k \in 1 .. Len(q) : f[k] = IF Fixed(q[k], c) THEN q[k].store ELSE NoStore
    BY FixedStoresIs
  <1> HIDE DEF f
  <1>2. \A k \in 1 .. Len(q) : Covers(f[k], a) <=> CoversIn(q, c, a, k)
    BY <1>1, NoStoreCovers DEF CoversIn
  <1>3. \A k \in 1 .. Len(q) : IsLast(f, a, k) <=> LastIn(q, c, a, k)
    BY <1>1, <1>2 DEF IsLast, LastIn
  <1>4. QED
    BY <1>2, <1>3 DEF f

LEMMA FixedNone ==
    ASSUME NEW m, NEW q, Len(q) \in Nat, NEW c, NEW a \in Addr, NoneIn(q, c, a)
    PROVE  ByteOf(m, FixedStores(q, c), a) = m[a]
  <1>1. Len(FixedStores(q, c)) = Len(q)
    BY FixedStoresIs
  <1>2. \A k \in 1 .. Len(q) : ~ Covers(FixedStores(q, c)[k], a)
    BY FixedIsLast DEF NoneIn
  <1>3. QED
    BY <1>1, <1>2, ByteNone

LEMMA FixedLast ==
    ASSUME NEW m, NEW q, Len(q) \in Nat, NEW c, NEW a \in Addr, NEW k \in 1 .. Len(q), LastIn(q, c, a, k)
    PROVE  ByteOf(m, FixedStores(q, c), a) = q[k].store.data[a - q[k].store.addr]
  <1>1. Len(FixedStores(q, c)) = Len(q)
    BY FixedStoresIs
  <1>2. IsLast(FixedStores(q, c), a, k)
    BY FixedIsLast
  <1>3. FixedStores(q, c)[k] = q[k].store
    BY FixedStoresIs DEF LastIn, CoversIn
  <1>4. QED
    BY <1>1, <1>2, <1>3, ByteLast

LEMMA FixedCases ==
    ASSUME NEW q, Len(q) \in Nat, NEW c, NEW a \in Addr
    PROVE  NoneIn(q, c, a) \/ \E k \in 1 .. Len(q) : LastIn(q, c, a, k)
  <1>1. Len(FixedStores(q, c)) = Len(q)
    BY FixedStoresIs
  <1>2. QED
    BY <1>1, FixedIsLast, ByteCases DEF NoneIn

(* Two queues have the same content when the fixed items that cover a byte  *)
(* are the same as far as the last one is concerned.                        *)
LEMMA FixedByteSame ==
    ASSUME NEW m, NEW q, Len(q) \in Nat, NEW c, NEW r, Len(r) \in Nat, NEW d, NEW a \in Addr,
           NoneIn(q, c, a) => NoneIn(r, d, a),
           \A k \in 1 .. Len(q) : LastIn(q, c, a, k) =>
               \E j \in 1 .. Len(r) : LastIn(r, d, a, j) /\ r[j].store = q[k].store
    PROVE  ByteOf(m, FixedStores(q, c), a) = ByteOf(m, FixedStores(r, d), a)
  <1>1. CASE NoneIn(q, c, a)
    BY <1>1, FixedNone
  <1>2. CASE \E k \in 1 .. Len(q) : LastIn(q, c, a, k)
    <2>1. PICK k \in 1 .. Len(q) : LastIn(q, c, a, k)
      BY <1>2
    <2>2. PICK j \in 1 .. Len(r) : LastIn(r, d, a, j) /\ r[j].store = q[k].store
      BY <2>1
    <2>3. ByteOf(m, FixedStores(q, c), a) = q[k].store.data[a - q[k].store.addr]
      BY <2>1, FixedLast
    <2>4. ByteOf(m, FixedStores(r, d), a) = r[j].store.data[a - r[j].store.addr]
      BY <2>2, FixedLast
    <2>5. QED
      BY <2>2, <2>3, <2>4
  <1>3. QED
    BY <1>1, <1>2, FixedCases

(* Marking changes the way an item is known to be fixed, nothing else.      *)
Marked(q, c, r, d) ==
    /\ Len(r) = Len(q)
    /\ \A k \in 1 .. Len(q) : r[k].rob_id = q[k].rob_id /\ r[k].store = q[k].store
    /\ \A k \in 1 .. Len(q) : Fixed(r[k], d) <=> Fixed(q[k], c)
LEMMA MarkedKeeps ==
    ASSUME NEW q, Len(q) \in Nat, NEW c, NEW r, NEW d, Marked(q, c, r, d)
    PROVE  /\ FixedFirst(q, c) => FixedFirst(r, d)
           /\ \A m, ret : Content(m, q, c, ret) => Content(m, r, d, ret)
           /\ \A e : Matches(q, c, e) => Matches(r, d, e)
  <1>1. FixedFirst(q, c) => FixedFirst(r, d)
    BY DEF FixedFirst, Marked
  <1>2. ASSUME NEW m, NEW ret, Content(m, q, c, ret)
        PROVE  Content(m, r, d, ret)
    <2> SUFFICES ASSUME NEW a \in Addr PROVE ret[a] = ByteOf(m, FixedStores(r, d), a)
      BY DEF Content
    <2>1. \A k \in 1 .. Len(q) : CoversIn(r, d, a, k) <=> CoversIn(q, c, a, k)
      BY DEF CoversIn, Marked
    <2>2. NoneIn(q, c, a) => NoneIn(r, d, a)
      BY <2>1 DEF NoneIn, Marked
    <2>3. \A k \in 1 .. Len(q) : LastIn(q, c, a, k) => LastIn(r, d, a, k) /\ r[k].store = q[k].store
      BY <2>1 DEF LastIn, Marked
    <2>4. Len(r) \in Nat /\ Len(r) = Len(q)
      BY DEF Marked
    <2>5. ByteOf(m, FixedStores(q, c), a) = ByteOf(m, FixedStores(r, d), a)
      BY <2>2, <2>3, <2>4, FixedByteSame
    <2>6. QED
      BY <1>2, <2>5 DEF Content
  <1>3. ASSUME NEW e, Matches(q, c, e)
        PROVE  Matches(r, d, e)
    <2>1. \A k \in 1 .. Len(q) : \A x : Same(r[k], x) <=> Same(q[k], x)
      BY DEF Marked, Same
    <2>2. QED
      BY <1>3, <2>1 DEF Marked, Matches
  <1>4. QED
    BY <1>1, <1>2, <1>3

(* The first item, a fixed one, is written to memory.                       *)
LEMMA TailKeeps ==
    ASSUME NEW q, Len(q) \in Nat \ {0}, NEW r, Len(r) = Len(q) - 1,
           \A k \in 1 .. Len(r) : r[k] = q[k + 1],
           NEW c, Fixed(q[1], c), FixedFirst(q, c)
    PROVE  /\ FixedFirst(r, c)
           /\ \A m, ret : Content(m, q, c, ret) => Content(Write(m, q[1].store), r, c, ret)
           /\ \A e : Matches(q, c, e) => Matches(r, c, e)
  <1>1. FixedFirst(r, c)
    <2> SUFFICES ASSUME NEW j \in 1 .. Len(r), NEW k \in 1 .. Len(r), j < k, Fixed(r[k], c)
                 PROVE  Fixed(r[j], c)
      BY DEF FixedFirst
    <2>1. j + 1 \in 1 .. Len(q) /\ k + 1 \in 1 .. Len(q) /\ j + 1 < k + 1
      OBVIOUS
    <2>2. Fixed(q[k + 1], c)
      OBVIOUS
    <2>3. QED
      BY <2>1, <2>2 DEF FixedFirst
  <1>2. ASSUME NEW m, NEW ret, Content(m, q, c, ret)
        PROVE  Content(Write(m, q[1].store), r, c, ret)
    <2> SUFFICES ASSUME NEW a \in Addr
                 PROVE  ret[a] = ByteOf(Write(m, q[1].store), FixedStores(r, c), a)
      BY DEF Content
    <2>1. \A k \in 1 .. Len(r) : CoversIn(r, c, a, k) <=> CoversIn(q, c, a, k + 1)
      BY DEF CoversIn
    <2>2. ret[a] = ByteOf(m, FixedStores(q, c), a)
      BY <1>2 DEF Content
    <2>3. CASE NoneIn(r, c, a)
      <3>1. ByteOf(Write(m, q[1].store), FixedStores(r, c), a) = Write(m, q[1].store)[a]
        BY <2>3, FixedNone
      <3>2. \A k \in 1 .. Len(q) : k # 1 => ~ CoversIn(q, c, a, k)
        <4> SUFFICES ASSUME NEW k \in 1 .. Len(q), k # 1 PROVE ~ CoversIn(q, c, a, k)
          OBVIOUS
        <4>1. k - 1 \in 1 .. Len(r) /\ (k - 1) + 1 = k
          OBVIOUS
        <4>2. QED
          BY <4>1, <2>1, <2>3 DEF NoneIn
      <3>3. CASE Covers(q[1].store, a)
        <4>1. LastIn(q, c, a, 1)
          BY <3>2, <3>3 DEF LastIn, CoversIn
        <4>2. ret[a] = q[1].store.data[a - q[1].store.addr]
          BY <4>1, <2>2, FixedLast
        <4>3. QED
          BY <4>2, <3>1, <3>3 DEF Write
      <3>4. CASE ~ Covers(q[1].store, a)
        <4>1. NoneIn(q, c, a)
          BY <3>2, <3>4 DEF NoneIn, CoversIn
        <4>2. ret[a] = m[a]
          BY <4>1, <2>2, FixedNone
        <4>3. QED
          BY <4>2, <3>1, <3>4 DEF Write
      <3>5. QED
        BY <3>3, <3>4
    <2>4. ASSUME NEW k \in 1 .. Len(r), LastIn(r, c, a, k)
          PROVE  ret[a] = ByteOf(Write(m, q[1].store), FixedStores(r, c), a)
      <3>1. LastIn(q, c, a, k + 1)
        <4>1. k + 1 \in 1 .. Len(q) /\ CoversIn(q, c, a, k + 1)
          BY <2>1, <2>4 DEF LastIn
        <4>2. ASSUME NEW j \in 1 .. Len(q), CoversIn(q, c, a, j) PROVE j <= k + 1
          <5>1. CASE j = 1
            BY <5>1
          <5>2. CASE j # 1
            <6>1. j - 1 \in 1 .. Len(r) /\ (j - 1) + 1 = j
              BY <5>2
            <6>2. j - 1 <= k
              BY <6>1, <2>1, <2>4, <4>2 DEF LastIn
            <6>3. QED
              BY <6>2
          <5>3. QED
            BY <5>1, <5>2
        <4>3. QED
          BY <4>1, <4>2 DEF LastIn
      <3>2. ret[a] = q[k + 1].store.data[a - q[k + 1].store.addr]
        BY <3>1, <2>2, FixedLast
      <3>3. ByteOf(Write(m, q[1].store), FixedStores(r, c), a) = r[k].store.data[a - r[k].store.addr]
        BY <2>4, FixedLast
      <3>4. r[k] = q[k + 1]
        OBVIOUS
      <3>5. QED
        BY <3>2, <3>3, <3>4
    <2>5. NoneIn(r, c, a) \/ \E k \in 1 .. Len(r) : LastIn(r, c, a, k)
      <3>1. Len(r) \in Nat
        OBVIOUS
      <3>2. QED
        BY <3>1, FixedCases
    <2>6. QED
      BY <2>3, <2>4, <2>5
  <1>3. ASSUME NEW e, Matches(q, c, e)
        PROVE  Matches(r, c, e)
    <2>1. ASSUME NEW k \in 1 .. Len(r), ~ Fixed(r[k], c)
          PROVE  \E j \in 1 .. Len(e) : Executed(e[j]) /\ Same(r[k], e[j])
      <3>1. k + 1 \in 1 .. Len(q) /\ r[k] = q[k + 1]
        OBVIOUS
      <3>2. QED
        BY <1>3, <2>1, <3>1 DEF Matches
    <2>2. ASSUME NEW j \in 1 .. Len(e), Executed(e[j])
          PROVE  \E k \in 1 .. Len(r) : ~ Fixed(r[k], c) /\ Same(r[k], e[j])
      <3>1. PICK k \in 1 .. Len(q) : ~ Fixed(q[k], c) /\ Same(q[k], e[j])
        BY <1>3, <2>2 DEF Matches
      <3>2. k - 1 \in 1 .. Len(r) /\ (k - 1) + 1 = k
        BY <3>1
      <3>3. QED
        BY <3>1, <3>2
    <2>3. ASSUME NEW k1 \in 1 .. Len(r), NEW k2 \in 1 .. Len(r),
                 NEW j1 \in 1 .. Len(e), NEW j2 \in 1 .. Len(e),
                 ~ Fixed(r[k1], c), ~ Fixed(r[k2], c), Executed(e[j1]), Executed(e[j2]),
                 Same(r[k1], e[j1]), Same(r[k2], e[j2])
          PROVE  k1 < k2 <=> j1 < j2
      <3>1. k1 + 1 \in 1 .. Len(q) /\ k2 + 1 \in 1 .. Len(q)
        OBVIOUS
      <3>2. k1 + 1 < k2 + 1 <=> j1 < j2
        BY <1>3, <2>3, <3>1 DEF Matches
      <3>3. QED
        BY <3>2
    <2>4. QED
      BY <2>1, <2>2, <2>3 DEF Matches
  <1>4. QED
    BY <1>1, <1>2, <1>3

-----------------------------------------------------------------------------
(* Executed stores that become fixed, or are looked at by a load: w writes  *)
(* the stores of the entries in P over the retired state, and d fixes the   *)
(* items of these entries.                                                  *)
Overwritten(q, c, r, d, P, w, a) ==
    /\ P \subseteq 1 .. Len(r)
    /\ \A k \in 1 .. Len(q) : Fixed(q[k], c) => Fixed(q[k], d)
    /\ \A k \in 1 .. Len(q), j \in 1 .. Len(r) :
          ~ Fixed(q[k], c) /\ Executed(r[j]) /\ Same(q[k], r[j]) => (Fixed(q[k], d) <=> j \in P)
    /\ \A j \in 1 .. Len(w) : Covers(w[j], a) => j \in P /\ Executed(r[j]) /\ w[j] = r[j].store
    /\ \A j \in P : Executed(r[j]) /\ Covers(r[j].store, a) => j \in 1 .. Len(w) /\ w[j] = r[j].store
LEMMA Overwrite ==
    ASSUME NEW m, NEW ret, NEW q, Len(q) \in Nat, NEW r, Len(r) \in Nat, NEW c, NEW d,
           NEW P, NEW w, Len(w) \in Nat, NEW a \in Addr,
           FixedFirst(q, c), Content(m, q, c, ret), Matches(q, c, r),
           Overwritten(q, c, r, d, P, w, a)
    PROVE  ByteOf(ret, w, a) = ByteOf(m, FixedStores(q, d), a)
  <1>0. /\ P \subseteq 1 .. Len(r)
        /\ \A k \in 1 .. Len(q) : Fixed(q[k], c) => Fixed(q[k], d)
        /\ \A k \in 1 .. Len(q), j \in 1 .. Len(r) :
              ~ Fixed(q[k], c) /\ Executed(r[j]) /\ Same(q[k], r[j]) => (Fixed(q[k], d) <=> j \in P)
        /\ \A j \in 1 .. Len(w) : Covers(w[j], a) => j \in P /\ Executed(r[j]) /\ w[j] = r[j].store
        /\ \A j \in P : Executed(r[j]) /\ Covers(r[j].store, a) => j \in 1 .. Len(w) /\ w[j] = r[j].store
    BY DEF Overwritten
  <1>1. ASSUME NEW k \in 1 .. Len(q), CoversIn(q, d, a, k), ~ Fixed(q[k], c)
        PROVE  \E j \in 1 .. Len(r) : /\ Executed(r[j]) /\ Same(q[k], r[j])
                                       /\ j \in 1 .. Len(w) /\ Covers(w[j], a)
    <2>1. PICK j \in 1 .. Len(r) : Executed(r[j]) /\ Same(q[k], r[j])
      BY <1>1 DEF Matches
    <2>2. Fixed(q[k], d) /\ Covers(q[k].store, a)
      BY <1>1 DEF CoversIn
    <2>3. j \in P /\ Covers(r[j].store, a)
      BY <1>0, <1>1, <2>1, <2>2 DEF Same
    <2>4. QED
      BY <1>0, <2>1, <2>3
  <1>2. CASE \A j \in 1 .. Len(w) : ~ Covers(w[j], a)
    <2>1. \A k \in 1 .. Len(q) : CoversIn(q, d, a, k) => CoversIn(q, c, a, k)
      BY <1>1, <1>2 DEF CoversIn
    <2>2. \A k \in 1 .. Len(q) : CoversIn(q, c, a, k) => CoversIn(q, d, a, k)
      BY <1>0 DEF CoversIn
    <2>3. NoneIn(q, c, a) => NoneIn(q, d, a)
      BY <2>1 DEF NoneIn
    <2>4. \A k \in 1 .. Len(q) : LastIn(q, c, a, k) => LastIn(q, d, a, k)
      BY <2>1, <2>2 DEF LastIn
    <2>5. ByteOf(m, FixedStores(q, c), a) = ByteOf(m, FixedStores(q, d), a)
      BY <2>3, <2>4, FixedByteSame
    <2>6. ByteOf(ret, w, a) = ret[a]
      BY <1>2, ByteNone
    <2>7. ret[a] = ByteOf(m, FixedStores(q, c), a)
      BY DEF Content
    <2>8. QED
      BY <2>5, <2>6, <2>7
  <1>3. ASSUME NEW j \in 1 .. Len(w), IsLast(w, a, j)
        PROVE  ByteOf(ret, w, a) = ByteOf(m, FixedStores(q, d), a)
    <2>1. Covers(w[j], a) /\ \A i \in 1 .. Len(w) : Covers(w[i], a) => i <= j
      BY <1>3 DEF IsLast
    <2>2. j \in P /\ j \in 1 .. Len(r) /\ Executed(r[j]) /\ w[j] = r[j].store
      BY <1>0, <2>1
    <2>3. PICK k \in 1 .. Len(q) : ~ Fixed(q[k], c) /\ Same(q[k], r[j])
      BY <2>2 DEF Matches
    <2>4. q[k].store = w[j] /\ Fixed(q[k], d)
      BY <1>0, <2>2, <2>3 DEF Same
    <2>5. ASSUME NEW i \in 1 .. Len(q), CoversIn(q, d, a, i)
          PROVE  i <= k
      <3>1. CASE Fixed(q[i], c)
        BY <3>1, <2>3 DEF FixedFirst
      <3>2. CASE ~ Fixed(q[i], c)
        <4>1. PICK x \in 1 .. Len(r) : /\ Executed(r[x]) /\ Same(q[i], r[x])
                                       /\ x \in 1 .. Len(w) /\ Covers(w[x], a)
          BY <3>2, <2>5, <1>1
        <4>2. x <= j
          BY <4>1, <2>1
        <4>3. k < i <=> j < x
          BY <4>1, <3>2, <2>2, <2>3 DEF Matches
        <4>4. QED
          BY <4>2, <4>3
      <3>3. QED
        BY <3>1, <3>2
    <2>6. LastIn(q, d, a, k)
      BY <2>1, <2>4, <2>5 DEF LastIn, CoversIn
    <2>7. ByteOf(m, FixedStores(q, d), a) = q[k].store.data[a - q[k].store.addr]
      BY <2>6, FixedLast
    <2>8. ByteOf(ret, w, a) = w[j].data[a - w[j].addr]
      BY <1>3, ByteLast
    <2>9. QED
      BY <2>4, <2>7, <2>8
  <1>4. QED
    BY <1>2, <1>3, ByteCases

-----------------------------------------------------------------------------
(* The entries of the ROB.                                                  *)
LEMMA RobSizeTyped == RobSize \in Nat /\ RobSize > 0 /\ BufferSize \in Nat
  BY BoundsAssumption

LEMMA Distinct ==
    ASSUME NEW r, Len(r) \in Nat, Len(r) <= RobSize, NEW next \in RobId, Consecutive(r, next),
           NEW j \in 1 .. Len(r), NEW k \in 1 .. Len(r), r[j].id = r[k].id
    PROVE  j = k
  <1>1. Before(next, Len(r) + 1 - j) = Before(next, Len(r) + 1 - k)
    BY DEF Consecutive
  <1>2. next \in Nat /\ next < RobSize
    BY RobSizeTyped DEF RobId
  <1>3. QED
    BY <1>1, <1>2, RobSizeTyped DEF Before

(* The first p entries have been announced, and the stores of the first n,  *)
(* all the ones there are among them, have retired.                         *)
Leaving(r, n, p) ==
    /\ n \in 0 .. p /\ p \in 0 .. Len(r)
    /\ \A k \in 1 .. p : r[k].status = "finished"
    /\ \A k \in 1 .. p : IsStore(r[k]) => k <= n
FirstIds(r, p) == {r[k].id : k \in 1 .. p}

LEMMA LeavingFixed ==
    ASSUME NEW r, Len(r) \in Nat, Len(r) <= RobSize, NEW next \in RobId, Consecutive(r, next),
           NEW p \in 0 .. Len(r), NEW i, ~ Fixed(i, {}), NEW j \in 1 .. Len(r), Same(i, r[j])
    PROVE  Fixed(i, FirstIds(r, p)) <=> j \in 1 .. p
  <1>1. ~ i.committed /\ i.rob_id = r[j].id
    BY DEF Fixed, Same
  <1>2. ASSUME j \in 1 .. p PROVE i.rob_id \in FirstIds(r, p)
    BY <1>1, <1>2 DEF FirstIds
  <1>3. ASSUME i.rob_id \in FirstIds(r, p) PROVE j \in 1 .. p
    <2>1. PICK k \in 1 .. p : i.rob_id = r[k].id
      BY <1>3 DEF FirstIds
    <2>2. k \in 1 .. Len(r) /\ r[j].id = r[k].id
      BY <2>1, <1>1
    <2>3. j = k
      BY <2>2, Distinct
    <2>4. QED
      BY <2>1, <2>3
  <1>4. QED
    BY <1>1, <1>2, <1>3 DEF Fixed

LEMMA RetireFixedFirst ==
    ASSUME NEW r, Len(r) \in Nat, Len(r) <= RobSize, NEW next \in RobId, Consecutive(r, next),
           NEW p \in 0 .. Len(r), NEW q, Len(q) \in Nat, FixedFirst(q, {}), Matches(q, {}, r)
    PROVE  FixedFirst(q, FirstIds(r, p))
  <1> DEFINE d == FirstIds(r, p)
  <1> SUFFICES ASSUME NEW j \in 1 .. Len(q), NEW k \in 1 .. Len(q), j < k, Fixed(q[k], d)
               PROVE  Fixed(q[j], d)
    BY DEF FixedFirst
  <1> HIDE DEF d
  <1>1. CASE Fixed(q[j], {})
    BY <1>1 DEF Fixed
  <1>2. CASE ~ Fixed(q[j], {})
    <2>1. ~ Fixed(q[k], {})
      BY <1>2 DEF FixedFirst
    <2>2. PICK x \in 1 .. Len(r) : Executed(r[x]) /\ Same(q[j], r[x])
      BY <1>2 DEF Matches
    <2>3. PICK y \in 1 .. Len(r) : Executed(r[y]) /\ Same(q[k], r[y])
      BY <2>1 DEF Matches
    <2>4. j < k <=> x < y
      BY <1>2, <2>1, <2>2, <2>3 DEF Matches
    <2>5. y \in 1 .. p
      BY <2>1, <2>3, LeavingFixed DEF d
    <2>6. x \in 1 .. p
      BY <2>4, <2>5
    <2>7. QED
      BY <2>6, <1>2, <2>2, LeavingFixed DEF d
  <1>3. QED
    BY <1>1, <1>2

LEMMA StoresIs ==
    ASSUME NEW S, NEW r \in Seq(S), NEW n \in 0 .. Len(r)
    PROVE  /\ Len(Stores(SubSeq(r, 1, n))) = n
           /\ \A k \in 1 .. n : Stores(SubSeq(r, 1, n))[k] = r[k].store
  <1> DEFINE t == SubSeq(r, 1, n)
  <1>1. Len(t) = n /\ \A k \in 1 .. n : t[k] = r[k]
    OBVIOUS
  <1> HIDE DEF t
  <1>2. Len(Stores(t)) = n /\ \A k \in 1 .. n : Stores(t)[k] = r[k].store
    BY <1>1 DEF Stores
  <1>3. QED
    BY <1>2 DEF t

LEMMA CoversStore ==
    ASSUME NEW e \in RobEntry, NEW a \in Addr, Covers(e.store, a)
    PROVE  IsStore(e)
  <1>1. e.store \in Store \cup {NoStore} /\ e.store # NoStore
    BY NoStoreCovers DEF RobEntry
  <1>2. e.store.size \in {1, 2, 4}
    BY <1>1, StoreTyped
  <1>3. QED
    BY <1>2 DEF IsStore

LEMMA RetireContent ==
    ASSUME NEW r \in Seq(RobEntry), Len(r) <= RobSize, NEW next \in RobId, Consecutive(r, next),
           NEW n, NEW p, Leaving(r, n, p), NEW q, Len(q) \in Nat, NEW m, NEW ret,
           FixedFirst(q, {}), Content(m, q, {}, ret), Matches(q, {}, r)
    PROVE  Content(m, q, FirstIds(r, p), WriteAll(ret, Stores(SubSeq(r, 1, n))))
  <1> DEFINE d == FirstIds(r, p)
             w == Stores(SubSeq(r, 1, n))
  <1>1. Len(r) \in Nat /\ p \in 0 .. Len(r) /\ n \in 0 .. Len(r) /\ n \in Nat /\ n <= p
    BY DEF Leaving
  <1>2. Len(w) = n /\ \A k \in 1 .. n : w[k] = r[k].store
    BY <1>1, StoresIs
  <1>3. \A k \in 1 .. Len(q), j \in 1 .. Len(r) :
           ~ Fixed(q[k], {}) /\ Executed(r[j]) /\ Same(q[k], r[j]) => (Fixed(q[k], d) <=> j \in 1 .. p)
    BY <1>1, LeavingFixed
  <1> HIDE DEF d, w
  <1> SUFFICES ASSUME NEW a \in Addr
               PROVE  WriteAll(ret, w)[a] = ByteOf(m, FixedStores(q, d), a)
    BY DEF Content, d, w
  <1>4. WriteAll(ret, w)[a] = ByteOf(ret, w, a)
    BY DEF WriteAll
  <1>5. \A j \in 1 .. p : r[j] \in RobEntry /\ r[j].status = "finished"
    BY <1>1 DEF Leaving
  <1>6. ASSUME NEW j \in 1 .. Len(w), Covers(w[j], a)
        PROVE  j \in 1 .. p /\ Executed(r[j]) /\ w[j] = r[j].store
    <2>1. j \in 1 .. p /\ w[j] = r[j].store
      BY <1>1, <1>2
    <2>2. IsStore(r[j])
      BY <2>1, <1>5, <1>6, CoversStore
    <2>3. QED
      BY <2>1, <2>2, <1>5 DEF Executed
  <1>7. ASSUME NEW j \in 1 .. p, Executed(r[j])
        PROVE  j \in 1 .. Len(w) /\ w[j] = r[j].store
    BY <1>1, <1>2, <1>7 DEF Leaving, Executed
  <1>8. \A k \in 1 .. Len(q) : Fixed(q[k], {}) => Fixed(q[k], d)
    BY DEF Fixed
  <1>9. 1 .. p \subseteq 1 .. Len(r) /\ Len(w) \in Nat
    BY <1>1, <1>2
  <1>10. ByteOf(ret, w, a) = ByteOf(m, FixedStores(q, d), a)
    <2>1. Overwritten(q, {}, r, d, 1 .. p, w, a)
      BY <1>1, <1>3, <1>6, <1>7, <1>8, <1>9 DEF Overwritten
    <2>2. QED
      BY <2>1, <1>1, <1>9, Overwrite
  <1>11. QED
    BY <1>4, <1>10

LEMMA RetireMatches ==
    ASSUME NEW r, Len(r) \in Nat, Len(r) <= RobSize, NEW next \in RobId, Consecutive(r, next),
           NEW p \in 0 .. Len(r), NEW q, Len(q) \in Nat, Matches(q, {}, r),
           NEW s, Len(s) = Len(r) - p, \A k \in 1 .. Len(s) : s[k] = r[k + p]
    PROVE  Matches(q, FirstIds(r, p), s)
  <1> DEFINE d == FirstIds(r, p)
  <1>1. \A k \in 1 .. Len(q), j \in 1 .. Len(r) :
           ~ Fixed(q[k], {}) /\ Executed(r[j]) /\ Same(q[k], r[j]) => (Fixed(q[k], d) <=> j \in 1 .. p)
    BY LeavingFixed
  <1>2. \A k \in 1 .. Len(q) : ~ Fixed(q[k], d) => ~ Fixed(q[k], {})
    BY DEF Fixed
  <1> HIDE DEF d
  <1>3. ASSUME NEW k \in 1 .. Len(q), ~ Fixed(q[k], d)
        PROVE  \E j \in 1 .. Len(s) : Executed(s[j]) /\ Same(q[k], s[j])
    <2>1. PICK j \in 1 .. Len(r) : Executed(r[j]) /\ Same(q[k], r[j])
      BY <1>2, <1>3 DEF Matches
    <2>2. j \notin 1 .. p
      BY <1>1, <1>2, <1>3, <2>1
    <2>3. j - p \in 1 .. Len(s) /\ (j - p) + p = j
      BY <2>2
    <2>4. s[j - p] = r[j]
      BY <2>3
    <2>5. QED
      BY <2>1, <2>3, <2>4
  <1>4. ASSUME NEW j \in 1 .. Len(s), Executed(s[j])
        PROVE  \E k \in 1 .. Len(q) : ~ Fixed(q[k], d) /\ Same(q[k], s[j])
    <2>1. j + p \in 1 .. Len(r) /\ s[j] = r[j + p] /\ j + p \notin 1 .. p
      OBVIOUS
    <2>2. PICK k \in 1 .. Len(q) : ~ Fixed(q[k], {}) /\ Same(q[k], r[j + p])
      BY <1>4, <2>1 DEF Matches
    <2>3. ~ Fixed(q[k], d)
      BY <1>1, <1>4, <2>1, <2>2
    <2>4. QED
      BY <2>1, <2>2, <2>3
  <1>5. ASSUME NEW k1 \in 1 .. Len(q), NEW k2 \in 1 .. Len(q),
               NEW j1 \in 1 .. Len(s), NEW j2 \in 1 .. Len(s),
               ~ Fixed(q[k1], d), ~ Fixed(q[k2], d), Executed(s[j1]), Executed(s[j2]),
               Same(q[k1], s[j1]), Same(q[k2], s[j2])
        PROVE  k1 < k2 <=> j1 < j2
    <2>1. /\ j1 + p \in 1 .. Len(r) /\ s[j1] = r[j1 + p]
          /\ j2 + p \in 1 .. Len(r) /\ s[j2] = r[j2 + p]
      OBVIOUS
    <2>2. k1 < k2 <=> j1 + p < j2 + p
      BY <1>2, <1>5, <2>1, ZenonT(30) DEF Matches
    <2>3. QED
      BY <2>2
  <1>6. QED
    BY <1>3, <1>4, <1>5 DEF Matches, d

(* Results are reported, and the entry x, if there is one, is executed.     *)
Progress(r, s, X) ==
    /\ Len(s) = Len(r)
    /\ \A k \in 1 .. Len(r) : s[k].id = r[k].id /\ s[k].store = r[k].store
    /\ \A k \in 1 .. Len(r) : Executed(s[k]) <=> Executed(r[k]) \/ k \in X

LEMMA ProgressKeeps ==
    ASSUME NEW r, Len(r) \in Nat, NEW s, NEW X, Progress(r, s, X), NEW next, Consecutive(r, next)
    PROVE  Consecutive(s, next)
  BY DEF Progress, Consecutive

LEMMA ReportedMatches ==
    ASSUME NEW r, Len(r) \in Nat, NEW s, Progress(r, s, {}), NEW q, Len(q) \in Nat, NEW c,
           Matches(q, c, r)
    PROVE  Matches(q, c, s)
  <1>1. Len(s) = Len(r) /\ \A k \in 1 .. Len(r) : Executed(s[k]) <=> Executed(r[k])
    BY DEF Progress
  <1>2. \A j \in 1 .. Len(r) : \A i : Same(i, s[j]) <=> Same(i, r[j])
    BY DEF Progress, Same
  <1>3. QED
    BY <1>1, <1>2 DEF Matches

LEMMA ReportedInOrder ==
    ASSUME NEW r, Len(r) \in Nat, NEW s, Progress(r, s, {}), StoresInOrder(r)
    PROVE  StoresInOrder(s)
  <1>1. Len(s) = Len(r) /\ \A k \in 1 .. Len(r) : Executed(s[k]) <=> Executed(r[k])
    BY DEF Progress
  <1>2. \A k \in 1 .. Len(r) : IsStore(s[k]) <=> IsStore(r[k])
    BY DEF Progress, IsStore
  <1>3. QED
    BY <1>1, <1>2 DEF StoresInOrder

(* x is the oldest store that waits.                                        *)
OldestWaiting(r, x) == /\ x \in 1 .. Len(r) /\ IsStore(r[x]) /\ ~ Executed(r[x])
                       /\ \A j \in 1 .. Len(r) : IsStore(r[j]) /\ ~ Executed(r[j]) => x <= j

LEMMA ExecutedInOrder ==
    ASSUME NEW r, Len(r) \in Nat, NEW s, NEW x, OldestWaiting(r, x), Progress(r, s, {x}),
           StoresInOrder(r)
    PROVE  StoresInOrder(s)
  <1> SUFFICES ASSUME NEW j \in 1 .. Len(s), NEW k \in 1 .. Len(s), j < k, IsStore(s[j]), Executed(s[k])
               PROVE  Executed(s[j])
    BY DEF StoresInOrder
  <1>1. j \in 1 .. Len(r) /\ k \in 1 .. Len(r) /\ x \in 1 .. Len(r)
    BY DEF Progress, OldestWaiting
  <1>2. IsStore(r[j]) /\ (Executed(r[k]) \/ k = x) /\ (Executed(r[j]) => Executed(s[j]))
    BY <1>1 DEF Progress, IsStore
  <1>3. Executed(r[k]) => Executed(r[j])
    BY <1>1, <1>2 DEF StoresInOrder
  <1>4. k = x => Executed(r[j])
    BY <1>1, <1>2 DEF OldestWaiting
  <1>5. QED
    BY <1>2, <1>3, <1>4

(* An item that is not fixed is queued.                                     *)
Queued(q, t, i) == Len(t) = Len(q) + 1 /\ t[Len(q) + 1] = i /\ \A k \in 1 .. Len(q) : t[k] = q[k]

LEMMA QueuedKeeps ==
    ASSUME NEW q, Len(q) \in Nat, NEW t, NEW i, Queued(q, t, i), NEW c, ~ Fixed(i, c),
           FixedFirst(q, c), NEW m, NEW ret, Content(m, q, c, ret)
    PROVE  FixedFirst(t, c) /\ Content(m, t, c, ret)
  <1>1. /\ Len(t) = Len(q) + 1 /\ Len(t) \in Nat /\ ~ Fixed(t[Len(q) + 1], c)
        /\ \A k \in 1 .. Len(q) : t[k] = q[k]
    BY DEF Queued
  <1>2. \A k \in 1 .. Len(t) : Fixed(t[k], c) => k \in 1 .. Len(q)
    BY <1>1
  <1>3. FixedFirst(t, c)
    BY <1>1, <1>2 DEF FixedFirst
  <1>4. ASSUME NEW a \in Addr
        PROVE  ret[a] = ByteOf(m, FixedStores(t, c), a)
    <2>1. \A k \in 1 .. Len(t) : CoversIn(t, c, a, k) => k \in 1 .. Len(q) /\ CoversIn(q, c, a, k)
      BY <1>1, <1>2 DEF CoversIn
    <2>2. \A k \in 1 .. Len(q) : k \in 1 .. Len(t) /\ (CoversIn(q, c, a, k) => CoversIn(t, c, a, k))
      BY <1>1 DEF CoversIn
    <2>3. NoneIn(q, c, a) => NoneIn(t, c, a)
      BY <2>1 DEF NoneIn
    <2>4. \A k \in 1 .. Len(q) : LastIn(q, c, a, k) => LastIn(t, c, a, k) /\ t[k].store = q[k].store
      BY <1>1, <2>1, <2>2 DEF LastIn
    <2>5. ByteOf(m, FixedStores(q, c), a) = ByteOf(m, FixedStores(t, c), a)
      BY <1>1, <2>2, <2>3, <2>4, FixedByteSame
    <2>6. QED
      BY <2>5 DEF Content
  <1>5. QED
    BY <1>3, <1>4 DEF Content

LEMMA ExecutedMatches ==
    ASSUME NEW r, Len(r) \in Nat, Len(r) <= RobSize, NEW next \in RobId, Consecutive(r, next),
           StoresInOrder(r), NEW x, OldestWaiting(r, x), NEW s, Progress(r, s, {x}),
           NEW q, Len(q) \in Nat, NEW c, Matches(q, c, r),
           NEW t, NEW i, Queued(q, t, i), ~ Fixed(i, c), Same(i, r[x])
    PROVE  Matches(t, c, s)
  <1>1. /\ Len(s) = Len(r) /\ Len(t) = Len(q) + 1 /\ x \in 1 .. Len(r)
        /\ t[Len(q) + 1] = i /\ \A k \in 1 .. Len(q) : t[k] = q[k]
        /\ \A k \in 1 .. Len(r) : Executed(s[k]) <=> Executed(r[k]) \/ k = x
        /\ ~ Executed(r[x]) /\ IsStore(r[x])
    BY DEF Progress, Queued, OldestWaiting
  <1>2. \A j \in 1 .. Len(r) : \A y : Same(y, s[j]) <=> Same(y, r[j])
    BY DEF Progress, Same
  <1>3. \A j \in 1 .. Len(r) : Executed(r[j]) => j < x
    <2> SUFFICES ASSUME NEW j \in 1 .. Len(r), Executed(r[j]) PROVE j < x
      OBVIOUS
    <2>1. ~ (x < j)
      BY <1>1 DEF StoresInOrder
    <2>2. j # x
      BY <1>1
    <2>3. QED
      BY <1>1, <2>1, <2>2
  <1>4. ASSUME NEW j \in 1 .. Len(r), Same(i, r[j]) PROVE j = x
    <2>1. r[j].id = r[x].id
      BY <1>4 DEF Same
    <2>2. QED
      BY <1>1, <2>1, Distinct
  <1>5. ASSUME NEW k \in 1 .. Len(q), ~ Fixed(q[k], c) PROVE ~ Same(q[k], r[x])
    <2>1. PICK j \in 1 .. Len(r) : Executed(r[j]) /\ Same(q[k], r[j])
      BY <1>5 DEF Matches
    <2>2. ASSUME Same(q[k], r[x]) PROVE FALSE
      <3>1. r[j].id = r[x].id
        BY <2>1, <2>2 DEF Same
      <3>2. j = x
        BY <1>1, <3>1, Distinct
      <3>3. QED
        BY <3>2, <2>1, <1>1
    <2>3. QED
      BY <2>2
  <1>6. ASSUME NEW k \in 1 .. Len(t), ~ Fixed(t[k], c)
        PROVE  \E j \in 1 .. Len(s) : Executed(s[j]) /\ Same(t[k], s[j])
    <2>1. CASE k = Len(q) + 1
      BY <2>1, <1>1, <1>2
    <2>2. CASE k \in 1 .. Len(q)
      <3>1. PICK j \in 1 .. Len(r) : Executed(r[j]) /\ Same(q[k], r[j])
        BY <1>1, <1>6, <2>2 DEF Matches
      <3>2. QED
        BY <1>1, <1>2, <2>2, <3>1
    <2>3. QED
      BY <1>1, <2>1, <2>2
  <1>7. ASSUME NEW j \in 1 .. Len(s), Executed(s[j])
        PROVE  \E k \in 1 .. Len(t) : ~ Fixed(t[k], c) /\ Same(t[k], s[j])
    <2>1. CASE j = x
      <3>1. Len(q) + 1 \in 1 .. Len(t) /\ Same(t[Len(q) + 1], s[j]) /\ ~ Fixed(t[Len(q) + 1], c)
        BY <2>1, <1>1, <1>2
      <3>2. QED
        BY <3>1
    <2>2. CASE Executed(r[j])
      <3>1. PICK k \in 1 .. Len(q) : ~ Fixed(q[k], c) /\ Same(q[k], r[j])
        BY <1>1, <2>2 DEF Matches
      <3>2. k \in 1 .. Len(t) /\ t[k] = q[k]
        BY <1>1
      <3>3. QED
        BY <1>1, <1>2, <3>1, <3>2
    <2>3. QED
      BY <1>1, <1>7, <2>1, <2>2
  <1>8. ASSUME NEW k1 \in 1 .. Len(t), NEW k2 \in 1 .. Len(t),
               NEW j1 \in 1 .. Len(s), NEW j2 \in 1 .. Len(s),
               ~ Fixed(t[k1], c), ~ Fixed(t[k2], c), Executed(s[j1]), Executed(s[j2]),
               Same(t[k1], s[j1]), Same(t[k2], s[j2])
        PROVE  k1 < k2 <=> j1 < j2
    <2>1. /\ j1 \in 1 .. Len(r) /\ j2 \in 1 .. Len(r)
          /\ Same(t[k1], r[j1]) /\ Same(t[k2], r[j2])
      BY <1>1, <1>2, <1>8
    <2>2. (k1 = Len(q) + 1 => j1 = x) /\ (k2 = Len(q) + 1 => j2 = x)
      BY <1>1, <1>4, <2>1
    <2>3. /\ k1 \in 1 .. Len(q) => j1 # x /\ Executed(r[j1])
          /\ k2 \in 1 .. Len(q) => j2 # x /\ Executed(r[j2])
      BY <1>1, <1>5, <1>8, <2>1
    <2>4. CASE k1 \in 1 .. Len(q) /\ k2 \in 1 .. Len(q)
      BY <1>1, <1>8, <2>1, <2>3, <2>4 DEF Matches
    <2>5. CASE k1 = Len(q) + 1 /\ k2 = Len(q) + 1
      BY <2>2, <2>5, <2>1
    <2>6. CASE k1 = Len(q) + 1 /\ k2 \in 1 .. Len(q)
      <3>1. j1 = x /\ j2 < x /\ ~ (k1 < k2)
        BY <1>3, <2>1, <2>2, <2>3, <2>6
      <3>2. QED
        BY <3>1, <2>1
    <2>7. CASE k1 \in 1 .. Len(q) /\ k2 = Len(q) + 1
      <3>1. j2 = x /\ j1 < x /\ k1 < k2
        BY <1>3, <2>1, <2>2, <2>3, <2>7
      <3>2. QED
        BY <3>1
    <2>8. QED
      BY <1>1, <2>4, <2>5, <2>6, <2>7
  <1>9. QED
    BY <1>6, <1>7, <1>8 DEF Matches

(* An instruction enters the ROB.                                           *)
Entered(r, s, e) == Len(s) = Len(r) + 1 /\ s[Len(r) + 1] = e /\ \A k \in 1 .. Len(r) : s[k] = r[k]

LEMMA EnteredKeeps ==
    ASSUME NEW r, Len(r) \in Nat, NEW s, NEW e, Entered(r, s, e), ~ Executed(e)
    PROVE  /\ StoresInOrder(r) => StoresInOrder(s)
           /\ \A q, c : Len(q) \in Nat /\ Matches(q, c, r) => Matches(q, c, s)
  <1>1. /\ Len(s) = Len(r) + 1 /\ ~ Executed(s[Len(r) + 1])
        /\ \A k \in 1 .. Len(r) : s[k] = r[k]
    BY DEF Entered
  <1>2. \A k \in 1 .. Len(s) : Executed(s[k]) => k \in 1 .. Len(r) /\ s[k] = r[k]
    BY <1>1
  <1>3. \A k \in 1 .. Len(r) : k \in 1 .. Len(s)
    BY <1>1
  <1>4. ASSUME StoresInOrder(r) PROVE StoresInOrder(s)
    <2> SUFFICES ASSUME NEW j \in 1 .. Len(s), NEW k \in 1 .. Len(s), j < k, IsStore(s[j]), Executed(s[k])
                 PROVE  Executed(s[j])
      BY DEF StoresInOrder
    <2>1. k \in 1 .. Len(r) /\ s[k] = r[k]
      BY <1>2
    <2>2. j \in 1 .. Len(r) /\ s[j] = r[j]
      BY <1>1, <2>1
    <2>3. QED
      BY <1>4, <2>1, <2>2 DEF StoresInOrder
  <1>5. ASSUME NEW q, NEW c, Len(q) \in Nat, Matches(q, c, r) PROVE Matches(q, c, s)
    <2>1. ASSUME NEW k \in 1 .. Len(q), ~ Fixed(q[k], c)
          PROVE  \E j \in 1 .. Len(s) : Executed(s[j]) /\ Same(q[k], s[j])
      <3>1. PICK j \in 1 .. Len(r) : Executed(r[j]) /\ Same(q[k], r[j])
        BY <1>5, <2>1 DEF Matches
      <3>2. QED
        BY <1>1, <1>3, <3>1
    <2>2. ASSUME NEW j \in 1 .. Len(s), Executed(s[j])
          PROVE  \E k \in 1 .. Len(q) : ~ Fixed(q[k], c) /\ Same(q[k], s[j])
      <3>1. j \in 1 .. Len(r) /\ s[j] = r[j]
        BY <1>2, <2>2
      <3>2. QED
        BY <1>5, <2>2, <3>1 DEF Matches
    <2>3. ASSUME NEW k1 \in 1 .. Len(q), NEW k2 \in 1 .. Len(q),
                 NEW j1 \in 1 .. Len(s), NEW j2 \in 1 .. Len(s),
                 ~ Fixed(q[k1], c), ~ Fixed(q[k2], c), Executed(s[j1]), Executed(s[j2]),
                 Same(q[k1], s[j1]), Same(q[k2], s[j2])
          PROVE  k1 < k2 <=> j1 < j2
      <3>1. j1 \in 1 .. Len(r) /\ s[j1] = r[j1] /\ j2 \in 1 .. Len(r) /\ s[j2] = r[j2]
        BY <1>2, <2>3
      <3>2. QED
        BY <1>5, <2>3, <3>1 DEF Matches
    <2>4. QED
      BY <2>1, <2>2, <2>3 DEF Matches
  <1>6. QED
    BY <1>4, <1>5

LEMMA NextIdIs ==
    ASSUME NEW id \in RobId
    PROVE  /\ NextId(id) = IF id + 1 = RobSize THEN 0 ELSE id + 1
           /\ NextId(id) \in RobId
  <1>1. id \in Nat /\ id < RobSize /\ RobSize \in Nat /\ RobSize > 0
    BY RobSizeTyped DEF RobId
  <1>2. CASE id + 1 = RobSize
    <2>1. (id + 1) % RobSize = 0
      BY <1>1, <1>2
    <2>2. QED
      BY <1>1, <1>2, <2>1 DEF NextId, RobId
  <1>3. CASE id + 1 < RobSize
    <2>1. (id + 1) % RobSize = id + 1
      BY <1>1, <1>3
    <2>2. QED
      BY <1>1, <1>3, <2>1 DEF NextId, RobId
  <1>4. QED
    BY <1>1, <1>2, <1>3

LEMMA EnteredConsecutive ==
    ASSUME NEW r, Len(r) \in Nat, Len(r) < RobSize, NEW next \in RobId, Consecutive(r, next),
           NEW s, NEW e, Entered(r, s, e), e.id = next
    PROVE  Consecutive(s, NextId(next))
  <1>1. next \in Nat /\ next < RobSize /\ RobSize \in Nat
    BY RobSizeTyped DEF RobId
  <1>2. NextId(next) = IF next + 1 = RobSize THEN 0 ELSE next + 1
    BY NextIdIs
  <1>3. Len(s) = Len(r) + 1 /\ s[Len(r) + 1] = e /\ \A k \in 1 .. Len(r) : s[k] = r[k]
    BY DEF Entered
  <1>4. Before(NextId(next), 1) = next
    BY <1>1, <1>2 DEF Before
  <1>5. \A d \in 1 .. RobSize - 1 : Before(NextId(next), d + 1) = Before(next, d)
    BY <1>1, <1>2 DEF Before
  <1>6. ASSUME NEW k \in 1 .. Len(s) PROVE s[k].id = Before(NextId(next), Len(s) + 1 - k)
    <2>1. CASE k = Len(r) + 1
      <3>1. Len(s) + 1 - k = 1
        BY <1>3, <2>1
      <3>2. QED
        BY <1>3, <1>4, <2>1, <3>1
    <2>2. CASE k \in 1 .. Len(r)
      <3>1. s[k].id = Before(next, Len(r) + 1 - k)
        BY <1>3, <2>2 DEF Consecutive
      <3>2. Len(r) + 1 - k \in 1 .. RobSize - 1 /\ Len(s) + 1 - k = (Len(r) + 1 - k) + 1
        BY <1>1, <1>3, <2>2
      <3>3. QED
        BY <1>5, <3>1, <3>2
    <2>3. QED
      BY <1>3, <2>1, <2>2
  <1>7. QED
    BY <1>6 DEF Consecutive

(* A flush keeps the items that are fixed.                                  *)
LEMMA PrefixContent ==
    ASSUME NEW q, Len(q) \in Nat, NEW t, Len(t) \in 0 .. Len(q), \A k \in 1 .. Len(t) : t[k] = q[k],
           NEW c, \A k \in 1 .. Len(q) : Fixed(q[k], c) => k \in 1 .. Len(t),
           NEW m, NEW ret, Content(m, q, c, ret)
    PROVE  Content(m, t, c, ret)
  <1> SUFFICES ASSUME NEW a \in Addr PROVE ret[a] = ByteOf(m, FixedStores(t, c), a)
    BY DEF Content
  <1>1. \A k \in 1 .. Len(q) : CoversIn(q, c, a, k) => k \in 1 .. Len(t) /\ CoversIn(t, c, a, k)
    BY DEF CoversIn
  <1>2. \A k \in 1 .. Len(t) : k \in 1 .. Len(q) /\ (CoversIn(t, c, a, k) => CoversIn(q, c, a, k))
    BY DEF CoversIn
  <1>3. NoneIn(q, c, a) => NoneIn(t, c, a)
    BY <1>2 DEF NoneIn
  <1>4. \A k \in 1 .. Len(q) : LastIn(q, c, a, k) =>
            \E j \in 1 .. Len(t) : LastIn(t, c, a, j) /\ t[j].store = q[k].store
    BY <1>1, <1>2 DEF LastIn
  <1>5. ByteOf(m, FixedStores(q, c), a) = ByteOf(m, FixedStores(t, c), a)
    BY <1>3, <1>4, FixedByteSame
  <1>6. QED
    BY <1>5 DEF Content

LEMMA FlushKeeps ==
    ASSUME NEW S, NEW q \in Seq(S), NEW c, FixedFirst(q, c), NEW K,
           K = {n \in 0 .. Len(q) : \A k \in 1 .. n : Fixed(q[k], c)}
    PROVE  \E t \in Seq(S) : /\ t = SubSeq(q, 1, Newest(K))
                             /\ Len(t) \in 0 .. Len(q) /\ \A k \in 1 .. Len(t) : t[k] = q[k]
                             /\ \A k \in 1 .. Len(q) : Fixed(q[k], c) <=> k \in 1 .. Len(t)
  <1> DEFINE l == Newest(K)
             t == SubSeq(q, 1, l)
  <1>1. Len(q) \in Nat /\ K \subseteq 0 .. Len(q) /\ 0 \in K
    OBVIOUS
  <1>2. l \in K /\ \A j \in K : j <= l
    BY <1>1, NewestIs
  <1>3. l \in 0 .. Len(q) /\ \A k \in 1 .. l : Fixed(q[k], c)
    BY <1>2
  <1> HIDE DEF l
  <1>4. ASSUME NEW k \in 1 .. Len(q), Fixed(q[k], c) PROVE k \in 1 .. l
    <2>1. k \in K
      BY <1>4 DEF FixedFirst
    <2>2. QED
      BY <2>1, <1>2, <1>3
  <1>5. Len(t) = l /\ \A k \in 1 .. l : t[k] = q[k]
    BY <1>3
  <1>6. t \in Seq(S)
    BY <1>3, SubSeqProperties
  <1>7. t = SubSeq(q, 1, Newest(K))
    BY DEF l
  <1> HIDE DEF t
  <1>8. QED
    BY <1>3, <1>4, <1>5, <1>6, <1>7

-----------------------------------------------------------------------------
(* The steps.                                                               *)
LEMMA NoneQueued == ASSUME NEW b \in Seq(BufferItem) PROVE b \o << >> = b
  BY ConcatEmptySeq

LEMMA RobEntryIs ==
    ASSUME NEW e \in RobEntry
    PROVE  /\ e.id \in RobId /\ e.store \in Store \cup {NoStore}
           /\ e.status \in {"waiting", "executed", "finished"}
  BY DEF RobEntry

LEMMA InitOK == Init => BufferInv
  <1> SUFFICES ASSUME Init PROVE BufferInv
    OBVIOUS
  <1>1. /\ stage = "commit" /\ rob = << >> /\ new_id = 0 /\ trap = FALSE /\ feedback = NoFeedback
        /\ buffer = << >> /\ push_q = << >> /\ memory \in [Addr -> Byte] /\ retired = memory
    BY DEF Init
  <1>2. Row = << >> /\ feedback.committed = {} /\ feedback.flush = FALSE
    BY <1>1 DEF Row, NoFeedback
  <1>3. Types /\ PassInv
    <2>1. 0 \in RobId
      BY RobSizeTyped DEF RobId
    <2>2. feedback \in [flush : BOOLEAN, committed : SUBSET RobId]
      BY <1>1 DEF NoFeedback
    <2>3. /\ rob \in Seq(RobEntry) /\ Len(rob) = 0 /\ buffer \in Seq(BufferItem)
          /\ push_q \in Seq(BufferItem) /\ Len(buffer) = 0 /\ Len(push_q) = 0
      BY <1>1
    <2>4. /\ stage \in {"commit", "lsu", "rename", "store"} /\ trap \in BOOLEAN /\ new_id \in RobId
          /\ memory \in [Addr -> Byte] /\ retired \in [Addr -> Byte]
      BY <1>1, <2>1
    <2>5. Types
      BY <2>2, <2>3, <2>4, RobSizeTyped DEF Types
    <2>6. PassInv
      BY <1>1 DEF PassInv
    <2>7. QED
      BY <2>5, <2>6
  <1>4. Consecutive(rob, new_id) /\ IdsLeft /\ StoresInOrder(rob) /\ PushOpen
    BY <1>1 DEF Consecutive, IdsLeft, StoresInOrder, PushOpen
  <1>5. FixedFirst(Row, feedback.committed) /\ Matches(Row, feedback.committed, rob)
    BY <1>1, <1>2 DEF FixedFirst, Matches
  <1>6. Content(memory, Row, feedback.committed, retired)
    <2>1. ASSUME NEW a \in Addr PROVE memory[a] = ByteOf(memory, FixedStores(Row, {}), a)
      <3>1. Len(Row) = 0 /\ Len(Row) \in Nat
        BY <1>2
      <3>2. NoneIn(Row, {}, a)
        BY <3>1 DEF NoneIn
      <3>3. QED
        BY <3>1, <3>2, FixedNone
    <2>2. QED
      BY <2>1, <1>1, <1>2 DEF Content
  <1>7. QED
    BY <1>3, <1>4, <1>5, <1>6 DEF BufferInv

(* In commit the buffer stands for itself.                                  *)
LEMMA AtCommit ==
    ASSUME BufferInv, stage = "commit"
    PROVE  /\ feedback.committed = {} /\ ~ feedback.flush /\ push_q = << >> /\ Row = buffer
           /\ buffer \in Seq(BufferItem) /\ Len(buffer) \in Nat
           /\ rob \in Seq(RobEntry) /\ Len(rob) \in Nat /\ Len(rob) <= RobSize /\ new_id \in RobId
           /\ Consecutive(rob, new_id) /\ StoresInOrder(rob)
           /\ FixedFirst(buffer, {}) /\ Content(memory, buffer, {}, retired) /\ Matches(buffer, {}, rob)
  <1>1. feedback = NoFeedback /\ push_q = << >> /\ buffer \in Seq(BufferItem)
    BY DEF BufferInv, PassInv, Types
  <1>2. feedback.committed = {} /\ ~ feedback.flush
    BY <1>1 DEF NoFeedback
  <1>3. Row = buffer
    BY <1>1, NoneQueued DEF Row
  <1>4. QED
    BY <1>1, <1>2, <1>3 DEF BufferInv, Types

LEMMA ByteTyped ==
    ASSUME NEW m \in [Addr -> Byte], NEW w, Len(w) \in Nat,
           \A k \in 1 .. Len(w) : w[k] \in Store \cup {NoStore}, NEW a \in Addr
    PROVE  ByteOf(m, w, a) \in Byte
  <1>1. CASE \A k \in 1 .. Len(w) : ~ Covers(w[k], a)
    <2>1. ByteOf(m, w, a) = m[a]
      BY <1>1, ByteNone
    <2>2. QED
      BY <2>1
  <1>2. ASSUME NEW k \in 1 .. Len(w), IsLast(w, a, k) PROVE ByteOf(m, w, a) \in Byte
    <2> DEFINE s == w[k]
    <2>1. Covers(s, a) /\ s \in Store
      BY <1>2, NoStoreCovers DEF IsLast
    <2>2. ByteOf(m, w, a) = s.data[a - s.addr]
      BY <1>2, ByteLast
    <2> HIDE DEF s
    <2>3. s.addr \in Nat /\ s.size \in {1, 2, 4} /\ s.data \in [0 .. s.size - 1 -> Byte]
      BY <2>1, StoreTyped
    <2>4. a \in Nat
      BY AddrTyped
    <2>5. a - s.addr \in 0 .. s.size - 1
      BY <2>1, <2>3, <2>4 DEF Covers
    <2>6. s.data[a - s.addr] \in Byte
      BY <2>3, <2>5
    <2>7. QED
      BY <2>2, <2>6
  <1>3. QED
    BY <1>1, <1>2, ByteCases

LEMMA RetireStep ==
    ASSUME BufferInv, stage = "commit", NEW n, NEW p, Leaving(rob, n, p)
    PROVE  /\ FirstIds(rob, p) \in SUBSET RobId
           /\ WriteAll(retired, Stores(SubSeq(rob, 1, n))) \in [Addr -> Byte]
           /\ FixedFirst(buffer, FirstIds(rob, p))
           /\ Content(memory, buffer, FirstIds(rob, p), WriteAll(retired, Stores(SubSeq(rob, 1, n))))
  <1>1. /\ rob \in Seq(RobEntry) /\ Len(rob) \in Nat /\ Len(rob) <= RobSize /\ new_id \in RobId
        /\ Consecutive(rob, new_id) /\ Len(buffer) \in Nat
        /\ FixedFirst(buffer, {}) /\ Content(memory, buffer, {}, retired) /\ Matches(buffer, {}, rob)
    BY AtCommit
  <1>2. p \in 0 .. Len(rob) /\ n \in 0 .. Len(rob)
    BY <1>1 DEF Leaving
  <1>3. FirstIds(rob, p) \in SUBSET RobId
    <2>1. \A k \in 1 .. p : rob[k] \in RobEntry
      BY <1>1, <1>2
    <2>2. \A k \in 1 .. p : rob[k].id \in RobId
      BY <2>1, RobEntryIs
    <2>3. QED
      BY <2>2 DEF FirstIds
  <1>4. ASSUME NEW w, w = Stores(SubSeq(rob, 1, n)) PROVE WriteAll(retired, w) \in [Addr -> Byte]
    <2>1. Len(w) = n /\ \A k \in 1 .. n : w[k] = rob[k].store
      BY <1>1, <1>2, <1>4, StoresIs
    <2>2. \A k \in 1 .. n : rob[k] \in RobEntry
      BY <1>1, <1>2
    <2>3. \A k \in 1 .. n : w[k] \in Store \cup {NoStore}
      BY <2>1, <2>2, RobEntryIs
    <2>4. retired \in [Addr -> Byte]
      BY DEF BufferInv, Types
    <2>5. \A a \in Addr : ByteOf(retired, w, a) \in Byte
      BY <2>1, <2>3, <2>4, <1>2, ByteTyped
    <2>6. QED
      BY <2>5 DEF WriteAll
  <1>5. FixedFirst(buffer, FirstIds(rob, p))
    BY <1>1, <1>2, RetireFixedFirst
  <1>6. Content(memory, buffer, FirstIds(rob, p), WriteAll(retired, Stores(SubSeq(rob, 1, n))))
    BY <1>1, RetireContent
  <1>7. QED
    BY <1>3, <1>4, <1>5, <1>6

LEMMA FinishingLeaves ==
    ASSUME BufferInv, stage = "commit", NEW n \in Finishing
    PROVE  Leaving(rob, n, n) /\ CommitIds(n) = FirstIds(rob, n)
  <1>1. Len(rob) \in Nat /\ n \in Nat /\ n <= Len(rob) /\ \A k \in 1 .. n : Finished(k)
    BY AtCommit, BoundsAssumption DEF Finishing
  <1>2. QED
    BY <1>1 DEF Leaving, Finished, CommitIds, FirstIds

(* A flush that starts in commit: it empties the ROB.                       *)
LEMMA FlushStep ==
    ASSUME BufferInv, stage = "commit", NEW n, NEW p, Leaving(rob, n, p),
           retired' = WriteAll(retired, Stores(SubSeq(rob, 1, n))),
           feedback' = [flush |-> TRUE, committed |-> FirstIds(rob, p)],
           rob' = << >>, new_id' \in RobId, trap' \in BOOLEAN, stage' = "lsu",
           buffer' = buffer, push_q' = push_q, memory' = memory
    PROVE  BufferInv'
  <1>1. /\ FirstIds(rob, p) \in SUBSET RobId
        /\ retired' \in [Addr -> Byte]
        /\ FixedFirst(buffer, FirstIds(rob, p))
        /\ Content(memory, buffer, FirstIds(rob, p), retired')
    BY RetireStep
  <1>2. push_q = << >> /\ Row = buffer
    BY AtCommit
  <1>3. Row' = buffer /\ feedback'.committed = FirstIds(rob, p) /\ feedback'.flush = TRUE
    BY <1>2 DEF Row
  <1>4. Types'
    <2>1. feedback' \in [flush : BOOLEAN, committed : SUBSET RobId]
      BY <1>1
    <2>2. rob' \in Seq(RobEntry) /\ Len(rob') <= RobSize
      BY RobSizeTyped
    <2>3. QED
      BY <1>1, <2>1, <2>2 DEF BufferInv, Types
  <1>5. PassInv'
    BY <1>2, <1>3 DEF PassInv
  <1>6. Consecutive(rob, new_id)' /\ IdsLeft' /\ StoresInOrder(rob)'
    BY DEF Consecutive, IdsLeft, StoresInOrder
  <1>7. PushOpen'
    BY <1>2 DEF PushOpen
  <1>8. FixedFirst(Row, feedback.committed)' /\ Content(memory, Row, feedback.committed, retired)'
    BY <1>1, <1>3
  <1>9. QED
    BY <1>3, <1>4, <1>5, <1>6, <1>7, <1>8 DEF BufferInv

LEMMA CommitRetireOK == ASSUME BufferInv, CommitRetire PROVE BufferInv'
  <1>1. PICK n \in Retirable : /\ RetireFirst(n)
                               /\ feedback' = [flush |-> FALSE, committed |-> CommitIds(n)]
                               /\ rob' = SubSeq(rob, n + 1, Len(rob))
    BY DEF CommitRetire
  <1>2. n \in Finishing /\ stage = "commit" /\ ~ trap
    BY DEF Retirable, CommitRetire
  <1>3. Leaving(rob, n, n) /\ CommitIds(n) = FirstIds(rob, n)
    BY <1>2, FinishingLeaves
  <1>4. /\ FirstIds(rob, n) \in SUBSET RobId
        /\ retired' \in [Addr -> Byte]
        /\ FixedFirst(buffer, FirstIds(rob, n))
        /\ Content(memory, buffer, FirstIds(rob, n), retired')
    BY <1>1, <1>2, <1>3, RetireStep DEF RetireFirst
  <1>5. /\ push_q = << >> /\ buffer \in Seq(BufferItem) /\ Len(buffer) \in Nat
        /\ rob \in Seq(RobEntry) /\ Len(rob) \in Nat /\ Len(rob) <= RobSize /\ new_id \in RobId
        /\ Consecutive(rob, new_id) /\ StoresInOrder(rob) /\ Matches(buffer, {}, rob)
    BY <1>2, AtCommit
  <1>6. UNCHANGED <<new_id, trap, busy, buffer, push_q, memory>> /\ stage' = "lsu"
    BY DEF CommitRetire
  <1>7. Row' = buffer /\ feedback'.committed = FirstIds(rob, n) /\ feedback'.flush = FALSE
    BY <1>1, <1>3, <1>5, <1>6, NoneQueued DEF Row
  <1>8. n \in 0 .. Len(rob)
    BY <1>3 DEF Leaving
  <1>9. /\ rob' \in Seq(RobEntry) /\ Len(rob') = Len(rob) - n
        /\ \A k \in 1 .. Len(rob') : rob'[k] = rob[k + n]
    <2> DEFINE s == SubSeq(rob, n + 1, Len(rob))
    <2>1. Len(s) = Len(rob) - n /\ \A k \in 1 .. Len(rob) - n : s[k] = rob[k + n]
      BY <1>5, <1>8
    <2>2. s \in Seq(RobEntry)
      BY <1>5, <1>8, SubSeqProperties
    <2> HIDE DEF s
    <2>3. rob' = s
      BY <1>1 DEF s
    <2>4. QED
      BY <2>1, <2>2, <2>3
  <1>10. Types'
    <2>1. feedback' \in [flush : BOOLEAN, committed : SUBSET RobId]
      BY <1>1, <1>3, <1>4
    <2>2. Len(rob') <= RobSize
      BY <1>5, <1>8, <1>9, RobSizeTyped
    <2>3. QED
      BY <1>4, <1>6, <1>9, <2>1, <2>2 DEF BufferInv, Types
  <1>11. PassInv'
    BY <1>2, <1>5, <1>6, <1>7 DEF PassInv
  <1>12. \A k \in 1 .. Len(rob') : k + n \in 1 .. Len(rob)
    BY <1>5, <1>8, <1>9
  <1>13. Consecutive(rob, new_id)'
    <2>1. ASSUME NEW k \in 1 .. Len(rob') PROVE rob'[k].id = Before(new_id, Len(rob') + 1 - k)
      <3>1. rob[k + n].id = Before(new_id, Len(rob) + 1 - (k + n))
        BY <1>5, <1>12 DEF Consecutive
      <3>2. Len(rob) + 1 - (k + n) = Len(rob') + 1 - k
        BY <1>5, <1>8, <1>9
      <3>3. QED
        BY <1>9, <3>1, <3>2
    <2>2. QED
      BY <1>6, <2>1 DEF Consecutive
  <1>14. IdsLeft'
    <2>1. ASSUME NEW k \in 1 .. Len(rob'), rob'[k].id \in FirstIds(rob, n) PROVE FALSE
      <3>1. PICK j \in 1 .. n : rob[k + n].id = rob[j].id
        BY <1>9, <2>1 DEF FirstIds
      <3>2. j \in 1 .. Len(rob) /\ k + n \in 1 .. Len(rob)
        BY <1>8, <1>12
      <3>3. k + n = j
        BY <1>5, <3>1, <3>2, Distinct
      <3>4. QED
        BY <1>8, <3>3
    <2>2. QED
      BY <1>7, <2>1 DEF IdsLeft
  <1>15. StoresInOrder(rob)'
    <2>1. ASSUME NEW j \in 1 .. Len(rob'), NEW k \in 1 .. Len(rob'), j < k,
                 IsStore(rob'[j]), Executed(rob'[k])
          PROVE  Executed(rob'[j])
      <3>1. /\ j + n \in 1 .. Len(rob) /\ k + n \in 1 .. Len(rob) /\ j + n < k + n
            /\ rob'[j] = rob[j + n] /\ rob'[k] = rob[k + n]
        BY <1>8, <1>9, <1>12, <2>1
      <3>2. QED
        BY <1>5, <2>1, <3>1 DEF StoresInOrder
    <2>2. QED
      BY <2>1 DEF StoresInOrder
  <1>16. PushOpen'
    BY <1>5, <1>6 DEF PushOpen
  <1>17. FixedFirst(Row, feedback.committed)' /\ Content(memory, Row, feedback.committed, retired)'
    BY <1>4, <1>6, <1>7
  <1>18. Matches(buffer, FirstIds(rob, n), rob')
    BY <1>5, <1>8, <1>9, RetireMatches
  <1>19. QED
    BY <1>7, <1>10, <1>11, <1>13, <1>14, <1>15, <1>16, <1>17, <1>18 DEF BufferInv

LEMMA CommitMispredictOK == ASSUME BufferInv, CommitMispredict PROVE BufferInv'
  <1>1. PICK n \in Retirable \ {0} :
           RetireFirst(n) /\ feedback' = [flush |-> TRUE, committed |-> CommitIds(n)]
    BY DEF CommitMispredict
  <1>2. /\ n \in Finishing /\ stage = "commit" /\ rob' = << >> /\ new_id' = 0 /\ stage' = "lsu"
        /\ UNCHANGED <<trap, busy, buffer, push_q, memory>>
    BY DEF Retirable, CommitMispredict
  <1>3. Leaving(rob, n, n) /\ CommitIds(n) = FirstIds(rob, n)
    BY <1>2, FinishingLeaves
  <1>4. new_id' \in RobId /\ trap' \in BOOLEAN
    BY <1>2, RobSizeTyped DEF RobId, BufferInv, Types
  <1>5. QED
    BY <1>1, <1>2, <1>3, <1>4, FlushStep DEF RetireFirst

LEMMA CommitExceptionOK == ASSUME BufferInv, CommitException PROVE BufferInv'
  <1>1. PICK n \in Finishing : /\ n < Len(rob) /\ Finished(n + 1) /\ ~ IsStore(rob[n + 1])
                               /\ RetireFirst(n)
                               /\ feedback' = [flush |-> TRUE, committed |-> CommitIds(n + 1)]
    BY DEF CommitException
  <1>2. /\ stage = "commit" /\ rob' = << >> /\ trap' = TRUE /\ stage' = "lsu"
        /\ UNCHANGED <<new_id, busy, buffer, push_q, memory>>
    BY DEF CommitException
  <1>3. Leaving(rob, n, n) /\ Len(rob) \in Nat
    BY <1>2, FinishingLeaves, AtCommit
  <1>4. Leaving(rob, n, n + 1)
    <2>1. n \in Nat /\ n + 1 \in 0 .. Len(rob) /\ n \in 0 .. n + 1
      BY <1>1, <1>3 DEF Leaving
    <2>2. ASSUME NEW k \in 1 .. n + 1
          PROVE  rob[k].status = "finished" /\ (IsStore(rob[k]) => k <= n)
      <3>1. CASE k = n + 1
        BY <1>1, <3>1 DEF Finished
      <3>2. CASE k \in 1 .. n
        BY <1>3, <3>2 DEF Leaving
      <3>3. QED
        BY <2>1, <3>1, <3>2
    <2>3. QED
      BY <2>1, <2>2 DEF Leaving
  <1>5. CommitIds(n + 1) = FirstIds(rob, n + 1)
    BY DEF CommitIds, FirstIds
  <1>6. new_id' \in RobId /\ trap' \in BOOLEAN
    BY <1>2 DEF BufferInv, Types
  <1>7. QED
    BY <1>1, <1>2, <1>4, <1>5, <1>6, FlushStep DEF RetireFirst

(* A flush without a retirement, in commit with or without a trap.          *)
LEMMA IdleFlushOK ==
    ASSUME BufferInv, stage = "commit", feedback' = [flush |-> TRUE, committed |-> {}],
           rob' = << >>, new_id' \in RobId, trap' \in BOOLEAN, stage' = "lsu",
           UNCHANGED <<busy, buffer, push_q, memory, retired>>
    PROVE  BufferInv'
  <1>1. /\ push_q = << >> /\ Row = buffer /\ FixedFirst(buffer, {})
        /\ Content(memory, buffer, {}, retired)
    BY AtCommit
  <1>2. Row' = buffer /\ feedback'.committed = {} /\ feedback'.flush = TRUE
    BY <1>1 DEF Row
  <1>3. Types'
    <2>1. feedback' \in [flush : BOOLEAN, committed : SUBSET RobId]
      OBVIOUS
    <2>2. rob' \in Seq(RobEntry) /\ Len(rob') <= RobSize
      BY RobSizeTyped
    <2>3. QED
      BY <2>1, <2>2 DEF BufferInv, Types
  <1>4. PassInv'
    BY <1>1, <1>2 DEF PassInv
  <1>5. Consecutive(rob, new_id)' /\ IdsLeft' /\ StoresInOrder(rob)' /\ PushOpen'
    BY <1>1 DEF Consecutive, IdsLeft, StoresInOrder, PushOpen
  <1>6. FixedFirst(Row, feedback.committed)' /\ Content(memory, Row, feedback.committed, retired)'
    BY <1>1, <1>2
  <1>7. QED
    BY <1>2, <1>3, <1>4, <1>5, <1>6 DEF BufferInv

LEMMA CommitInterruptOK == ASSUME BufferInv, CommitInterrupt PROVE BufferInv'
  <1>1. new_id' \in RobId /\ trap' \in BOOLEAN
    BY DEF CommitInterrupt, BufferInv, Types
  <1>2. QED
    BY <1>1, IdleFlushOK DEF CommitInterrupt

LEMMA CommitWalkBackOK == ASSUME BufferInv, CommitWalkBack PROVE BufferInv'
  <1>1. new_id' \in RobId /\ trap' \in BOOLEAN
    BY RobSizeTyped DEF CommitWalkBack, BufferInv, Types, RobId
  <1>2. rob' = << >>
    BY DEF CommitWalkBack, BufferInv, PassInv
  <1>3. QED
    BY <1>1, <1>2, IdleFlushOK DEF CommitWalkBack

(* The load/store unit.                                                     *)
LEMMA AtLsu ==
    ASSUME BufferInv, stage = "lsu", ~ feedback.flush
    PROVE  /\ push_q = << >> /\ Row = buffer /\ ~ trap
           /\ buffer \in Seq(BufferItem) /\ Len(buffer) \in Nat /\ Len(buffer) <= BufferSize
           /\ rob \in Seq(RobEntry) /\ Len(rob) \in Nat /\ Len(rob) <= RobSize /\ new_id \in RobId
           /\ Consecutive(rob, new_id) /\ StoresInOrder(rob)
           /\ \A k \in 1 .. Len(rob) : rob[k].id \notin feedback.committed
           /\ FixedFirst(buffer, feedback.committed)
           /\ Content(memory, buffer, feedback.committed, retired)
           /\ Matches(buffer, feedback.committed, rob)
  <1>1. push_q = << >> /\ buffer \in Seq(BufferItem) /\ ~ trap
    BY DEF BufferInv, PassInv, Types
  <1>2. Row = buffer
    BY <1>1, NoneQueued DEF Row
  <1>3. Len(buffer) \in Nat /\ Len(buffer) <= BufferSize
    BY <1>1, RobSizeTyped DEF BufferInv, Types
  <1>4. \A k \in 1 .. Len(rob) : rob[k].id \notin feedback.committed
    BY DEF BufferInv, IdsLeft
  <1>5. QED
    BY <1>1, <1>2, <1>3, <1>4 DEF BufferInv, Types

LEMMA LsuFlushOK == ASSUME BufferInv, LsuFlush PROVE BufferInv'
  <1>1. /\ stage = "lsu" /\ feedback.flush /\ stage' = "rename"
        /\ UNCHANGED <<rob, new_id, trap, feedback, buffer, push_q, memory, retired>>
    BY DEF LsuFlush
  <1>2. Row' = Row
    BY <1>1 DEF Row
  <1>3. Types' /\ PassInv'
    BY <1>1 DEF BufferInv, Types, PassInv
  <1>4. IdsLeft' /\ PushOpen'
    BY <1>1 DEF BufferInv, IdsLeft, PushOpen
  <1>5. QED
    BY <1>1, <1>2, <1>3, <1>4 DEF BufferInv

LEMMA ReportedIs ==
    ASSUME rob \in Seq(RobEntry), NEW done \in SUBSET Reportable
    PROVE  Reported(done) \in Seq(RobEntry) /\ Progress(rob, Reported(done), {})
  <1> DEFINE s == Reported(done)
  <1>1. Len(rob) \in Nat /\ DOMAIN s = 1 .. Len(rob)
    BY DEF Reported
  <1>2. ASSUME NEW k \in 1 .. Len(rob)
        PROVE  /\ s[k] \in RobEntry /\ s[k].id = rob[k].id /\ s[k].store = rob[k].store
               /\ Executed(s[k]) <=> Executed(rob[k])
    <2>1. rob[k] \in RobEntry
      OBVIOUS
    <2>2. CASE k \notin done
      BY <2>1, <2>2 DEF Reported
    <2>3. CASE k \in done
      <3> DEFINE e == rob[k]
                 f == [e EXCEPT !.status = "finished"]
      <3>1. s[k] = f
        BY <2>3 DEF Reported
      <3>2. f \in RobEntry /\ f.id = e.id /\ f.store = e.store /\ f.status = "finished"
        BY <2>1 DEF RobEntry
      <3>3. e.status = "executed" \/ ~ IsStore(e)
        BY <2>3 DEF Reportable
      <3> HIDE DEF e, f
      <3>4. Executed(f) <=> Executed(e)
        BY <3>2, <3>3 DEF Executed, IsStore
      <3>5. QED
        BY <3>1, <3>2, <3>4 DEF e
    <2>4. QED
      BY <2>2, <2>3
  <1>3. s \in Seq(RobEntry) /\ Len(s) = Len(rob)
    <2>1. s = [k \in 1 .. Len(rob) |-> s[k]]
      BY DEF Reported
    <2>2. \A k \in 1 .. Len(rob) : s[k] \in RobEntry
      BY <1>2
    <2> HIDE DEF s
    <2>3. QED
      BY <1>1, <2>1, <2>2
  <1> HIDE DEF s
  <1>4. Progress(rob, s, {})
    BY <1>2, <1>3 DEF Progress
  <1>5. QED
    BY <1>3, <1>4 DEF s

(* Only results are reported.                                               *)
LEMMA ReportStep ==
    ASSUME BufferInv, stage = "lsu", ~ feedback.flush, NEW done \in SUBSET Reportable,
           rob' = Reported(done), stage' = "rename",
           UNCHANGED <<new_id, trap, feedback, buffer, push_q, memory, retired>>
    PROVE  BufferInv'
  <1>1. /\ push_q = << >> /\ Row = buffer /\ ~ trap
        /\ buffer \in Seq(BufferItem) /\ Len(buffer) \in Nat
        /\ rob \in Seq(RobEntry) /\ Len(rob) \in Nat /\ Len(rob) <= RobSize
        /\ Consecutive(rob, new_id) /\ StoresInOrder(rob)
        /\ \A k \in 1 .. Len(rob) : rob[k].id \notin feedback.committed
        /\ Matches(buffer, feedback.committed, rob)
    BY AtLsu
  <1>2. rob' \in Seq(RobEntry) /\ Progress(rob, rob', {})
    BY <1>1, ReportedIs
  <1>3. Len(rob') = Len(rob) /\ \A k \in 1 .. Len(rob) : rob'[k].id = rob[k].id
    BY <1>2 DEF Progress
  <1>4. Row' = Row
    BY DEF Row
  <1>5. Types' /\ PassInv'
    BY <1>1, <1>2, <1>3 DEF BufferInv, Types, PassInv
  <1>6. Consecutive(rob, new_id)' /\ StoresInOrder(rob)'
    BY <1>1, <1>2, ProgressKeeps, ReportedInOrder
  <1>7. IdsLeft' /\ PushOpen'
    BY <1>1, <1>3 DEF IdsLeft, PushOpen
  <1>8. Matches(buffer, feedback.committed, rob')
    BY <1>1, <1>2, ReportedMatches
  <1>9. QED
    BY <1>1, <1>4, <1>5, <1>6, <1>7, <1>8 DEF BufferInv

LEMMA LsuHoldOK == ASSUME BufferInv, LsuHold PROVE BufferInv'
  BY ReportStep DEF LsuHold

LEMMA LsuOtherOK == ASSUME BufferInv, LsuOther PROVE BufferInv'
  BY ReportStep DEF LsuOther

LEMMA NextStoreIs ==
    ASSUME rob \in Seq(RobEntry), Waiting # {}
    PROVE  OldestWaiting(rob, NextStore)
  <1>1. Waiting \subseteq Nat
    BY DEF Waiting
  <1>2. \E k \in Waiting : \A j \in Waiting : k <= j
    BY <1>1, Least
  <1>3. NextStore \in Waiting /\ \A j \in Waiting : NextStore <= j
    BY <1>2 DEF NextStore
  <1>4. \A k \in 1 .. Len(rob) : k \in Waiting <=> IsStore(rob[k]) /\ ~ Executed(rob[k])
    BY DEF Waiting, Executed
  <1>5. NextStore \in 1 .. Len(rob)
    BY <1>3 DEF Waiting
  <1>6. QED
    BY <1>3, <1>4, <1>5 DEF OldestWaiting

LEMMA LsuStoreOK == ASSUME BufferInv, LsuStore PROVE BufferInv'
  <1>1. /\ stage = "lsu" /\ ~ feedback.flush /\ Waiting # {} /\ ~ is_full /\ stage' = "rename"
        /\ push_q' = Append(push_q, Item(rob[NextStore]))
        /\ UNCHANGED <<new_id, trap, feedback, buffer, memory, retired>>
    BY DEF LsuStore
  <1>2. PICK done \in SUBSET Reportable : rob' = [Reported(done) EXCEPT ![NextStore].status = "executed"]
    BY DEF LsuStore
  <1>3. /\ push_q = << >> /\ Row = buffer /\ ~ trap
        /\ buffer \in Seq(BufferItem) /\ Len(buffer) \in Nat /\ Len(buffer) <= BufferSize
        /\ rob \in Seq(RobEntry) /\ Len(rob) \in Nat /\ Len(rob) <= RobSize /\ new_id \in RobId
        /\ Consecutive(rob, new_id) /\ StoresInOrder(rob)
        /\ \A k \in 1 .. Len(rob) : rob[k].id \notin feedback.committed
        /\ FixedFirst(buffer, feedback.committed)
        /\ Content(memory, buffer, feedback.committed, retired)
        /\ Matches(buffer, feedback.committed, rob)
    BY <1>1, AtLsu
  <1>4. OldestWaiting(rob, NextStore)
    BY <1>1, <1>3, NextStoreIs
  <1> DEFINE x == NextStore
             i == Item(rob[x])
             s == Reported(done)
  <1>5. x \in 1 .. Len(rob) /\ rob[x] \in RobEntry /\ IsStore(rob[x]) /\ ~ Executed(rob[x])
    BY <1>3, <1>4 DEF OldestWaiting
  <1>6. s \in Seq(RobEntry) /\ Progress(rob, s, {})
    BY <1>3, ReportedIs
  <1> HIDE DEF x, s
  <1>7. rob' \in Seq(RobEntry) /\ Progress(rob, rob', {x})
    <2>1. Len(s) = Len(rob) /\ x \in 1 .. Len(s) /\ s[x] \in RobEntry
      BY <1>5, <1>6 DEF Progress
    <2> DEFINE e == s[x]
               f == [e EXCEPT !.status = "executed"]
    <2>2. f \in RobEntry /\ f.id = e.id /\ f.store = e.store /\ f.status = "executed"
      BY <2>1 DEF RobEntry
    <2>3. rob' = [s EXCEPT ![x] = f]
      BY <1>2 DEF s, x
    <2> HIDE DEF f
    <2>4. rob' \in Seq(RobEntry) /\ Len(rob') = Len(s) /\ rob'[x] = f
      BY <2>1, <2>2, <2>3, <1>6
    <2>5. \A k \in 1 .. Len(s) : k # x => rob'[k] = s[k]
      BY <2>1, <2>3, <1>6
    <2>6. Executed(f)
      <3>1. e.store = rob[x].store
        BY <1>5, <1>6 DEF Progress
      <3>2. QED
        BY <3>1, <1>5, <2>2 DEF Executed, IsStore
    <2>7. \A k \in 1 .. Len(rob) : rob'[k].id = rob[k].id /\ rob'[k].store = rob[k].store
      <3> SUFFICES ASSUME NEW k \in 1 .. Len(rob)
                   PROVE  rob'[k].id = rob[k].id /\ rob'[k].store = rob[k].store
        OBVIOUS
      <3>1. s[k].id = rob[k].id /\ s[k].store = rob[k].store
        BY <1>6 DEF Progress
      <3>2. CASE k = x
        BY <3>1, <3>2, <2>2, <2>4
      <3>3. CASE k # x
        BY <3>1, <3>3, <2>1, <2>5
      <3>4. QED
        BY <3>2, <3>3
    <2>8. \A k \in 1 .. Len(rob) : Executed(rob'[k]) <=> Executed(rob[k]) \/ k \in {x}
      <3> SUFFICES ASSUME NEW k \in 1 .. Len(rob)
                   PROVE  Executed(rob'[k]) <=> Executed(rob[k]) \/ k \in {x}
        OBVIOUS
      <3>1. Executed(s[k]) <=> Executed(rob[k])
        BY <1>6 DEF Progress
      <3>2. CASE k = x
        BY <3>2, <2>4, <2>6
      <3>3. CASE k # x
        BY <3>1, <3>3, <2>1, <2>5
      <3>4. QED
        BY <3>2, <3>3
    <2>9. QED
      BY <2>1, <2>4, <2>7, <2>8 DEF Progress
  <1>8. i \in BufferItem /\ i.rob_id = rob[x].id /\ i.store = rob[x].store /\ i.committed = FALSE
    <2>1. rob[x].id \in RobId /\ rob[x].store \in Store \cup {NoStore}
      BY <1>5, RobEntryIs
    <2>2. rob[x].store # NoStore
      BY <1>5 DEF IsStore, NoStore
    <2>3. QED
      BY <2>1, <2>2 DEF Item, BufferItem
  <1>9. ~ Fixed(i, feedback.committed) /\ Same(i, rob[x])
    <2> HIDE DEF i
    <2>1. QED
      BY <1>3, <1>5, <1>8 DEF Fixed, Same
  <1>10. push_q' = Append(<< >>, i)
    BY <1>1, <1>3 DEF x
  <1> HIDE DEF i
  <1>11. push_q' = <<i>> /\ push_q' \in Seq(BufferItem) /\ Len(push_q') = 1 /\ push_q'[1] = i
    BY <1>8, <1>10
  <1>12. Queued(buffer, Row', i)
    <2>1. Row' = buffer \o <<i>>
      BY <1>1, <1>11 DEF Row
    <2>2. /\ Len(buffer \o <<i>>) = Len(buffer) + 1 /\ (buffer \o <<i>>)[Len(buffer) + 1] = i
          /\ \A k \in 1 .. Len(buffer) : (buffer \o <<i>>)[k] = buffer[k]
      BY <1>3, <1>8
    <2>3. QED
      BY <2>1, <2>2 DEF Queued
  <1>13. Types'
    <2>1. Len(rob') <= RobSize
      BY <1>3, <1>7 DEF Progress
    <2>2. Len(buffer) + Len(push_q') <= BufferSize
      BY <1>1, <1>3, <1>11, RobSizeTyped DEF is_full
    <2>3. QED
      BY <1>1, <1>7, <1>11, <2>1, <2>2 DEF BufferInv, Types
  <1>14. PassInv'
    BY <1>1, <1>3 DEF PassInv
  <1>15. Consecutive(rob, new_id)' /\ StoresInOrder(rob)'
    <2>1. Consecutive(rob', new_id)
      BY <1>3, <1>7, ProgressKeeps
    <2>2. StoresInOrder(rob')
      BY <1>3, <1>4, <1>7, ExecutedInOrder DEF x
    <2>3. QED
      BY <1>1, <2>1, <2>2
  <1>16. IdsLeft'
    BY <1>1, <1>3, <1>7 DEF IdsLeft, Progress
  <1>17. PushOpen'
    BY <1>1, <1>9, <1>11 DEF PushOpen
  <1>18. FixedFirst(Row', feedback.committed) /\ Content(memory, Row', feedback.committed, retired)
    BY <1>3, <1>9, <1>12, QueuedKeeps
  <1>19. Matches(Row', feedback.committed, rob')
    BY <1>3, <1>4, <1>7, <1>9, <1>12, ExecutedMatches DEF x
  <1>20. QED
    BY <1>1, <1>13, <1>14, <1>15, <1>16, <1>17, <1>18, <1>19 DEF BufferInv

(* Rename.                                                                  *)
LEMMA RenameOK == ASSUME BufferInv, Rename PROVE BufferInv'
  <1>1. /\ stage = "rename" /\ ~ feedback.flush /\ Len(rob) < RobSize /\ new_id' = NextId(new_id)
        /\ stage' = "store"
        /\ UNCHANGED <<trap, feedback, busy, buffer, push_q, memory, retired>>
    BY DEF Rename
  <1>2. PICK s \in Store \cup {NoStore} :
           rob' = Append(rob, [id |-> new_id, store |-> s, status |-> "waiting"])
    BY DEF Rename
  <1> DEFINE e == [id |-> new_id, store |-> s, status |-> "waiting"]
  <1>3. /\ rob \in Seq(RobEntry) /\ Len(rob) \in Nat /\ new_id \in RobId
        /\ Consecutive(rob, new_id) /\ StoresInOrder(rob) /\ IdsLeft
    BY DEF BufferInv, Types
  <1>4. e \in RobEntry /\ e.id = new_id /\ e.status = "waiting" /\ ~ Executed(e)
    BY <1>3 DEF RobEntry, Executed
  <1>5. rob' = Append(rob, e)
    BY <1>2
  <1> HIDE DEF e
  <1>6. rob' \in Seq(RobEntry) /\ Entered(rob, rob', e)
    BY <1>3, <1>4, <1>5 DEF Entered
  <1>7. /\ Len(rob') = Len(rob) + 1 /\ rob'[Len(rob) + 1] = e
        /\ \A k \in 1 .. Len(rob) : rob'[k] = rob[k]
    BY <1>6 DEF Entered
  <1>8. Consecutive(rob, new_id)'
    BY <1>1, <1>3, <1>4, <1>6, EnteredConsecutive
  <1>9. StoresInOrder(rob)'
    BY <1>3, <1>4, <1>6, EnteredKeeps
  <1>10. Row' = Row /\ Len(Row) \in Nat
    <2>1. buffer \in Seq(BufferItem) /\ push_q \in Seq(BufferItem)
      BY DEF BufferInv, Types
    <2>2. buffer \o push_q \in Seq(BufferItem)
      BY <2>1
    <2>3. QED
      BY <1>1, <2>2 DEF Row
  <1>11. Matches(Row, feedback.committed, rob')
    <2>1. Matches(Row, feedback.committed, rob)
      BY <1>1 DEF BufferInv
    <2>2. QED
      BY <1>3, <1>4, <1>6, <1>10, <2>1, EnteredKeeps
  <1>12. IdsLeft'
    <2> SUFFICES ASSUME NEW k \in 1 .. Len(rob'), rob'[k].status # "waiting"
                 PROVE  rob'[k].id \notin feedback.committed
      BY <1>1 DEF IdsLeft
    <2>1. k # Len(rob) + 1
      BY <1>4, <1>7
    <2>2. k \in 1 .. Len(rob) /\ rob'[k] = rob[k]
      BY <1>3, <1>7, <2>1
    <2>3. QED
      BY <1>3, <2>2 DEF IdsLeft
  <1>13. Types'
    <2>1. new_id' \in RobId
      BY <1>1, <1>3, NextIdIs
    <2>2. Len(rob') <= RobSize
      BY <1>1, <1>3, <1>7, RobSizeTyped
    <2>3. QED
      BY <1>1, <1>6, <2>1, <2>2 DEF BufferInv, Types
  <1>14. PassInv' /\ PushOpen'
    BY <1>1 DEF BufferInv, PassInv, PushOpen
  <1>15. QED
    BY <1>1, <1>8, <1>9, <1>10, <1>11, <1>12, <1>13, <1>14 DEF BufferInv

LEMMA RenameNoneOK == ASSUME BufferInv, RenameNone PROVE BufferInv'
  <1>1. /\ stage = "rename" /\ stage' = "store"
        /\ UNCHANGED <<rob, new_id, trap, feedback, buffer, push_q, memory, retired>>
    BY DEF RenameNone
  <1>2. Row' = Row
    BY <1>1 DEF Row
  <1>3. Types' /\ PassInv'
    BY <1>1 DEF BufferInv, Types, PassInv
  <1>4. IdsLeft' /\ PushOpen'
    BY <1>1 DEF BufferInv, IdsLeft, PushOpen
  <1>5. QED
    BY <1>1, <1>2, <1>3, <1>4 DEF BufferInv

(* The buffer's own step.                                                   *)
LEMMA Joined ==
    ASSUME NEW s \in Seq(BufferItem), NEW t \in Seq(BufferItem)
    PROVE  /\ s \o t \in Seq(BufferItem) /\ Len(s \o t) = Len(s) + Len(t)
           /\ \A k \in 1 .. Len(s) : (s \o t)[k] = s[k]
           /\ \A k \in 1 .. Len(t) : (s \o t)[k + Len(s)] = t[k]
  OBVIOUS

LEMMA MarkIs ==
    ASSUME NEW b \in Seq(BufferItem)
    PROVE  /\ Mark(b) \in Seq(BufferItem) /\ Len(Mark(b)) = Len(b)
           /\ \A k \in 1 .. Len(b) : /\ Mark(b)[k].rob_id = b[k].rob_id /\ Mark(b)[k].store = b[k].store
                                     /\ Mark(b)[k].committed <=> Fixed(b[k], feedback.committed)
  <1> DEFINE s == Mark(b)
  <1>1. Len(b) \in Nat /\ DOMAIN s = 1 .. Len(b)
    BY DEF Mark
  <1>2. ASSUME NEW k \in 1 .. Len(b)
        PROVE  /\ s[k] \in BufferItem /\ s[k].rob_id = b[k].rob_id /\ s[k].store = b[k].store
               /\ s[k].committed <=> Fixed(b[k], feedback.committed)
    <2> DEFINE e == b[k]
               f == [e EXCEPT !.committed = TRUE]
    <2>1. e \in BufferItem
      OBVIOUS
    <2>2. f \in BufferItem /\ f.rob_id = e.rob_id /\ f.store = e.store /\ f.committed = TRUE
      BY <2>1 DEF BufferItem
    <2>3. s[k] = IF e.rob_id \in feedback.committed THEN f ELSE e
      BY DEF Mark
    <2> HIDE DEF f
    <2>4. CASE e.rob_id \in feedback.committed
      BY <2>2, <2>3, <2>4 DEF Fixed
    <2>5. CASE e.rob_id \notin feedback.committed
      BY <2>1, <2>3, <2>5 DEF Fixed
    <2>6. QED
      BY <2>4, <2>5
  <1>3. s \in Seq(BufferItem) /\ Len(s) = Len(b)
    <2>1. s = [k \in 1 .. Len(b) |-> s[k]]
      BY DEF Mark
    <2>2. \A k \in 1 .. Len(b) : s[k] \in BufferItem
      BY <1>2
    <2> HIDE DEF s
    <2>3. QED
      BY <1>1, <2>1, <2>2
  <1>4. QED
    BY <1>2, <1>3

LEMMA StoreFlushOK == ASSUME BufferInv, StoreFlush PROVE BufferInv'
  <1> DEFINE c == feedback.committed
  <1>1. /\ stage = "store" /\ feedback.flush /\ buffer' = Mark(Truncated) /\ push_q' = << >>
        /\ feedback' = NoFeedback /\ stage' = "commit"
        /\ UNCHANGED <<rob, new_id, trap, busy, memory, retired>>
    BY DEF StoreFlush
  <1>2. /\ buffer \in Seq(BufferItem) /\ push_q = << >> /\ rob = << >> /\ new_id \in RobId
        /\ Len(buffer) \in Nat /\ Len(buffer) <= BufferSize
    <2>1. buffer \in Seq(BufferItem) /\ push_q = << >> /\ rob = << >> /\ new_id \in RobId
      BY <1>1 DEF BufferInv, Types, PassInv
    <2>2. Len(push_q) = 0 /\ Len(buffer) \in Nat /\ Len(buffer) + Len(push_q) <= BufferSize
      BY <2>1 DEF BufferInv, Types
    <2>3. QED
      BY <2>1, <2>2, RobSizeTyped
  <1>3. Row = buffer
    BY <1>2, NoneQueued DEF Row
  <1>4. FixedFirst(buffer, c) /\ Content(memory, buffer, c, retired)
    BY <1>3 DEF BufferInv
  <1>5. Kept = {n \in 0 .. Len(buffer) : \A k \in 1 .. n : Fixed(buffer[k], c)}
    BY DEF Kept, Fixed
  <1>6. PICK t \in Seq(BufferItem) :
           /\ t = SubSeq(buffer, 1, Newest(Kept))
           /\ Len(t) \in 0 .. Len(buffer) /\ \A k \in 1 .. Len(t) : t[k] = buffer[k]
           /\ \A k \in 1 .. Len(buffer) : Fixed(buffer[k], c) <=> k \in 1 .. Len(t)
    <2> HIDE DEF c
    <2>1. QED
      BY <1>2, <1>4, <1>5, FlushKeeps
  <1>7. /\ Len(t) \in 0 .. Len(buffer) /\ \A k \in 1 .. Len(t) : t[k] = buffer[k]
        /\ \A k \in 1 .. Len(buffer) : Fixed(buffer[k], c) <=> k \in 1 .. Len(t)
    BY <1>6
  <1>8. buffer' = Mark(t)
    BY <1>1, <1>6 DEF Truncated
  <1>9. /\ buffer' \in Seq(BufferItem) /\ Len(buffer') = Len(t)
        /\ \A k \in 1 .. Len(t) : /\ buffer'[k].rob_id = t[k].rob_id /\ buffer'[k].store = t[k].store
                                  /\ buffer'[k].committed <=> Fixed(t[k], c)
    BY <1>8, MarkIs
  <1>10. Row' = buffer' /\ feedback'.committed = {} /\ feedback'.flush = FALSE
    BY <1>1, <1>9, NoneQueued DEF Row, NoFeedback
  <1>11. \A k \in 1 .. Len(t) : Fixed(t[k], c) /\ Fixed(buffer'[k], {})
    BY <1>2, <1>7, <1>9 DEF Fixed
  <1>12. Content(memory, t, c, retired)
    BY <1>2, <1>4, <1>7, PrefixContent
  <1>13. Marked(t, c, buffer', {})
    BY <1>9, <1>11 DEF Marked
  <1>14. Content(memory, buffer', {}, retired)
    BY <1>2, <1>7, <1>12, <1>13, MarkedKeeps
  <1>15. FixedFirst(buffer', {}) /\ Matches(buffer', {}, << >>)
    BY <1>9, <1>11 DEF FixedFirst, Matches
  <1>16. Types'
    <2>1. feedback' \in [flush : BOOLEAN, committed : SUBSET RobId]
      BY <1>1 DEF NoFeedback
    <2>2. push_q' \in Seq(BufferItem) /\ Len(push_q') = 0
      BY <1>1
    <2>3. Len(buffer') + Len(push_q') <= BufferSize
      BY <1>2, <1>7, <1>9, <2>2, RobSizeTyped
    <2>4. /\ stage' \in {"commit", "lsu", "rename", "store"} /\ trap' \in BOOLEAN /\ new_id' \in RobId
          /\ memory' \in [Addr -> Byte] /\ retired' \in [Addr -> Byte]
          /\ rob' \in Seq(RobEntry) /\ Len(rob') <= RobSize
      BY <1>1 DEF BufferInv, Types
    <2>5. QED
      BY <1>9, <2>1, <2>2, <2>3, <2>4 DEF Types
  <1>17. PassInv'
    BY <1>1, <1>2 DEF PassInv
  <1>18. Consecutive(rob, new_id)' /\ IdsLeft' /\ StoresInOrder(rob)' /\ PushOpen'
    BY <1>1, <1>2 DEF Consecutive, IdsLeft, StoresInOrder, PushOpen
  <1>19. rob' = << >> /\ memory' = memory /\ retired' = retired
    BY <1>1, <1>2
  <1>20. QED
    BY <1>10, <1>14, <1>15, <1>16, <1>17, <1>18, <1>19 DEF BufferInv

LEMMA StoreRunOK == ASSUME BufferInv, StoreRun PROVE BufferInv'
  <1> DEFINE c == feedback.committed
             b == IF WriteBack THEN Tail(buffer) ELSE buffer
             q == b \o push_q
  <1>1. /\ stage = "store" /\ ~ feedback.flush /\ buffer' = Pushed(Mark(b)) /\ push_q' = << >>
        /\ memory' = IF WriteBack THEN Write(memory, Head(buffer).store) ELSE memory
        /\ feedback' = NoFeedback /\ stage' = "commit"
        /\ UNCHANGED <<rob, new_id, trap, busy, retired>>
    BY DEF StoreRun
  <1>2. /\ buffer \in Seq(BufferItem) /\ push_q \in Seq(BufferItem)
        /\ Len(buffer) \in Nat /\ Len(push_q) \in Nat /\ Len(buffer) + Len(push_q) <= BufferSize
        /\ memory \in [Addr -> Byte] /\ retired \in [Addr -> Byte]
    BY DEF BufferInv, Types
  <1>3. /\ FixedFirst(Row, c) /\ Content(memory, Row, c, retired) /\ Matches(Row, c, rob) /\ PushOpen
        /\ Consecutive(rob, new_id) /\ StoresInOrder(rob)
    BY <1>1 DEF BufferInv
  <1>4. Row = buffer \o push_q /\ Len(Row) = Len(buffer) + Len(push_q)
    BY <1>2 DEF Row
  <1>5. /\ b \in Seq(BufferItem) /\ Len(b) \in Nat /\ Len(b) <= Len(buffer)
        /\ memory' \in [Addr -> Byte]
        /\ FixedFirst(q, c) /\ Content(memory', q, c, retired) /\ Matches(q, c, rob)
    <2>1. CASE ~ WriteBack
      <3>1. b = buffer /\ memory' = memory /\ q = Row
        BY <1>1, <1>4, <2>1
      <3> HIDE DEF b, q, c
      <3>2. QED
        BY <1>2, <1>3, <3>1
    <2>2. CASE WriteBack
      <3>1. buffer # << >> /\ Head(buffer).committed
        BY <2>2 DEF WriteBack
      <3>2. /\ Tail(buffer) \in Seq(BufferItem) /\ Len(Tail(buffer)) = Len(buffer) - 1
            /\ Len(buffer) > 0 /\ Head(buffer) = buffer[1]
            /\ \A k \in 1 .. Len(buffer) - 1 : Tail(buffer)[k] = buffer[k + 1]
        BY <1>2, <3>1
      <3>3. b = Tail(buffer) /\ memory' = Write(memory, buffer[1].store)
        BY <1>1, <2>2, <3>2
      <3>4. b \in Seq(BufferItem) /\ Len(b) = Len(buffer) - 1 /\ \A k \in 1 .. Len(b) : b[k] = buffer[k + 1]
        BY <3>2, <3>3
      <3> HIDE DEF b
      <3>5. Len(q) = Len(b) + Len(push_q)
        BY <1>2, <3>4, Joined
      <3>6. \A k \in 1 .. Len(q) : q[k] = Row[k + 1]
        <4> SUFFICES ASSUME NEW k \in 1 .. Len(q) PROVE q[k] = Row[k + 1]
          OBVIOUS
        <4>1. CASE k <= Len(b)
          <5>1. q[k] = b[k]
            BY <1>2, <3>4, <3>5, <4>1
          <5>2. (buffer \o push_q)[k + 1] = buffer[k + 1]
            BY <1>2, <3>4, <3>5, <4>1
          <5>3. b[k] = buffer[k + 1]
            BY <3>4, <4>1, <3>2
          <5>4. QED
            BY <1>4, <5>1, <5>2, <5>3
        <4>2. CASE k > Len(b)
          <5>1. q[k] = push_q[k - Len(b)]
            BY <1>2, <3>4, <3>5, <4>2
          <5>2. (buffer \o push_q)[k + 1] = push_q[k + 1 - Len(buffer)]
            BY <1>2, <3>4, <3>5, <4>2
          <5>3. k - Len(b) = k + 1 - Len(buffer)
            BY <1>2, <3>4
          <5>4. QED
            BY <1>4, <5>1, <5>2, <5>3
        <4>3. QED
          BY <4>1, <4>2, <1>2, <3>4
      <3>7. Row[1] = buffer[1] /\ Fixed(Row[1], c)
        <4>1. (buffer \o push_q)[1] = buffer[1]
          BY <1>2, <3>2
        <4>2. QED
          BY <1>4, <3>1, <3>2, <4>1 DEF Fixed
      <3>8. Len(Row) \in Nat \ {0} /\ Len(q) = Len(Row) - 1
        BY <1>2, <1>4, <3>2, <3>4, <3>5
      <3> HIDE DEF q, c
      <3>9. FixedFirst(q, c) /\ Content(Write(memory, Row[1].store), q, c, retired) /\ Matches(q, c, rob)
        BY <1>3, <3>6, <3>7, <3>8, TailKeeps
      <3>10. memory' \in [Addr -> Byte]
        <4>1. buffer[1] \in BufferItem
          BY <1>2, <3>2
        <4>2. buffer[1].store \in Store
          BY <4>1 DEF BufferItem
        <4> DEFINE s == buffer[1].store
        <4>3. s.addr \in Nat /\ s.size \in {1, 2, 4} /\ s.data \in [0 .. s.size - 1 -> Byte]
          BY <4>2, StoreTyped
        <4>4. memory' = Write(memory, s)
          BY <3>3
        <4> HIDE DEF s
        <4>5. ASSUME NEW a \in Addr, Covers(s, a) PROVE s.data[a - s.addr] \in Byte
          <5>1. a \in Nat
            BY AddrTyped
          <5>2. a - s.addr \in 0 .. s.size - 1
            BY <4>3, <4>5, <5>1 DEF Covers
          <5>3. QED
            BY <4>3, <5>2
        <4>6. QED
          BY <1>2, <4>4, <4>5 DEF Write
      <3>11. Len(b) \in Nat /\ Len(b) <= Len(buffer)
        BY <1>2, <3>2, <3>4
      <3>12. QED
        BY <3>3, <3>4, <3>7, <3>9, <3>10, <3>11
    <2>3. QED
      BY <2>1, <2>2
  <1> HIDE DEF b
  <1> DEFINE d == Mark(b)
  <1>6. /\ d \in Seq(BufferItem) /\ Len(d) = Len(b)
        /\ \A k \in 1 .. Len(b) : /\ d[k].rob_id = b[k].rob_id /\ d[k].store = b[k].store
                                  /\ d[k].committed <=> Fixed(b[k], c)
    BY <1>5, MarkIs
  <1> HIDE DEF d
  <1>7. buffer' = d \o push_q
    <2>1. Minimum(Len(push_q), BufferSize - Len(d)) = Len(push_q)
      <3>1. /\ Len(d) = Len(b) /\ Len(b) \in Nat /\ Len(push_q) \in Nat
            /\ Len(b) + Len(push_q) <= BufferSize
        BY <1>2, <1>5, <1>6, RobSizeTyped
      <3>2. QED
        BY <3>1, RobSizeTyped DEF Minimum
    <2>2. SubSeq(push_q, 1, Len(push_q)) = push_q
      BY <1>2
    <2>3. buffer' = Pushed(d)
      BY <1>1 DEF d
    <2>4. QED
      BY <2>1, <2>2, <2>3 DEF Pushed
  <1>8. /\ d \o push_q \in Seq(BufferItem) /\ Len(d \o push_q) = Len(b) + Len(push_q)
        /\ \A k \in 1 .. Len(b) : (d \o push_q)[k] = d[k]
        /\ \A k \in 1 .. Len(push_q) : (d \o push_q)[k + Len(b)] = push_q[k]
    <2>1. Len(d) = Len(b)
      BY <1>6
    <2>2. d \in Seq(BufferItem) /\ push_q \in Seq(BufferItem)
      BY <1>2, <1>6
    <2>3. /\ d \o push_q \in Seq(BufferItem) /\ Len(d \o push_q) = Len(d) + Len(push_q)
          /\ \A k \in 1 .. Len(d) : (d \o push_q)[k] = d[k]
          /\ \A k \in 1 .. Len(push_q) : (d \o push_q)[k + Len(d)] = push_q[k]
      BY <2>2, Joined
    <2>4. QED
      BY <2>1, <2>3
  <1>9. /\ Len(q) = Len(b) + Len(push_q)
        /\ \A k \in 1 .. Len(b) : q[k] = b[k]
        /\ \A k \in 1 .. Len(push_q) : q[k + Len(b)] = push_q[k]
    BY <1>2, <1>5
  <1> HIDE DEF q
  <1>10. Marked(q, c, buffer', {})
    <2>1. ASSUME NEW k \in 1 .. Len(q)
          PROVE  /\ buffer'[k].rob_id = q[k].rob_id /\ buffer'[k].store = q[k].store
                 /\ Fixed(buffer'[k], {}) <=> Fixed(q[k], c)
      <3>1. CASE k \in 1 .. Len(b)
        <4>1. buffer'[k] = d[k] /\ q[k] = b[k]
          BY <1>7, <1>8, <1>9, <3>1
        <4>2. QED
          BY <1>6, <3>1, <4>1 DEF Fixed
      <3>2. CASE k \notin 1 .. Len(b)
        <4>1. k - Len(b) \in 1 .. Len(push_q) /\ (k - Len(b)) + Len(b) = k
          BY <1>2, <1>5, <1>9, <3>2
        <4>2. buffer'[k] = push_q[k - Len(b)] /\ q[k] = push_q[k - Len(b)]
          BY <1>7, <1>8, <1>9, <4>1
        <4>3. ~ Fixed(push_q[k - Len(b)], c)
          BY <1>3, <4>1 DEF PushOpen
        <4>4. QED
          BY <4>2, <4>3 DEF Fixed
      <3>3. QED
        BY <3>1, <3>2
    <2>2. Len(buffer') = Len(q)
      BY <1>7, <1>8, <1>9
    <2>3. QED
      BY <2>1, <2>2 DEF Marked
  <1>11. FixedFirst(buffer', {}) /\ Content(memory', buffer', {}, retired) /\ Matches(buffer', {}, rob)
    <2>1. Len(q) \in Nat
      BY <1>2, <1>5, <1>9
    <2> HIDE DEF c
    <2>2. QED
      BY <1>5, <1>10, <2>1, MarkedKeeps
  <1>12. buffer' \in Seq(BufferItem) /\ Len(buffer') <= BufferSize /\ Len(buffer') \in Nat
    BY <1>2, <1>5, <1>7, <1>8, RobSizeTyped
  <1>13. Row' = buffer' /\ feedback'.committed = {} /\ feedback'.flush = FALSE
    BY <1>1, <1>12, NoneQueued DEF Row, NoFeedback
  <1>14. Types'
    <2>1. feedback' \in [flush : BOOLEAN, committed : SUBSET RobId]
      BY <1>1 DEF NoFeedback
    <2>2. push_q' \in Seq(BufferItem) /\ Len(push_q') = 0
      BY <1>1
    <2>3. Len(buffer') + Len(push_q') <= BufferSize
      BY <1>12, <2>2, RobSizeTyped
    <2>4. /\ stage' \in {"commit", "lsu", "rename", "store"} /\ trap' \in BOOLEAN /\ new_id' \in RobId
          /\ retired' \in [Addr -> Byte] /\ rob' \in Seq(RobEntry) /\ Len(rob') <= RobSize
      BY <1>1 DEF BufferInv, Types
    <2>5. QED
      BY <1>5, <1>12, <2>1, <2>2, <2>3, <2>4 DEF Types
  <1>15. PassInv'
    <2>1. trap' => rob' = << >>
      BY <1>1 DEF PassInv, BufferInv
    <2>2. QED
      BY <1>1, <1>13, <2>1 DEF PassInv
  <1>16. IdsLeft' /\ PushOpen'
    BY <1>1, <1>13 DEF IdsLeft, PushOpen
  <1>17. Consecutive(rob, new_id)' /\ StoresInOrder(rob)'
    BY <1>1, <1>3
  <1>18. rob' = rob /\ retired' = retired
    BY <1>1
  <1>19. QED
    BY <1>11, <1>13, <1>14, <1>15, <1>16, <1>17, <1>18 DEF BufferInv

LEMMA StepOK == ASSUME BufferInv, [Next]_vars PROVE BufferInv'
  <1>1. CASE Commit
    BY <1>1, CommitRetireOK, CommitMispredictOK, CommitExceptionOK, CommitInterruptOK,
       CommitWalkBackOK DEF Commit
  <1>2. CASE Lsu
    BY <1>2, LsuFlushOK, LsuStoreOK, LsuHoldOK, LsuOtherOK DEF Lsu
  <1>3. CASE Rename \/ RenameNone
    BY <1>3, RenameOK, RenameNoneOK
  <1>4. CASE StoreStep
    BY <1>4, StoreFlushOK, StoreRunOK DEF StoreStep
  <1>5. CASE UNCHANGED vars
    BY <1>5 DEF vars, BufferInv, Types, PassInv, IdsLeft, PushOpen, Row
  <1>6. QED
    BY <1>1, <1>2, <1>3, <1>4, <1>5 DEF Next

(* The inductive invariant holds of every behaviour of the specification.   *)
LEMMA Inductive == Spec => []BufferInv
  <1>1. Init => BufferInv
    BY InitOK
  <1>2. BufferInv /\ [Next]_vars => BufferInv'
    BY StepOK
  <1>3. QED
    BY <1>1, <1>2, PTL DEF Spec

-----------------------------------------------------------------------------
(* Memory and the committed entries of the buffer make up the retired state *)
(* at the start of every pass: whatever flushes, id reuse and full buffers  *)
(* a run goes through, no retired store is lost and no other one reaches    *)
(* memory (store_buffer.h run and sync, commit.cpp).                        *)
LEMMA RetiredKept == BufferInv => RetiredStoresKept
  <1> SUFFICES ASSUME BufferInv, stage = "commit"
               PROVE  WriteAll(memory, CommittedStores(buffer)) = retired
    BY DEF RetiredStoresKept
  <1>1. Content(memory, buffer, {}, retired)
    BY AtCommit
  <1>2. FixedStores(buffer, {}) = CommittedStores(buffer)
    BY DEF FixedStores, CommittedStores, Fixed
  <1>3. retired \in [Addr -> Byte]
    BY DEF BufferInv, Types
  <1>4. \A a \in Addr : retired[a] = ByteOf(memory, CommittedStores(buffer), a)
    BY <1>1, <1>2 DEF Content
  <1>5. QED
    BY <1>3, <1>4 DEF WriteAll

(* store_buffer::run and sync with commit's announcements: for every memory,*)
(* every size of the buffer and of the ROB, retired stores are kept through *)
(* every flush and speculative ones never reach memory.                     *)
THEOREM RetiredSafe == Spec => []RetiredStoresKept
  <1>1. Spec => []BufferInv
    BY Inductive
  <1>2. BufferInv => RetiredStoresKept
    BY RetiredKept
  <1>3. QED
    BY <1>1, <1>2, PTL

(* The entries that are not committed are exactly the executed stores of    *)
(* the ROB, in program order and behind the committed ones; none is dropped *)
(* when the buffer is full (store_buffer.h push and sync, lsu.cpp).         *)
LEMMA BufferMatches == BufferInv => BufferMatchesRob
  <1> SUFFICES ASSUME BufferInv, stage = "commit" PROVE BufferMatchesRob
    BY DEF BufferMatchesRob
  <1>1. FixedFirst(buffer, {}) /\ Matches(buffer, {}, rob)
    BY AtCommit
  <1>2. \A i : Fixed(i, {}) <=> i.committed
    BY DEF Fixed
  <1>3. /\ \A k \in 1 .. Len(buffer) : ~ buffer[k].committed =>
              \E j \in 1 .. Len(rob) : Executed(rob[j]) /\ Same(buffer[k], rob[j])
        /\ \A j \in 1 .. Len(rob) : Executed(rob[j]) =>
              \E k \in 1 .. Len(buffer) : ~ buffer[k].committed /\ Same(buffer[k], rob[j])
    BY <1>1, <1>2 DEF Matches
  <1>4. \A k1, k2 \in 1 .. Len(buffer), j1, j2 \in 1 .. Len(rob) :
           /\ ~ buffer[k1].committed /\ ~ buffer[k2].committed
           /\ Executed(rob[j1]) /\ Executed(rob[j2])
           /\ Same(buffer[k1], rob[j1]) /\ Same(buffer[k2], rob[j2])
           => (k1 < k2 <=> j1 < j2)
    BY <1>1, <1>2 DEF Matches
  <1>5. \A j, k \in 1 .. Len(buffer) : j < k /\ buffer[k].committed => buffer[j].committed
    BY <1>1, <1>2 DEF FixedFirst
  <1>6. QED
    BY <1>3, <1>4, <1>5 DEF BufferMatchesRob

(* The buffer holds exactly the executed stores of the ROB, in program      *)
(* order, behind the committed ones, for every size: no push is dropped,    *)
(* and no entry survives the instruction it belongs to.                     *)
THEOREM BufferSafe == Spec => []BufferMatchesRob
  <1>1. Spec => []BufferInv
    BY Inductive
  <1>2. BufferInv => BufferMatchesRob
    BY BufferMatches
  <1>3. QED
    BY <1>1, <1>2, PTL

(* What a load sees.                                                        *)
LEMMA OverlayIs ==
    ASSUME NEW s \in Store, NEW addr \in Nat, NEW size \in Nat, NEW b \in 0 .. size - 1
    PROVE  /\ b \in DOMAIN Overlay(addr, size, s) <=> Covers(s, addr + b)
           /\ Covers(s, addr + b) => Overlay(addr, size, s)[b] = s.data[addr + b - s.addr]
  <1>1. s.addr \in Nat /\ s.size \in {1, 2, 4}
    BY StoreTyped
  <1>2. CASE s.addr >= addr /\ s.addr < addr + size
    <2> DEFINE offset == s.addr - addr
               length == Minimum(s.size, addr + size - s.addr)
    <2>1. Overlay(addr, size, s) = [x \in offset .. offset + length - 1 |-> s.data[x - offset]]
      BY <1>2 DEF Overlay
    <2>2. b \in offset .. offset + length - 1 <=> Covers(s, addr + b)
      BY <1>1, <1>2 DEF Minimum, Covers
    <2>3. b - offset = addr + b - s.addr
      BY <1>1
    <2> HIDE DEF offset, length
    <2>4. QED
      BY <2>1, <2>2, <2>3
  <1>3. CASE s.addr < addr /\ s.addr + s.size > addr
    <2> DEFINE offset == addr - s.addr
               length == Minimum(size, s.addr + s.size - addr)
    <2>1. Overlay(addr, size, s) = [x \in 0 .. length - 1 |-> s.data[x + offset]]
      BY <1>1, <1>3 DEF Overlay
    <2>2. b \in 0 .. length - 1 <=> Covers(s, addr + b)
      BY <1>1, <1>3 DEF Minimum, Covers
    <2>3. b + offset = addr + b - s.addr
      BY <1>1
    <2> HIDE DEF offset, length
    <2>4. QED
      BY <2>1, <2>2, <2>3
  <1>4. CASE /\ ~ (s.addr >= addr /\ s.addr < addr + size)
             /\ ~ (s.addr < addr /\ s.addr + s.size > addr)
    <2>1. Overlay(addr, size, s) = << >>
      BY <1>4 DEF Overlay
    <2>2. ~ Covers(s, addr + b)
      BY <1>1, <1>4 DEF Covers
    <2>3. b \notin DOMAIN << >>
      OBVIOUS
    <2>4. QED
      BY <2>1, <2>2, <2>3
  <1>5. QED
    BY <1>2, <1>3, <1>4

(* All the items of the buffer, fixed or not.                               *)
LEMMA LoadedByte ==
    ASSUME buffer \in Seq(BufferItem), NEW x \in Access, NEW b \in 0 .. x.size - 1
    PROVE  /\ x.addr + b \in Addr
           /\ get_feedback_value(x.addr, x.size)[b]
                = ByteOf(memory, FixedStores(buffer, RobId), x.addr + b)
  <1> DEFINE a == x.addr + b
             hits == Overlapping(x.addr, x.size, b)
             o(k) == Overlay(x.addr, x.size, buffer[k].store)
  <1>1. x.addr \in Addr /\ x.addr \in Nat /\ x.size \in {1, 2, 4} /\ x.addr + x.size - 1 \in Addr
    BY AddrAssumption DEF Access
  <1>2. a \in Addr
    <2>1. a \in Nat /\ x.addr <= a /\ a <= x.addr + x.size - 1
      BY <1>1
    <2>2. QED
      BY <1>1, <2>1, AddrTyped
  <1>3. \A k \in 1 .. Len(buffer) : buffer[k].store \in Store /\ Fixed(buffer[k], RobId)
    <2>1. \A k \in 1 .. Len(buffer) : buffer[k] \in BufferItem
      OBVIOUS
    <2>2. QED
      BY <2>1 DEF BufferItem, Fixed
  <1>4. ASSUME NEW k \in 1 .. Len(buffer)
        PROVE  /\ b \in DOMAIN o(k) <=> CoversIn(buffer, RobId, a, k)
               /\ CoversIn(buffer, RobId, a, k) =>
                     o(k)[b] = buffer[k].store.data[a - buffer[k].store.addr]
    <2>1. buffer[k].store \in Store /\ Fixed(buffer[k], RobId) /\ x.size \in Nat
      BY <1>1, <1>3
    <2>2. /\ b \in DOMAIN o(k) <=> Covers(buffer[k].store, a)
          /\ Covers(buffer[k].store, a) => o(k)[b] = buffer[k].store.data[a - buffer[k].store.addr]
      <3> DEFINE s == buffer[k].store
                 addr == x.addr
                 size == x.size
      <3>1. s \in Store /\ addr \in Nat /\ size \in Nat /\ b \in 0 .. size - 1
        BY <1>1, <2>1
      <3> HIDE DEF s, addr, size
      <3>2. /\ b \in DOMAIN Overlay(addr, size, s) <=> Covers(s, addr + b)
            /\ Covers(s, addr + b) => Overlay(addr, size, s)[b] = s.data[addr + b - s.addr]
        BY <3>1, OverlayIs
      <3>3. o(k) = Overlay(addr, size, s) /\ a = addr + b /\ buffer[k].store = s
        BY DEF s, addr, size
      <3>4. s.addr \in Nat /\ addr \in Nat /\ b \in Nat
        BY <1>1, <3>1, StoreTyped
      <3> HIDE DEF o, a
      <3>5. b \in DOMAIN o(k) <=> Covers(buffer[k].store, a)
        BY <3>2, <3>3
      <3>6. a - buffer[k].store.addr = addr + b - s.addr
        BY <3>3, <3>4
      <3>7. Covers(buffer[k].store, a) => o(k)[b] = buffer[k].store.data[a - buffer[k].store.addr]
        BY <3>2, <3>3, <3>6
      <3>8. QED
        BY <3>5, <3>7
    <2>3. QED
      BY <2>1, <2>2 DEF CoversIn
  <1>5. hits = {k \in 1 .. Len(buffer) : CoversIn(buffer, RobId, a, k)}
    BY <1>4 DEF Overlapping
  <1>6. get_feedback_value(x.addr, x.size)[b] = IF hits = {} THEN memory[a] ELSE o(Newest(hits))[b]
    BY DEF get_feedback_value
  <1>7. Len(buffer) \in Nat
    OBVIOUS
  <1> HIDE DEF a, hits, o
  <1>8. CASE hits = {}
    <2>1. NoneIn(buffer, RobId, a)
      BY <1>5, <1>8 DEF NoneIn
    <2>2. QED
      BY <1>2, <1>6, <1>7, <1>8, <2>1, FixedNone DEF a
  <1>9. CASE hits # {}
    <2>1. hits \subseteq 0 .. Len(buffer)
      BY <1>5
    <2>2. Newest(hits) \in hits /\ \A j \in hits : j <= Newest(hits)
      BY <1>7, <1>9, <2>1, NewestIs
    <2>3. PICK k \in 1 .. Len(buffer) : k = Newest(hits)
      BY <1>5, <2>2
    <2>4. CoversIn(buffer, RobId, a, k)
      BY <1>5, <2>2, <2>3
    <2>5. LastIn(buffer, RobId, a, k)
      BY <1>5, <2>2, <2>3 DEF LastIn
    <2>6. o(k)[b] = buffer[k].store.data[a - buffer[k].store.addr]
      BY <1>4, <2>4
    <2>7. ByteOf(memory, FixedStores(buffer, RobId), a) = buffer[k].store.data[a - buffer[k].store.addr]
      BY <1>2, <1>7, <2>5, FixedLast
    <2>8. get_feedback_value(x.addr, x.size)[b] = o(k)[b]
      BY <1>6, <1>9, <2>3
    <2>9. QED
      BY <1>2, <2>6, <2>7, <2>8 DEF a
  <1>10. QED
    BY <1>8, <1>9

LEMMA ProgramByte ==
    ASSUME BufferInv, stage = "lsu", ~ feedback.flush, NEW a \in Addr
    PROVE  ProgramMemory[a] = ByteOf(memory, FixedStores(buffer, RobId), a)
  <1> DEFINE w == [k \in 1 .. Len(rob) |-> IF Executed(rob[k]) THEN rob[k].store ELSE NoStore]
             c == feedback.committed
  <1>1. /\ buffer \in Seq(BufferItem) /\ Len(buffer) \in Nat /\ Len(rob) \in Nat
        /\ FixedFirst(buffer, c) /\ Content(memory, buffer, c, retired) /\ Matches(buffer, c, rob)
    BY AtLsu
  <1>2. /\ Len(w) = Len(rob) /\ Len(w) \in Nat
        /\ \A k \in 1 .. Len(rob) : w[k] = IF Executed(rob[k]) THEN rob[k].store ELSE NoStore
    BY <1>1
  <1>3. ProgramMemory[a] = ByteOf(retired, w, a)
    BY DEF ProgramMemory, WriteAll
  <1>4. \A k \in 1 .. Len(buffer) : Fixed(buffer[k], RobId)
    <2>1. \A k \in 1 .. Len(buffer) : buffer[k] \in BufferItem
      BY <1>1
    <2>2. QED
      BY <2>1 DEF BufferItem, Fixed
  <1> HIDE DEF w, c
  <1>5. Overwritten(buffer, c, rob, RobId, 1 .. Len(rob), w, a)
    <2>1. \A j \in 1 .. Len(w) : Covers(w[j], a) =>
             j \in 1 .. Len(rob) /\ Executed(rob[j]) /\ w[j] = rob[j].store
      BY <1>2, NoStoreCovers
    <2>2. \A j \in 1 .. Len(rob) : Executed(rob[j]) /\ Covers(rob[j].store, a) =>
             j \in 1 .. Len(w) /\ w[j] = rob[j].store
      BY <1>2
    <2>3. QED
      BY <1>4, <2>1, <2>2 DEF Overwritten
  <1>6. QED
    BY <1>1, <1>2, <1>3, <1>5, Overwrite

(* A load returns, byte by byte, what program order defines, for every mix  *)
(* of retired, committed and speculative stores it overlaps (store_buffer.h *)
(* get_feedback_value, lsu.cpp).                                            *)
LEMMA LoadsRight == BufferInv => LoadsExact
  <1> SUFFICES ASSUME BufferInv, stage = "lsu", ~ feedback.flush, NEW x \in Access
               PROVE  get_feedback_value(x.addr, x.size) = [b \in 0 .. x.size - 1 |-> ProgramMemory[x.addr + b]]
    BY DEF LoadsExact
  <1> DEFINE v == get_feedback_value(x.addr, x.size)
  <1>1. \A b \in 0 .. x.size - 1 : v[b] = ProgramMemory[x.addr + b]
    <2> SUFFICES ASSUME NEW b \in 0 .. x.size - 1 PROVE v[b] = ProgramMemory[x.addr + b]
      OBVIOUS
    <2>1. buffer \in Seq(BufferItem)
      BY AtLsu
    <2>2. x.addr + b \in Addr /\ v[b] = ByteOf(memory, FixedStores(buffer, RobId), x.addr + b)
      BY <2>1, LoadedByte
    <2>3. ProgramMemory[x.addr + b] = ByteOf(memory, FixedStores(buffer, RobId), x.addr + b)
      BY <2>2, ProgramByte
    <2>4. QED
      BY <2>2, <2>3
  <1>2. v = [b \in 0 .. x.size - 1 |-> v[b]]
    BY DEF get_feedback_value
  <1> HIDE DEF v
  <1>3. QED
    BY <1>1, <1>2 DEF v

(* get_feedback_value returns, byte by byte, what program order says, for   *)
(* every aligned access, every overlap and every mix of stores.             *)
THEOREM LoadsSafe == Spec => []LoadsExact
  <1>1. Spec => []BufferInv
    BY Inductive
  <1>2. BufferInv => LoadsExact
    BY LoadsRight
  <1>3. QED
    BY <1>1, <1>2, PTL
=============================================================================
