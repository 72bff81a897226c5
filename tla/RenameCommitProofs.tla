------------------------- MODULE RenameCommitProofs -------------------------
(***************************************************************************)
(* For every number of registers, size of the ROB, of the checkpoint       *)
(* buffer and of the fifo and every width of the stages: renaming and      *)
(* retirement keep the precise state, whatever mixture of retirement,      *)
(* misprediction, exceptions and interrupts the instruction stream brings. *)
(*                                                                         *)
(* The inductive invariant RenameInv does not speak about the variables    *)
(* but about what they will be once the queued requests of the pass are    *)
(* applied (Table, Es, Bits, Contents, Claims): between two calls of sync  *)
(* the stages see a state that lags behind what they have asked for, and   *)
(* only the state with the requests applied is consistent.  Its parts are  *)
(*   MapInv   the table is the one the entries in force produce            *)
(*   Ahead    rename sees no register as free that the entries still hold  *)
(*   OpsInv   the instructions in flight are those of unfinished entries   *)
(*   BitsInv  the valid bits are those of the registers written            *)
(*   CpInv    the checkpoints claimed are in program order in the ring and *)
(*            hold the mapping right after their branch                    *)
(*   Pass, WalkInv  the course of a pass and of a walk back                *)
(***************************************************************************)
EXTENDS RenameCommit, Induction, FiniteSetTheorems, SequenceTheorems, FunctionTheorems

(* The mapping, for any entries: nw, od and w give the targets, the         *)
(* registers replaced and the architectural registers of m entries, f the   *)
(* mapping before them.                                                     *)
Latest(nw, w, f, a, i) ==
    LET ks == {k \in 1 .. i : w[k] = a} IN IF ks = {} THEN f[a] ELSE nw[Newest(ks)]
Now(nw, w, f, i) == {Latest(nw, w, f, a, i) : a \in Arch}

Entries(nw, od, w, f, m) ==
    /\ m \in Nat
    /\ f \in [Arch -> Phy]
    /\ \A a, b \in Arch : f[a] = f[b] => a = b
    /\ \A k \in 1 .. m : /\ nw[k] \in Phy \cup {None} /\ w[k] \in Arch \cup {None}
                         /\ w[k] = None <=> nw[k] = None
                         /\ \A a \in Arch : nw[k] # f[a]
    /\ \A j, k \in 1 .. m : nw[j] = nw[k] /\ nw[j] # None => j = k
    /\ \A k \in 1 .. m : od[k] = IF w[k] = None THEN None ELSE Latest(nw, w, f, w[k], k - 1)

(* r is the table when the first j of the m entries have retired.           *)
Agrees(r, nw, w, f, j, m) ==
    /\ r \in RatType /\ r.ok
    /\ r.valid = Now(nw, w, f, j) \cup ({nw[k] : k \in j + 1 .. m} \ {None})
    /\ r.visible = Now(nw, w, f, m)
    /\ r.commit \cap r.valid = Now(nw, w, f, j)
    /\ \A a \in Arch : r.table[Latest(nw, w, f, a, j)] = a
    /\ \A k \in j + 1 .. m : nw[k] # None => r.table[nw[k]] = w[k]

-----------------------------------------------------------------------------
(* The largest of a set of numbers.                                         *)
LEMMA NewestIs ==
    ASSUME NEW n \in Nat, NEW ks, ks \subseteq 1 .. n, ks # {}
    PROVE  Newest(ks) \in ks /\ \A j \in ks : j <= Newest(ks)
  <1>1. ks \subseteq 0 .. n
    OBVIOUS
  <1>2. \E k \in ks : \A j \in ks : j <= k
    BY <1>1, Greatest
  <1>3. QED
    BY <1>2 DEF Newest

(* A greatest element is the newest.                                        *)
LEMMA NewestUnique ==
    ASSUME NEW ks, ks \subseteq Int, NEW k \in ks, \A j \in ks : j <= k
    PROVE  Newest(ks) = k
  <1> DEFINE x == Newest(ks)
  <1>1. x \in ks /\ \A j \in ks : j <= x
    BY DEF Newest
  <1> HIDE DEF x
  <1>2. x <= k /\ k <= x /\ x \in Int /\ k \in Int
    BY <1>1
  <1>3. x = k
    BY <1>2
  <1>4. QED
    BY <1>3 DEF x

-----------------------------------------------------------------------------
(* The mapping after no entry, and after one more.                          *)
LEMMA LatestNone ==
    ASSUME NEW nw, NEW w, NEW f, NEW a
    PROVE  Latest(nw, w, f, a, 0) = f[a]
  <1>1. {k \in 1 .. 0 : w[k] = a} = {}
    OBVIOUS
  <1>2. QED
    BY <1>1 DEF Latest

(* One more entry.                                                          *)
LEMMA LatestNext ==
    ASSUME NEW nw, NEW w, NEW f, NEW a, NEW i \in Nat
    PROVE  Latest(nw, w, f, a, i + 1) = IF w[i + 1] = a THEN nw[i + 1] ELSE Latest(nw, w, f, a, i)
  <1> DEFINE K(n) == {k \in 1 .. n : w[k] = a}
  <1>1. CASE w[i + 1] = a
    <2>1. i + 1 \in K(i + 1) /\ K(i + 1) \subseteq Int /\ \A j \in K(i + 1) : j <= i + 1
      BY <1>1
    <2>2. Newest(K(i + 1)) = i + 1
      <3> HIDE DEF K
      <3>1. QED
        BY <2>1, NewestUnique
    <2>3. QED
      BY <1>1, <2>1, <2>2 DEF Latest
  <1>2. CASE w[i + 1] # a
    <2>1. K(i + 1) = K(i)
      BY <1>2
    <2>2. QED
      BY <1>2, <2>1 DEF Latest
  <1>3. QED
    BY <1>1, <1>2

(* It is the mapping before the entries, or the target of a writer that no  *)
(* other one follows.                                                       *)
LEMMA LatestCases ==
    ASSUME NEW nw, NEW w, NEW f, NEW a, NEW i \in Nat
    PROVE  \/ Latest(nw, w, f, a, i) = f[a] /\ \A k \in 1 .. i : w[k] # a
           \/ \E k \in 1 .. i : /\ w[k] = a /\ Latest(nw, w, f, a, i) = nw[k]
                                /\ \A j \in k + 1 .. i : w[j] # a
  <1> DEFINE K == {k \in 1 .. i : w[k] = a}
  <1>1. CASE K = {}
    <2>1. Latest(nw, w, f, a, i) = f[a]
      BY <1>1 DEF Latest
    <2>2. QED
      BY <1>1, <2>1
  <1>2. CASE K # {}
    <2>1. Newest(K) \in K /\ \A j \in K : j <= Newest(K)
      <3>1. K \subseteq 1 .. i
        OBVIOUS
      <3> HIDE DEF K
      <3>2. QED
        BY <1>2, <3>1, NewestIs
    <2>2. Latest(nw, w, f, a, i) = nw[Newest(K)]
      BY <1>2 DEF Latest
    <2>3. PICK k \in K : k = Newest(K)
      BY <2>1
    <2>4. /\ k \in 1 .. i /\ w[k] = a /\ Latest(nw, w, f, a, i) = nw[k]
          /\ \A j \in k + 1 .. i : w[j] # a
      <3>1. k \in 1 .. i /\ w[k] = a
        OBVIOUS
      <3>2. \A j \in k + 1 .. i : j \notin K
        BY <2>1, <2>3, <3>1
      <3>3. \A j \in k + 1 .. i : j \in 1 .. i
        BY <3>1
      <3>4. QED
        BY <3>1, <3>2, <3>3, <2>2, <2>3
    <2>5. QED
      BY <2>4
  <1>3. QED
    BY <1>1, <1>2

(* A mapping is a physical register.                                        *)
LEMMA LatestTyped ==
    ASSUME NEW nw, NEW od, NEW w, NEW f, NEW m, Entries(nw, od, w, f, m),
           NEW a \in Arch, NEW i \in 0 .. m
    PROVE  Latest(nw, w, f, a, i) \in Phy
  <1>1. i \in Nat /\ m \in Nat
    BY DEF Entries
  <1>2. \A k \in 1 .. i : k \in 1 .. m
    BY <1>1
  <1>3. \A k \in 1 .. i : w[k] = a => nw[k] \in Phy
    BY <1>2, NoneAssumption DEF Entries
  <1>4. f[a] \in Phy
    BY DEF Entries
  <1>5. QED
    BY <1>1, <1>3, <1>4, LatestCases

(* A register is not the mapping of two architectural registers, at no two  *)
(* times.                                                                   *)
LEMMA LatestInjective ==
    ASSUME NEW nw, NEW od, NEW w, NEW f, NEW m, Entries(nw, od, w, f, m),
           NEW a \in Arch, NEW b \in Arch, NEW i \in 0 .. m, NEW j \in 0 .. m,
           Latest(nw, w, f, a, i) = Latest(nw, w, f, b, j)
    PROVE  a = b
  <1>1. i \in Nat /\ j \in Nat /\ m \in Nat
    BY DEF Entries
  <1>2. (\A k \in 1 .. i : k \in 1 .. m) /\ (\A k \in 1 .. j : k \in 1 .. m)
    BY <1>1
  <1>3. \/ Latest(nw, w, f, a, i) = f[a]
        \/ \E k \in 1 .. m : w[k] = a /\ Latest(nw, w, f, a, i) = nw[k]
    BY <1>1, <1>2, LatestCases
  <1>4. \/ Latest(nw, w, f, b, j) = f[b]
        \/ \E k \in 1 .. m : w[k] = b /\ Latest(nw, w, f, b, j) = nw[k]
    BY <1>1, <1>2, LatestCases
  <1>5. QED
    BY <1>3, <1>4, NoneAssumption DEF Entries

(* The target of an entry is not the mapping before it.                     *)
LEMMA LatestOther ==
    ASSUME NEW nw, NEW od, NEW w, NEW f, NEW m, Entries(nw, od, w, f, m),
           NEW a \in Arch, NEW i \in 0 .. m, NEW k \in i + 1 .. m
    PROVE  Latest(nw, w, f, a, i) # nw[k]
  <1>1. i \in Nat /\ m \in Nat
    BY DEF Entries
  <1>2. k \in 1 .. m /\ \A n \in 1 .. i : n \in 1 .. m /\ n # k
    BY <1>1
  <1>3. \/ Latest(nw, w, f, a, i) = f[a]
        \/ \E n \in 1 .. i : w[n] = a /\ Latest(nw, w, f, a, i) = nw[n]
    BY <1>1, LatestCases
  <1>4. QED
    BY <1>2, <1>3, NoneAssumption DEF Entries

(* A register that an entry replaces is not the mapping afterwards.         *)
LEMMA LatestReplaced ==
    ASSUME NEW nw, NEW od, NEW w, NEW f, NEW m, Entries(nw, od, w, f, m),
           NEW a \in Arch, NEW i \in 0 .. m, NEW k \in i + 1 .. m, w[k] = a, NEW n \in k .. m
    PROVE  Latest(nw, w, f, a, n) # Latest(nw, w, f, a, i)
  <1>1. i \in Nat /\ m \in Nat /\ n \in Nat /\ k \in 1 .. n
    BY DEF Entries
  <1>2. PICK x \in 1 .. n : w[x] = a /\ Latest(nw, w, f, a, n) = nw[x] /\ \A j \in x + 1 .. n : w[j] # a
    BY <1>1, LatestCases
  <1>3. x \in i + 1 .. m
    BY <1>1, <1>2
  <1>4. QED
    BY <1>2, <1>3, LatestOther

(* So are all of them.                                                      *)
LEMMA NowTyped ==
    ASSUME NEW nw, NEW od, NEW w, NEW f, NEW m, Entries(nw, od, w, f, m), NEW i \in 0 .. m
    PROVE  Now(nw, w, f, i) \subseteq Phy
  BY LatestTyped DEF Now

(* An entry without a target changes no mapping.                            *)
LEMMA NowNone ==
    ASSUME NEW nw, NEW od, NEW w, NEW f, NEW m, Entries(nw, od, w, f, m),
           NEW i \in 0 .. m, i < m, w[i + 1] = None
    PROVE  /\ \A a \in Arch : Latest(nw, w, f, a, i + 1) = Latest(nw, w, f, a, i)
           /\ Now(nw, w, f, i + 1) = Now(nw, w, f, i)
  <1>1. \A a \in Arch : Latest(nw, w, f, a, i + 1) = Latest(nw, w, f, a, i)
    BY LatestNext, NoneAssumption
  <1>2. QED
    BY <1>1 DEF Now

(* An entry with a target replaces one mapping.                             *)
LEMMA NowNext ==
    ASSUME NEW nw, NEW od, NEW w, NEW f, NEW m, Entries(nw, od, w, f, m),
           NEW i \in 0 .. m, i < m, w[i + 1] # None
    PROVE  /\ w[i + 1] \in Arch /\ nw[i + 1] \in Phy
           /\ Latest(nw, w, f, w[i + 1], i + 1) = nw[i + 1]
           /\ \A a \in Arch \ {w[i + 1]} : Latest(nw, w, f, a, i + 1) = Latest(nw, w, f, a, i)
           /\ Now(nw, w, f, i + 1) = (Now(nw, w, f, i) \ {Latest(nw, w, f, w[i + 1], i)})
                                        \cup {nw[i + 1]}
  <1>0. i \in Nat /\ m \in Nat /\ i + 1 \in 1 .. m
    BY DEF Entries
  <1>1. w[i + 1] \in Arch /\ nw[i + 1] \in Phy
    BY <1>0 DEF Entries
  <1>2. /\ Latest(nw, w, f, w[i + 1], i + 1) = nw[i + 1]
        /\ \A a \in Arch \ {w[i + 1]} : Latest(nw, w, f, a, i + 1) = Latest(nw, w, f, a, i)
    BY <1>0, LatestNext
  <1>3. \A a \in Arch \ {w[i + 1]} : Latest(nw, w, f, a, i) # Latest(nw, w, f, w[i + 1], i)
    BY <1>1, LatestInjective
  <1>4. QED
    BY <1>1, <1>2, <1>3 DEF Now

Rest(nw, j, m) == {nw[k] : k \in j + 1 .. m} \ {None}
Retiring(nw, od, k) == [op |-> "retire", new |-> nw[k], old |-> od[k]]
Mapping(nw, w, k) == [op |-> "set_map", arch |-> w[k], new |-> nw[k]]
Undoing(nw, od, k) == [op |-> "restore_map", new |-> nw[k], old |-> od[k]]

(* What the requests do to the fields of the table.                         *)
LEMMA ReleaseFields ==
    ASSUME NEW r \in RatType, NEW o \in Phy
    PROVE  /\ release_map(r, o) \in RatType
           /\ release_map(r, o).table = [r.table EXCEPT ![o] = None]
           /\ release_map(r, o).valid = r.valid \ {o}
           /\ release_map(r, o).visible = r.visible
           /\ release_map(r, o).commit = r.commit
           /\ release_map(r, o).ok <=> (r.ok /\ o \in r.valid /\ o \notin r.visible)
  BY DEF release_map, RatType

(* commit_map.                                                              *)
LEMMA CommitFields ==
    ASSUME NEW r \in RatType, NEW p \in Phy
    PROVE  /\ commit_map(r, p) \in RatType
           /\ commit_map(r, p).table = r.table
           /\ commit_map(r, p).valid = r.valid
           /\ commit_map(r, p).visible = r.visible
           /\ commit_map(r, p).commit = r.commit \cup {p}
           /\ commit_map(r, p).ok <=> (r.ok /\ p \in r.valid /\ p \notin r.commit)
  BY DEF commit_map, RatType

(* restore_map.                                                             *)
LEMMA RestoreMapFields ==
    ASSUME NEW r \in RatType, NEW p \in Phy, NEW o \in Phy
    PROVE  /\ restore_map(r, p, o) \in RatType
           /\ restore_map(r, p, o).table = [r.table EXCEPT ![p] = None]
           /\ restore_map(r, p, o).valid = (r.valid \ {p}) \cup {o}
           /\ restore_map(r, p, o).visible = (r.visible \ {p}) \cup {o}
           /\ restore_map(r, p, o).commit = r.commit
           /\ restore_map(r, p, o).ok <=> (/\ r.ok /\ p \in r.valid /\ o \in r.valid
                                        /\ p \in r.visible /\ o \notin r.visible)
  BY DEF restore_map, RatType

(* restore.                                                                 *)
LEMMA RestoreFields ==
    ASSUME NEW r \in RatType, NEW cp \in CheckpointType
    PROVE  /\ restore(r, cp) \in RatType
           /\ restore(r, cp).table = r.table
           /\ restore(r, cp).valid = cp.valid
           /\ restore(r, cp).visible = cp.visible
           /\ restore(r, cp).commit = r.commit
           /\ restore(r, cp).ok = r.ok
  BY DEF restore, RatType, CheckpointType

(* set_map.                                                                 *)
LEMMA SetMapFields ==
    ASSUME NEW r \in RatType, NEW a \in Arch, NEW p \in Phy
    PROVE  /\ set_map(r, a, p) \in RatType
           /\ set_map(r, a, p).table = [r.table EXCEPT ![p] = a]
           /\ set_map(r, a, p).valid = r.valid \cup {p}
           /\ set_map(r, a, p).visible = (r.visible \ Mapped(r, a)) \cup {p}
           /\ set_map(r, a, p).commit = r.commit \ {p}
           /\ set_map(r, a, p).ok <=> (/\ r.ok /\ p \notin r.valid
                                    /\ Cardinality(Mapped(r, a)) = 1)
  BY DEF set_map, RatType, Mapped

(* One more entry retires.                                                  *)
LEMMA RetireOne ==
    ASSUME NEW nw, NEW od, NEW w, NEW f, NEW m, Entries(nw, od, w, f, m),
           NEW j \in 0 .. m, j < m, NEW r, Agrees(r, nw, w, f, j, m)
    PROVE  Agrees(Apply(r, Retiring(nw, od, j + 1)), nw, w, f, j + 1, m)
  <1> DEFINE p == nw[j + 1]
             o == od[j + 1]
             a == w[j + 1]
             q == Retiring(nw, od, j + 1)
  <1>0. j \in Nat /\ m \in Nat /\ j + 1 \in 1 .. m /\ j + 1 \in j + 1 .. m
        /\ q.op = "retire" /\ q.new = p /\ q.old = o /\ (j + 1) - 1 = j
    BY DEF Entries, Retiring
  <1>1. CASE a = None
    <2>1. p = None /\ Apply(r, q) = r
      BY <1>0, <1>1 DEF Entries, Apply
    <2>2. /\ \A b \in Arch : Latest(nw, w, f, b, j + 1) = Latest(nw, w, f, b, j)
          /\ Now(nw, w, f, j + 1) = Now(nw, w, f, j)
      BY <1>1, NowNone
    <2>3. {nw[k] : k \in j + 1 .. m} \ {None} = {nw[k] : k \in j + 2 .. m} \ {None}
      <3>1. \A k \in j + 1 .. m : k = j + 1 \/ k \in j + 2 .. m
        BY <1>0
      <3>2. \A k \in j + 2 .. m : k \in j + 1 .. m
        BY <1>0
      <3>3. QED
        BY <2>1, <3>1, <3>2
    <2>4. (j + 1) + 1 = j + 2 /\ \A k \in j + 2 .. m : k \in j + 1 .. m
      BY <1>0
    <2>5. QED
      BY <2>1, <2>2, <2>3, <2>4 DEF Agrees
  <1>2. CASE a # None
    <2>1. /\ a \in Arch /\ p \in Phy /\ p # None
          /\ Latest(nw, w, f, a, j + 1) = p
          /\ \A b \in Arch \ {a} : Latest(nw, w, f, b, j + 1) = Latest(nw, w, f, b, j)
          /\ o = Latest(nw, w, f, a, j)
          /\ Now(nw, w, f, j + 1) = (Now(nw, w, f, j) \ {o}) \cup {p}
      BY <1>0, <1>2, NowNext, NoneAssumption DEF Entries
    <2>2. o \in Phy /\ o # p
      BY <1>0, <2>1, LatestTyped, LatestOther
    <2>3. o \notin Now(nw, w, f, m)
      <3>1. ASSUME NEW b \in Arch, Latest(nw, w, f, b, m) = o PROVE FALSE
        <4>1. b = a
          BY <1>0, <2>1, <3>1, LatestInjective
        <4>2. m \in j + 1 .. m
          BY <1>0
        <4>3. QED
          BY <1>0, <2>1, <3>1, <4>1, <4>2, LatestReplaced
      <3>2. QED
        BY <3>1 DEF Now
    <2>4. p \notin Now(nw, w, f, j)
      BY <1>0, LatestOther DEF Now
    <2>5. /\ r \in RatType /\ r.ok
          /\ r.valid = Now(nw, w, f, j) \cup ({nw[k] : k \in j + 1 .. m} \ {None})
          /\ r.visible = Now(nw, w, f, m)
          /\ r.commit \cap r.valid = Now(nw, w, f, j)
          /\ \A b \in Arch : r.table[Latest(nw, w, f, b, j)] = b
          /\ \A k \in j + 1 .. m : nw[k] # None => r.table[nw[k]] = w[k]
      BY DEF Agrees
    <2>6. o \in Now(nw, w, f, j)
      BY <2>1 DEF Now
    <2>7. p \in r.valid /\ p \notin r.commit /\ o \in r.valid /\ o \notin r.visible
      BY <1>0, <2>1, <2>3, <2>4, <2>5, <2>6
    <2> DEFINE s == Apply(r, q)
    <2> DEFINE u == release_map(r, o)
    <2>8. s = commit_map(u, p)
      BY <1>0, <2>1 DEF Apply
    <2>9. /\ u \in RatType /\ u.table = [r.table EXCEPT ![o] = None] /\ u.valid = r.valid \ {o}
          /\ u.visible = r.visible /\ u.commit = r.commit
          /\ u.ok <=> (r.ok /\ o \in r.valid /\ o \notin r.visible)
      <3> HIDE DEF o
      <3>1. QED
        BY <2>2, <2>5, ReleaseFields
    <2> HIDE DEF s, q, u
    <2>10. /\ s.table = [r.table EXCEPT ![o] = None] /\ s.valid = r.valid \ {o}
           /\ s.visible = r.visible /\ s.commit = r.commit \cup {p}
           /\ s.ok <=> (u.ok /\ p \in u.valid /\ p \notin u.commit)
           /\ s \in RatType
      <3> HIDE DEF p, o
      <3>1. QED
        BY <2>1, <2>8, <2>9, CommitFields
    <2>11. s.ok
      BY <2>2, <2>5, <2>7, <2>9, <2>10
    <2>12. /\ (j + 1) + 1 = j + 2 /\ \A k \in j + 2 .. m : k \in j + 1 .. m /\ k # j + 1
           /\ \A k \in j + 1 .. m : k = j + 1 \/ k \in j + 2 .. m
      BY <1>0
    <2>13. \A k \in j + 1 .. m : nw[k] # o
      BY <1>0, <2>1, LatestOther
    <2>14. s.valid = Now(nw, w, f, j + 1) \cup ({nw[k] : k \in j + 2 .. m} \ {None})
      <3>1. {nw[k] : k \in j + 1 .. m} \ {None} = {p} \cup ({nw[k] : k \in j + 2 .. m} \ {None})
        BY <2>1, <2>12, <1>0
      <3>2. o \notin {nw[k] : k \in j + 1 .. m}
        BY <2>13
      <3>3. QED
        BY <2>1, <2>5, <2>10, <3>1, <3>2
    <2>15. s.commit \cap s.valid = Now(nw, w, f, j + 1)
      BY <2>1, <2>2, <2>5, <2>7, <2>10
    <2>16. \A b \in Arch : s.table[Latest(nw, w, f, b, j + 1)] = b
      <3>1. ASSUME NEW b \in Arch \ {a} PROVE s.table[Latest(nw, w, f, b, j + 1)] = b
        <4>1. Latest(nw, w, f, b, j) \in Phy /\ Latest(nw, w, f, b, j) # o
          BY <1>0, <2>1, LatestTyped, LatestInjective
        <4>2. QED
          BY <2>1, <2>5, <2>10, <4>1 DEF RatType
      <3>2. s.table[p] = a
        BY <1>0, <2>1, <2>2, <2>5, <2>10 DEF RatType
      <3>3. QED
        BY <2>1, <3>1, <3>2
    <2>17. \A k \in j + 2 .. m : nw[k] # None => s.table[nw[k]] = w[k]
      <3>1. ASSUME NEW k \in j + 2 .. m, nw[k] # None PROVE s.table[nw[k]] = w[k]
        <4>1. k \in j + 1 .. m /\ nw[k] # o /\ k \in 1 .. m
          BY <2>12, <2>13, <1>0
        <4>2. nw[k] \in Phy
          BY <4>1, <3>1 DEF Entries
        <4>3. QED
          BY <4>1, <4>2, <3>1, <2>5, <2>10 DEF RatType
      <3>2. QED
        BY <3>1
    <2>18. QED
      BY <2>5, <2>10, <2>11, <2>12, <2>14, <2>15, <2>16, <2>17 DEF Agrees, s, q
  <1>3. QED
    BY <1>1, <1>2

(* The mapping after later entries is what the table marks as visible.      *)
LEMMA LatestSince ==
    ASSUME NEW nw, NEW w, NEW f, NEW a, NEW j \in Nat, NEW m \in Nat, j <= m
    PROVE  \/ Latest(nw, w, f, a, m) = Latest(nw, w, f, a, j)
           \/ \E k \in j + 1 .. m : w[k] = a /\ Latest(nw, w, f, a, m) = nw[k]
  <1> DEFINE K(n) == {k \in 1 .. n : w[k] = a}
  <1>1. CASE \A k \in j + 1 .. m : w[k] # a
    <2>1. \A k \in 1 .. m : k \in 1 .. j \/ k \in j + 1 .. m
      OBVIOUS
    <2>2. K(m) = K(j)
      BY <1>1, <2>1
    <2>3. Latest(nw, w, f, a, m) = Latest(nw, w, f, a, j)
      BY <2>2 DEF Latest
    <2>4. QED
      BY <2>3
  <1>2. CASE \E k \in j + 1 .. m : w[k] = a
    <2>1. PICK k \in j + 1 .. m : w[k] = a
      BY <1>2
    <2>2. PICK x \in 1 .. m : w[x] = a /\ Latest(nw, w, f, a, m) = nw[x] /\ \A i \in x + 1 .. m : w[i] # a
      <3>1. k \in 1 .. m
        OBVIOUS
      <3>2. QED
        BY <2>1, <3>1, LatestCases
    <2>3. x \in j + 1 .. m
      BY <2>1, <2>2
    <2>4. QED
      BY <2>2, <2>3
  <1>3. QED
    BY <1>1, <1>2

(* get_phy_id finds one register, the newest mapping.                       *)
LEMMA MappedIs ==
    ASSUME NEW nw, NEW od, NEW w, NEW f, NEW n, Entries(nw, od, w, f, n),
           NEW m \in 0 .. n, NEW j \in 0 .. m, NEW r, Agrees(r, nw, w, f, j, m), NEW a \in Arch
    PROVE  /\ Latest(nw, w, f, a, m) \in r.valid
           /\ r.table[Latest(nw, w, f, a, m)] = a
           /\ Mapped(r, a) = {Latest(nw, w, f, a, m)}
           /\ Cardinality(Mapped(r, a)) = 1
  <1>0. j \in Nat /\ m \in Nat /\ n \in Nat /\ j <= m /\ j \in 0 .. n
    BY DEF Entries
  <1>1. ASSUME NEW b \in Arch
        PROVE  Latest(nw, w, f, b, m) \in r.valid /\ r.table[Latest(nw, w, f, b, m)] = b
    <2>1. \/ Latest(nw, w, f, b, m) = Latest(nw, w, f, b, j)
          \/ \E k \in j + 1 .. m : w[k] = b /\ Latest(nw, w, f, b, m) = nw[k]
      BY <1>0, LatestSince
    <2>2. Latest(nw, w, f, b, m) \in Phy
      BY LatestTyped
    <2>3. Latest(nw, w, f, b, m) # None
      BY <2>2, NoneAssumption
    <2>4. QED
      BY <2>1, <2>3 DEF Agrees, Now
  <1>2. Mapped(r, a) = {Latest(nw, w, f, a, m)}
    BY <1>1 DEF Mapped, Agrees, Now
  <1>3. Cardinality({Latest(nw, w, f, a, m)}) = 1
    BY FS_Singleton
  <1>4. QED
    BY <1>1, <1>2, <1>3

(* One more instruction is renamed.                                         *)
LEMMA MapOne ==
    ASSUME NEW nw, NEW od, NEW w, NEW f, NEW n, Entries(nw, od, w, f, n),
           NEW m \in 0 .. n, m < n, NEW j \in 0 .. m, NEW r, Agrees(r, nw, w, f, j, m)
    PROVE  Agrees(Apply(r, Mapping(nw, w, m + 1)), nw, w, f, j, m + 1)
  <1> DEFINE p == nw[m + 1]
             a == w[m + 1]
             q == Mapping(nw, w, m + 1)
  <1>0. /\ j \in Nat /\ m \in Nat /\ n \in Nat /\ m + 1 \in 1 .. n /\ m + 1 \in m + 1 .. n
        /\ j \in 0 .. n /\ m + 1 \in j + 1 .. n
        /\ q.op = "set_map" /\ q.new = p /\ q.arch = a
    BY DEF Entries, Mapping
  <1>k. /\ m + 1 \in j + 1 .. m + 1
        /\ \A k \in j + 1 .. m + 1 : k = m + 1 \/ k \in j + 1 .. m
        /\ \A k \in j + 1 .. m : k \in j + 1 .. m + 1 /\ k # m + 1 /\ k \in 1 .. n
    BY <1>0
  <1>1. CASE a = None
    <2>1. p = None /\ Apply(r, q) = r
      BY <1>0, <1>1 DEF Entries, Apply
    <2>2. Now(nw, w, f, m + 1) = Now(nw, w, f, m)
      BY <1>1, NowNone
    <2>3. {nw[k] : k \in j + 1 .. m + 1} \ {None} = {nw[k] : k \in j + 1 .. m} \ {None}
      BY <1>k, <2>1
    <2>5. QED
      BY <1>k, <2>1, <2>2, <2>3 DEF Agrees
  <1>2. CASE a # None
    <2>1. /\ a \in Arch /\ p \in Phy /\ p # None
          /\ Now(nw, w, f, m + 1) = (Now(nw, w, f, m) \ {Latest(nw, w, f, a, m)}) \cup {p}
      <3>1. /\ a \in Arch /\ p \in Phy
            /\ Now(nw, w, f, m + 1) = (Now(nw, w, f, m) \ {Latest(nw, w, f, a, m)}) \cup {p}
        BY <1>2, NowNext
      <3>2. QED
        BY <3>1, NoneAssumption
    <2>2. /\ r \in RatType /\ r.ok
          /\ r.valid = Now(nw, w, f, j) \cup ({nw[k] : k \in j + 1 .. m} \ {None})
          /\ r.visible = Now(nw, w, f, m)
          /\ r.commit \cap r.valid = Now(nw, w, f, j)
          /\ \A b \in Arch : r.table[Latest(nw, w, f, b, j)] = b
          /\ \A k \in j + 1 .. m : nw[k] # None => r.table[nw[k]] = w[k]
      BY DEF Agrees
    <2>3. p \notin Now(nw, w, f, j)
      BY <1>0, LatestOther DEF Now
    <2>4. \A k \in j + 1 .. m : nw[k] # p
      BY <1>0, <1>k, <2>1 DEF Entries
    <2>5. p \notin r.valid
      BY <2>2, <2>3, <2>4
    <2> DEFINE s == Apply(r, q)
    <2>6. s = set_map(r, a, p)
      BY <1>0, <2>1 DEF Apply
    <2>7. Mapped(r, a) = {Latest(nw, w, f, a, m)} /\ Cardinality(Mapped(r, a)) = 1
      BY <2>1, MappedIs
    <2> HIDE DEF s, q
    <2>8. /\ s \in RatType
          /\ s.table = [r.table EXCEPT ![p] = a]
          /\ s.valid = r.valid \cup {p}
          /\ s.visible = (r.visible \ Mapped(r, a)) \cup {p}
          /\ s.commit = r.commit \ {p}
          /\ s.ok <=> (/\ r.ok /\ p \notin r.valid /\ Cardinality(Mapped(r, a)) = 1)
      <3> HIDE DEF p, a
      <3>1. /\ set_map(r, a, p) \in RatType
            /\ set_map(r, a, p).table = [r.table EXCEPT ![p] = a]
            /\ set_map(r, a, p).valid = r.valid \cup {p}
            /\ set_map(r, a, p).visible = (r.visible \ Mapped(r, a)) \cup {p}
            /\ set_map(r, a, p).commit = r.commit \ {p}
            /\ set_map(r, a, p).ok <=> (/\ r.ok /\ p \notin r.valid /\ Cardinality(Mapped(r, a)) = 1)
        BY <2>1, <2>2, SetMapFields
      <3>2. QED
        BY <2>6, <3>1, Zenon
    <2>9. s.ok
      BY <2>2, <2>5, <2>7, <2>8
    <2>10. s.valid = Now(nw, w, f, j) \cup ({nw[k] : k \in j + 1 .. m + 1} \ {None})
      <3>1. {nw[k] : k \in j + 1 .. m + 1} \ {None} = ({nw[k] : k \in j + 1 .. m} \ {None}) \cup {p}
        BY <1>k, <2>1
      <3>2. QED
        BY <2>2, <2>8, <3>1
    <2>11. s.visible = Now(nw, w, f, m + 1)
      BY <2>1, <2>2, <2>7, <2>8
    <2>12. s.commit \cap s.valid = Now(nw, w, f, j)
      BY <2>2, <2>3, <2>8
    <2>13. \A b \in Arch : s.table[Latest(nw, w, f, b, j)] = b
      <3>1. ASSUME NEW b \in Arch PROVE s.table[Latest(nw, w, f, b, j)] = b
        <4>1. Latest(nw, w, f, b, j) \in Phy /\ Latest(nw, w, f, b, j) # p
          BY <1>0, LatestTyped, LatestOther
        <4>2. QED
          BY <2>2, <2>8, <4>1 DEF RatType
      <3>2. QED
        BY <3>1
    <2>14. \A k \in j + 1 .. m + 1 : nw[k] # None => s.table[nw[k]] = w[k]
      <3>1. ASSUME NEW k \in j + 1 .. m, nw[k] # None PROVE s.table[nw[k]] = w[k]
        <4>1. nw[k] \in Phy /\ nw[k] # p
          BY <3>1, <1>k, <2>4 DEF Entries
        <4>2. QED
          BY <2>2, <2>8, <3>1, <4>1 DEF RatType
      <3>2. s.table[nw[m + 1]] = w[m + 1]
        BY <2>1, <2>2, <2>8 DEF RatType
      <3>3. QED
        BY <1>k, <3>1, <3>2
    <2>15. QED
      BY <2>8, <2>9, <2>10, <2>11, <2>12, <2>13, <2>14 DEF Agrees, s, q
  <1>3. QED
    BY <1>1, <1>2

(* The walk back undoes the newest entry.                                   *)
LEMMA UndoOne ==
    ASSUME NEW nw, NEW od, NEW w, NEW f, NEW n, Entries(nw, od, w, f, n),
           NEW m \in 0 .. n, m < n, NEW j \in 0 .. m, NEW r, Agrees(r, nw, w, f, j, m + 1)
    PROVE  Agrees(Apply(r, Undoing(nw, od, m + 1)), nw, w, f, j, m)
  <1> DEFINE p == nw[m + 1]
             o == od[m + 1]
             a == w[m + 1]
             q == Undoing(nw, od, m + 1)
  <1>0. /\ j \in Nat /\ m \in Nat /\ n \in Nat /\ m + 1 \in 1 .. n /\ m + 1 \in m + 1 .. n
        /\ j \in 0 .. n /\ m + 1 \in j + 1 .. n /\ m + 1 \in 0 .. n /\ j \in 0 .. m + 1
        /\ q.op = "restore_map" /\ q.new = p /\ q.old = o /\ (m + 1) - 1 = m
    BY DEF Entries, Undoing
  <1>k. /\ m + 1 \in j + 1 .. m + 1
        /\ \A k \in j + 1 .. m + 1 : k = m + 1 \/ k \in j + 1 .. m
        /\ \A k \in j + 1 .. m : k \in j + 1 .. m + 1 /\ k # m + 1 /\ k \in 1 .. n
    BY <1>0
  <1>1. CASE a = None
    <2>1. p = None /\ Apply(r, q) = r
      BY <1>0, <1>1 DEF Entries, Apply
    <2>2. Now(nw, w, f, m + 1) = Now(nw, w, f, m)
      BY <1>1, NowNone
    <2>3. {nw[k] : k \in j + 1 .. m + 1} \ {None} = {nw[k] : k \in j + 1 .. m} \ {None}
      BY <1>k, <2>1
    <2>5. QED
      BY <1>k, <2>1, <2>2, <2>3 DEF Agrees
  <1>2. CASE a # None
    <2>1. /\ a \in Arch /\ p \in Phy /\ p # None
          /\ o = Latest(nw, w, f, a, m)
          /\ Latest(nw, w, f, a, m + 1) = p
          /\ Now(nw, w, f, m + 1) = (Now(nw, w, f, m) \ {o}) \cup {p}
      BY <1>0, <1>2, NowNext, NoneAssumption DEF Entries
    <2>2. /\ r \in RatType /\ r.ok
          /\ r.valid = Now(nw, w, f, j) \cup ({nw[k] : k \in j + 1 .. m + 1} \ {None})
          /\ r.visible = Now(nw, w, f, m + 1)
          /\ r.commit \cap r.valid = Now(nw, w, f, j)
          /\ \A b \in Arch : r.table[Latest(nw, w, f, b, j)] = b
          /\ \A k \in j + 1 .. m + 1 : nw[k] # None => r.table[nw[k]] = w[k]
      BY DEF Agrees
    <2>3. p \notin Now(nw, w, f, j) /\ p \notin Now(nw, w, f, m)
      BY <1>0, LatestOther DEF Now
    <2>4. \A k \in j + 1 .. m : nw[k] # p
      BY <1>0, <1>k, <2>1 DEF Entries
    <2>5. o \in Phy /\ o \in Now(nw, w, f, m) /\ o # p
      BY <2>1, <2>3, NowTyped DEF Now
    <2>6. o \in Now(nw, w, f, j) \cup ({nw[k] : k \in j + 1 .. m} \ {None})
      <3>1. \/ o = Latest(nw, w, f, a, j)
            \/ \E k \in j + 1 .. m : w[k] = a /\ o = nw[k]
        BY <1>0, <2>1, LatestSince
      <3>2. o # None
        BY <2>5, NoneAssumption
      <3>3. QED
        BY <2>1, <3>1, <3>2 DEF Now
    <2>7. {nw[k] : k \in j + 1 .. m + 1} \ {None} = ({nw[k] : k \in j + 1 .. m} \ {None}) \cup {p}
      BY <1>k, <2>1
    <2> DEFINE s == Apply(r, q)
    <2>8. s = restore_map(r, p, o)
      BY <1>0, <2>1 DEF Apply
    <2> HIDE DEF s, q
    <2>9. /\ s \in RatType
          /\ s.table = [r.table EXCEPT ![p] = None]
          /\ s.valid = (r.valid \ {p}) \cup {o}
          /\ s.visible = (r.visible \ {p}) \cup {o}
          /\ s.commit = r.commit
          /\ s.ok <=> (/\ r.ok /\ p \in r.valid /\ o \in r.valid
                     /\ p \in r.visible /\ o \notin r.visible)
      <3> HIDE DEF p, o
      <3>1. /\ restore_map(r, p, o) \in RatType
            /\ restore_map(r, p, o).table = [r.table EXCEPT ![p] = None]
            /\ restore_map(r, p, o).valid = (r.valid \ {p}) \cup {o}
            /\ restore_map(r, p, o).visible = (r.visible \ {p}) \cup {o}
            /\ restore_map(r, p, o).commit = r.commit
            /\ restore_map(r, p, o).ok <=> (/\ r.ok /\ p \in r.valid /\ o \in r.valid
                                         /\ p \in r.visible /\ o \notin r.visible)
        BY <2>1, <2>2, <2>5, RestoreMapFields
      <3>2. QED
        BY <2>8, <3>1, Zenon
    <2>10. s.valid = Now(nw, w, f, j) \cup ({nw[k] : k \in j + 1 .. m} \ {None})
      <3>1. p \notin {nw[k] : k \in j + 1 .. m}
        BY <2>4
      <3>2. QED
        BY <2>2, <2>3, <2>6, <2>7, <2>9, <3>1
    <2>11. p \in r.valid /\ o \in r.valid /\ p \in r.visible /\ o \notin r.visible
      BY <2>1, <2>2, <2>5, <2>6, <2>7
    <2>12. s.visible = Now(nw, w, f, m)
      BY <2>1, <2>2, <2>3, <2>5, <2>9
    <2>13. s.commit \cap s.valid = Now(nw, w, f, j)
      BY <2>2, <2>3, <2>9, <2>11
    <2>14. \A b \in Arch : s.table[Latest(nw, w, f, b, j)] = b
      <3>1. ASSUME NEW b \in Arch PROVE s.table[Latest(nw, w, f, b, j)] = b
        <4>1. Latest(nw, w, f, b, j) \in Phy /\ Latest(nw, w, f, b, j) # p
          BY <1>0, LatestTyped, LatestOther
        <4>2. QED
          BY <2>2, <2>9, <4>1 DEF RatType
      <3>2. QED
        BY <3>1
    <2>15. \A k \in j + 1 .. m : nw[k] # None => s.table[nw[k]] = w[k]
      <3>1. ASSUME NEW k \in j + 1 .. m, nw[k] # None PROVE s.table[nw[k]] = w[k]
        <4>1. nw[k] \in Phy /\ nw[k] # p
          BY <3>1, <1>k, <2>4 DEF Entries
        <4>2. QED
          BY <1>k, <2>2, <2>9, <3>1, <4>1 DEF RatType
      <3>2. QED
        BY <3>1
    <2>16. s.ok
      BY <2>2, <2>9, <2>11
    <2>17. QED
      BY <2>9, <2>10, <2>12, <2>13, <2>14, <2>15, <2>16 DEF Agrees, s, q
  <1>3. QED
    BY <1>1, <1>2

(* A misprediction reinstates the mapping after the branch that retires.    *)
LEMMA RestoreAll ==
    ASSUME NEW nw, NEW od, NEW w, NEW f, NEW m, Entries(nw, od, w, f, m),
           NEW j \in 0 .. m, NEW r, Agrees(r, nw, w, f, j, m), NEW cp \in CheckpointType,
           cp.valid = Now(nw, w, f, j), cp.visible = Now(nw, w, f, j)
    PROVE  Agrees(restore(r, cp), nw, w, f, j, j)
  <1>0. j \in Nat /\ {nw[k] : k \in j + 1 .. j} = {} /\ r \in RatType
    BY DEF Entries, Agrees
  <1> DEFINE s == restore(r, cp)
  <1>1. /\ s \in RatType
        /\ s.table = r.table
        /\ s.valid = cp.valid
        /\ s.visible = cp.visible
        /\ s.commit = r.commit
        /\ s.ok = r.ok
    BY <1>0, RestoreFields
  <1> HIDE DEF s
  <1>2. s.commit \cap s.valid = Now(nw, w, f, j)
    BY <1>1 DEF Agrees
  <1>3. QED
    BY <1>0, <1>1, <1>2 DEF Agrees, s

(* The recursive function that applies a queue of requests exists.          *)
LEMMA TablesDefined ==
    ASSUME NEW r, NEW q, Len(q) \in Nat
    PROVE  Tables(r, q) = [n \in 0 .. Len(q) |->
                              IF n = 0 THEN r ELSE Apply(Tables(r, q)[n - 1], q[n])]
  <1> DEFINE N == Len(q)
             Iterates(g, m) == g = [n \in 0 .. m |-> IF n = 0 THEN r ELSE Apply(g[n - 1], q[n])]
             T == {m \in Nat : \E g : Iterates(g, m)}
  <1>1. 0 \in T
    <2>1. Iterates([n \in 0 .. 0 |-> r], 0)
      OBVIOUS
    <2>2. QED
      BY <2>1, Zenon
  <1>2. ASSUME NEW m \in Nat, m \in T PROVE m + 1 \in T
    <2>1. PICK g : Iterates(g, m)
      BY <1>2
    <2> DEFINE h == [n \in 0 .. m + 1 |-> IF n <= m THEN g[n] ELSE Apply(g[m], q[m + 1])]
    <2>2. ASSUME NEW n \in 0 .. m + 1
          PROVE  h[n] = IF n = 0 THEN r ELSE Apply(h[n - 1], q[n])
      <3>1. CASE n = 0
        <4>1. g[0] = r
          BY <2>1
        <4>2. QED
          BY <3>1, <4>1
      <3>2. CASE n # 0 /\ n <= m
        <4>1. g[n] = Apply(g[n - 1], q[n])
          BY <2>1, <3>2
        <4>2. h[n] = g[n] /\ h[n - 1] = g[n - 1]
          BY <3>2
        <4>3. QED
          BY <3>2, <4>1, <4>2
      <3>3. CASE n = m + 1
        <4>1. h[n - 1] = g[m] /\ n # 0
          BY <3>3
        <4>2. h[n] = Apply(g[m], q[m + 1])
          BY <3>3
        <4>3. QED
          BY <3>3, <4>1, <4>2
      <3>4. QED
        BY <3>1, <3>2, <3>3
    <2>3. Iterates(h, m + 1)
      BY <2>2
    <2>4. m + 1 \in Nat
      OBVIOUS
    <2> HIDE DEF h, Iterates
    <2>5. QED
      BY <2>3, <2>4
  <1>3. N \in T
    <2> HIDE DEF T
    <2>1. QED
      BY <1>1, <1>2, NatInductionSet
  <1>4. PICK g : Iterates(g, N)
    BY <1>3
  <1>5. Tables(r, q) = CHOOSE after : Iterates(after, N)
    BY DEF Tables
  <1> HIDE DEF Iterates
  <1>6. Iterates(Tables(r, q), N)
    BY <1>4, <1>5
  <1>7. QED
    BY <1>6 DEF Iterates

(* Each request is applied to the table the earlier ones leave.             *)
LEMMA TablesNext ==
    ASSUME NEW r, NEW q, Len(q) \in Nat
    PROVE  /\ Tables(r, q)[0] = r
           /\ \A n \in 0 .. Len(q) - 1 : Tables(r, q)[n + 1] = Apply(Tables(r, q)[n], q[n + 1])
  <1> DEFINE t == Tables(r, q)
  <1>1. t = [n \in 0 .. Len(q) |-> IF n = 0 THEN r ELSE Apply(t[n - 1], q[n])]
    BY TablesDefined
  <1> HIDE DEF t
  <1>2. t[0] = r
    BY <1>1
  <1>3. ASSUME NEW n \in 0 .. Len(q) - 1 PROVE t[n + 1] = Apply(t[n], q[n + 1])
    <2>1. n + 1 \in 0 .. Len(q) /\ n + 1 # 0 /\ (n + 1) - 1 = n
      OBVIOUS
    <2>2. QED
      BY <1>1, <2>1
  <1>4. QED
    BY <1>2, <1>3 DEF t

(* A table depends on the requests before it only.                          *)
LEMMA TablesSame ==
    ASSUME NEW r, NEW q, NEW s, Len(q) \in Nat, Len(s) \in Nat,
           NEW n \in Nat, n <= Len(q), n <= Len(s), \A k \in 1 .. n : q[k] = s[k]
    PROVE  Tables(r, q)[n] = Tables(r, s)[n]
  <1> DEFINE T == {i \in Nat : i <= n => Tables(r, q)[i] = Tables(r, s)[i]}
  <1>1. 0 \in T
    BY TablesNext
  <1>2. ASSUME NEW i \in Nat, i \in T PROVE i + 1 \in T
    <2>1. CASE i + 1 <= n
      <3>1. i \in 0 .. Len(q) - 1 /\ i \in 0 .. Len(s) - 1 /\ i <= n /\ i + 1 \in 1 .. n
        BY <2>1
      <3>2. Tables(r, q)[i] = Tables(r, s)[i] /\ q[i + 1] = s[i + 1]
        BY <1>2, <3>1
      <3>3. Tables(r, q)[i + 1] = Apply(Tables(r, q)[i], q[i + 1])
        BY <3>1, TablesNext
      <3>4. Tables(r, s)[i + 1] = Apply(Tables(r, s)[i], s[i + 1])
        BY <3>1, TablesNext
      <3>5. QED
        BY <3>2, <3>3, <3>4
    <2>2. CASE ~ (i + 1 <= n)
      BY <2>2
    <2>3. QED
      BY <2>1, <2>2
  <1>3. n \in T
    <2> HIDE DEF T
    <2>1. QED
      BY <1>1, <1>2, NatInductionSet
  <1>4. QED
    BY <1>3

(* An empty queue changes nothing.                                          *)
LEMMA AppliedNone ==
    ASSUME NEW r, NEW q, Len(q) = 0
    PROVE  Applied(r, q) = r
  BY TablesNext DEF Applied

(* The last request is applied last.                                        *)
LEMMA AppliedAppend ==
    ASSUME NEW r, NEW S, NEW q \in Seq(S), NEW x \in S
    PROVE  Applied(r, Append(q, x)) = Apply(Applied(r, q), x)
  <1> DEFINE s == Append(q, x)
  <1>1. /\ Len(q) \in Nat /\ Len(s) = Len(q) + 1 /\ s[Len(q) + 1] = x
        /\ \A k \in 1 .. Len(q) : s[k] = q[k]
    BY AppendProperties, LenProperties
  <1> HIDE DEF s
  <1>2. Tables(r, s)[Len(q)] = Tables(r, q)[Len(q)]
    BY <1>1, TablesSame
  <1>3. Tables(r, s)[Len(q) + 1] = Apply(Tables(r, s)[Len(q)], x)
    BY <1>1, TablesNext
  <1>4. QED
    BY <1>1, <1>2, <1>3 DEF Applied, s

-----------------------------------------------------------------------------
(* A group retires, a group is renamed.                                     *)
LEMMA RetireMany ==
    ASSUME NEW nw, NEW od, NEW w, NEW f, NEW m, Entries(nw, od, w, f, m),
           NEW r, Agrees(r, nw, w, f, 0, m), NEW n \in 0 .. m,
           NEW q, Len(q) \in Nat, n <= Len(q), \A k \in 1 .. n : q[k] = Retiring(nw, od, k)
    PROVE  Agrees(Tables(r, q)[n], nw, w, f, n, m)
  <1> DEFINE T == {i \in Nat : i <= n => Agrees(Tables(r, q)[i], nw, w, f, i, m)}
  <1>0. m \in Nat /\ n \in Nat
    BY DEF Entries
  <1>1. 0 \in T
    BY TablesNext
  <1>2. ASSUME NEW i \in Nat, i \in T PROVE i + 1 \in T
    <2>1. CASE i + 1 <= n
      <3>1. i \in 0 .. Len(q) - 1 /\ i <= n /\ i + 1 \in 1 .. n /\ i \in 0 .. m /\ i < m
        BY <1>0, <2>1
      <3>2. Agrees(Tables(r, q)[i], nw, w, f, i, m)
        BY <1>2, <3>1
      <3>3. Tables(r, q)[i + 1] = Apply(Tables(r, q)[i], Retiring(nw, od, i + 1))
        BY <3>1, TablesNext
      <3>4. Agrees(Tables(r, q)[i + 1], nw, w, f, i + 1, m)
        BY <3>1, <3>2, <3>3, RetireOne
      <3>5. QED
        BY <3>4
    <2>2. CASE ~ (i + 1 <= n)
      BY <2>2
    <2>3. QED
      BY <2>1, <2>2
  <1>3. n \in T
    <2> HIDE DEF T
    <2>1. QED
      BY <1>0, <1>1, <1>2, NatInductionSet
  <1>4. QED
    BY <1>3

(* The requests of renamed instructions, behind b others.                   *)
LEMMA MapMany ==
    ASSUME NEW nw, NEW od, NEW w, NEW f, NEW n, Entries(nw, od, w, f, n),
           NEW r, NEW q, Len(q) \in Nat, NEW b \in Nat, NEW m \in 0 .. n,
           Agrees(Tables(r, q)[b], nw, w, f, 0, m),
           NEW g \in Nat, m + g <= n, b + g <= Len(q),
           \A k \in 1 .. g : q[b + k] = Mapping(nw, w, m + k)
    PROVE  Agrees(Tables(r, q)[b + g], nw, w, f, 0, m + g)
  <1> DEFINE T == {i \in Nat : i <= g => Agrees(Tables(r, q)[b + i], nw, w, f, 0, m + i)}
  <1>0. m \in Nat /\ n \in Nat /\ b + 0 = b /\ m + 0 = m
    BY DEF Entries
  <1>1. 0 \in T
    BY <1>0
  <1>2. ASSUME NEW i \in Nat, i \in T PROVE i + 1 \in T
    <2>1. CASE i + 1 <= g
      <3>1. /\ b + i \in 0 .. Len(q) - 1 /\ i <= g /\ i + 1 \in 1 .. g
            /\ m + i \in 0 .. n /\ m + i < n /\ 0 \in 0 .. m + i
            /\ (b + i) + 1 = b + (i + 1) /\ (m + i) + 1 = m + (i + 1)
        BY <1>0, <2>1
      <3>2. Agrees(Tables(r, q)[b + i], nw, w, f, 0, m + i)
        BY <1>2, <3>1
      <3>3. Tables(r, q)[(b + i) + 1] = Apply(Tables(r, q)[b + i], q[(b + i) + 1])
        BY <3>1, TablesNext
      <3>4. q[(b + i) + 1] = Mapping(nw, w, (m + i) + 1)
        BY <3>1
      <3>5. Agrees(Tables(r, q)[(b + i) + 1], nw, w, f, 0, (m + i) + 1)
        BY <3>1, <3>2, <3>3, <3>4, MapOne
      <3>6. QED
        BY <3>1, <3>5
    <2>2. CASE ~ (i + 1 <= g)
      BY <2>2
    <2>3. QED
      BY <2>1, <2>2
  <1>3. g \in T
    <2> HIDE DEF T
    <2>1. QED
      BY <1>0, <1>1, <1>2, NatInductionSet
  <1>4. QED
    BY <1>3

-----------------------------------------------------------------------------
(* The mapping depends on the entries up to the one in question, and may be *)
(* counted from any of them.                                                *)
LEMMA LatestSame ==
    ASSUME NEW nw, NEW w, NEW f, NEW nx, NEW x, NEW a, NEW m \in Nat,
           \A k \in 1 .. m : nw[k] = nx[k] /\ w[k] = x[k], NEW i \in 0 .. m
    PROVE  Latest(nw, w, f, a, i) = Latest(nx, x, f, a, i)
  <1> DEFINE K == {k \in 1 .. i : w[k] = a}
  <1>1. {k \in 1 .. i : x[k] = a} = K
    OBVIOUS
  <1>2. CASE K = {}
    BY <1>1, <1>2 DEF Latest
  <1>3. CASE K # {}
    <2>1. Newest(K) \in K
      <3>1. K \subseteq 1 .. i /\ i \in Nat
        OBVIOUS
      <3> HIDE DEF K
      <3>2. QED
        BY <1>3, <3>1, NewestIs
    <2>2. Newest(K) \in 1 .. m
      BY <2>1
    <2>3. Latest(nw, w, f, a, i) = nw[Newest(K)] /\ Latest(nx, x, f, a, i) = nx[Newest(K)]
      BY <1>1, <1>3 DEF Latest
    <2>4. QED
      BY <2>2, <2>3
  <1>4. QED
    BY <1>2, <1>3

Shifted(nw, w, f, nx, wx, fx, a, j, m) ==
    /\ \A k \in 1 .. m : nx[k] = nw[j + k] /\ wx[k] = w[j + k]
    /\ fx[a] = Latest(nw, w, f, a, j)

(* The mapping after entries that follow others.                            *)
LEMMA LatestShift ==
    ASSUME NEW nw, NEW w, NEW f, NEW nx, NEW wx, NEW fx, NEW a, NEW j \in Nat, NEW m \in Nat,
           Shifted(nw, w, f, nx, wx, fx, a, j, m), NEW i \in 0 .. m
    PROVE  Latest(nx, wx, fx, a, i) = Latest(nw, w, f, a, j + i)
  <1> DEFINE T == {n \in Nat : n <= m => Latest(nx, wx, fx, a, n) = Latest(nw, w, f, a, j + n)}
  <1>0. \A b \in Nat : Latest(nx, wx, fx, a, b + 1) = IF wx[b + 1] = a THEN nx[b + 1]
                                                     ELSE Latest(nx, wx, fx, a, b)
    BY ONLY LatestNext
  <1>1. 0 \in T
    <2>1. j + 0 = j
      OBVIOUS
    <2>2. QED
      BY <2>1, LatestNone DEF Shifted
  <1>2. ASSUME NEW n \in Nat, n \in T PROVE n + 1 \in T
    <2>1. CASE n + 1 <= m
      <3>1. n + 1 \in 1 .. m /\ (j + n) + 1 = j + (n + 1) /\ j + n \in Nat
        BY <2>1
      <3>2. Latest(nx, wx, fx, a, n) = Latest(nw, w, f, a, j + n)
        BY <1>2, <2>1
      <3>3. nx[n + 1] = nw[(j + n) + 1] /\ wx[n + 1] = w[(j + n) + 1]
        BY <3>1 DEF Shifted
      <3>4. Latest(nx, wx, fx, a, n + 1) = IF wx[n + 1] = a THEN nx[n + 1] ELSE Latest(nx, wx, fx, a, n)
        BY <1>0
      <3>5. Latest(nw, w, f, a, (j + n) + 1) = IF w[(j + n) + 1] = a THEN nw[(j + n) + 1]
                                               ELSE Latest(nw, w, f, a, j + n)
        BY <3>1, LatestNext
      <3>6. Latest(nx, wx, fx, a, n + 1) = Latest(nw, w, f, a, (j + n) + 1)
        BY <3>2, <3>3, <3>4, <3>5
      <3>7. QED
        BY <3>1, <3>6
    <2>2. CASE ~ (n + 1 <= m)
      BY <2>2
    <2>3. QED
      BY <2>1, <2>2
  <1>3. i \in T
    <2> HIDE DEF T
    <2>1. QED
      BY <1>1, <1>2, NatInductionSet
  <1>4. QED
    BY <1>3

(* n entries after the first j of m.                                        *)
Part(nw, od, w, f, m, nx, ox, wx, fx, j, n) ==
    /\ Entries(nw, od, w, f, m)
    /\ j \in Nat /\ n \in Nat /\ j + n <= m
    /\ \A k \in 1 .. n : nx[k] = nw[j + k] /\ ox[k] = od[j + k] /\ wx[k] = w[j + k]
    /\ fx \in [Arch -> Phy] /\ \A a \in Arch : fx[a] = Latest(nw, w, f, a, j)

(* The entries that are left have the mapping they had.                     *)
LEMMA PartLatest ==
    ASSUME NEW nw, NEW od, NEW w, NEW f, NEW m, NEW nx, NEW ox, NEW wx, NEW fx, NEW j, NEW n,
           Part(nw, od, w, f, m, nx, ox, wx, fx, j, n), NEW a \in Arch, NEW i \in 0 .. n
    PROVE  Latest(nx, wx, fx, a, i) = Latest(nw, w, f, a, j + i)
  <1>1. j \in Nat /\ n \in Nat /\ Shifted(nw, w, f, nx, wx, fx, a, j, n)
    BY DEF Part, Shifted
  <1>2. QED
    BY <1>1, LatestShift

(* The same for all registers.                                              *)
LEMMA PartNow ==
    ASSUME NEW nw, NEW od, NEW w, NEW f, NEW m, NEW nx, NEW ox, NEW wx, NEW fx, NEW j, NEW n,
           Part(nw, od, w, f, m, nx, ox, wx, fx, j, n), NEW i \in 0 .. n
    PROVE  Now(nx, wx, fx, i) = Now(nw, w, f, j + i)
  BY PartLatest DEF Now

(* They are entries over the mapping before them.                           *)
LEMMA PartEntries ==
    ASSUME NEW nw, NEW od, NEW w, NEW f, NEW m, NEW nx, NEW ox, NEW wx, NEW fx, NEW j, NEW n,
           Part(nw, od, w, f, m, nx, ox, wx, fx, j, n)
    PROVE  Entries(nx, ox, wx, fx, n)
  <1>0. /\ Entries(nw, od, w, f, m) /\ j \in Nat /\ n \in Nat /\ m \in Nat /\ j + n <= m
        /\ j \in 0 .. m
        /\ \A k \in 1 .. n : nx[k] = nw[j + k] /\ ox[k] = od[j + k] /\ wx[k] = w[j + k]
        /\ fx \in [Arch -> Phy] /\ \A a \in Arch : fx[a] = Latest(nw, w, f, a, j)
    BY DEF Part, Entries
  <1>1. \A k \in 1 .. n : /\ j + k \in 1 .. m /\ j + k \in j + 1 .. m
                          /\ k - 1 \in 0 .. n /\ (j + k) - 1 = j + (k - 1)
    BY <1>0
  <1>2. \A a, b \in Arch : fx[a] = fx[b] => a = b
    BY <1>0, LatestInjective
  <1>3. ASSUME NEW k \in 1 .. n
        PROVE  /\ nx[k] \in Phy \cup {None} /\ wx[k] \in Arch \cup {None}
               /\ wx[k] = None <=> nx[k] = None
    BY <1>0, <1>1 DEF Entries
  <1>4. ASSUME NEW k \in 1 .. n, NEW a \in Arch PROVE nx[k] # fx[a]
    BY <1>0, <1>1, LatestOther
  <1>5. ASSUME NEW i \in 1 .. n, NEW k \in 1 .. n, nx[i] = nx[k] /\ nx[i] # None PROVE i = k
    <2>1. j + i = j + k
      BY <1>0, <1>1, <1>5 DEF Entries
    <2>2. QED
      BY <2>1, <1>0
  <1>6. ASSUME NEW k \in 1 .. n
        PROVE  ox[k] = IF wx[k] = None THEN None ELSE Latest(nx, wx, fx, wx[k], k - 1)
    <2>1. od[j + k] = IF w[j + k] = None THEN None
                      ELSE Latest(nw, w, f, w[j + k], (j + k) - 1)
      BY <1>0, <1>1 DEF Entries
    <2>2. \A a \in Arch : Latest(nx, wx, fx, a, k - 1) = Latest(nw, w, f, a, j + (k - 1))
      BY <1>1, PartLatest
    <2>3. QED
      BY <1>0, <1>1, <1>3, <2>1, <2>2
  <1>7. QED
    BY <1>0, <1>2, <1>3, <1>4, <1>5, <1>6 DEF Entries

(* The table agrees with them.                                              *)
LEMMA PartAgrees ==
    ASSUME NEW nw, NEW od, NEW w, NEW f, NEW m, NEW nx, NEW ox, NEW wx, NEW fx, NEW j, NEW n,
           Part(nw, od, w, f, m, nx, ox, wx, fx, j, n), NEW r, Agrees(r, nw, w, f, j, j + n)
    PROVE  Agrees(r, nx, wx, fx, 0, n)
  <1>0. /\ j \in Nat /\ n \in Nat
        /\ \A k \in 1 .. n : nx[k] = nw[j + k] /\ wx[k] = w[j + k]
        /\ j + 0 = j /\ 0 \in 0 .. n /\ n \in 0 .. n
    BY DEF Part
  <1>1. /\ Now(nx, wx, fx, 0) = Now(nw, w, f, j) /\ Now(nx, wx, fx, n) = Now(nw, w, f, j + n)
        /\ \A a \in Arch : Latest(nx, wx, fx, a, 0) = Latest(nw, w, f, a, j)
    BY <1>0, PartNow, PartLatest
  <1>2. /\ \A k \in j + 1 .. j + n : k - j \in 1 .. n /\ j + (k - j) = k
        /\ \A k \in 0 + 1 .. n : k \in 1 .. n /\ j + k \in j + 1 .. j + n
        /\ 0 + 1 = 1
    BY <1>0
  <1>3. {nx[k] : k \in 0 + 1 .. n} = {nw[k] : k \in j + 1 .. j + n}
    <2>1. \A k \in j + 1 .. j + n : nw[k] = nx[k - j]
      BY <1>0, <1>2
    <2>2. QED
      BY <1>0, <1>2, <2>1
  <1>4. \A k \in 0 + 1 .. n : nx[k] # None => r.table[nx[k]] = wx[k]
    BY <1>0, <1>2 DEF Agrees
  <1>5. QED
    BY <1>1, <1>3, <1>4 DEF Agrees

-----------------------------------------------------------------------------
(* A table with more registers in use, of which the visible ones are the    *)
(* same: the view rename has of the table while retirements are queued.     *)
Hides(r, t) == /\ r \in RatType /\ t \in RatType
               /\ r.valid \subseteq t.valid /\ r.visible = t.visible
               /\ r.visible \subseteq r.valid
               /\ \A p \in r.valid : r.table[p] = t.table[p]

(* A set_map keeps one table behind the other.                              *)
LEMMA HidesOne ==
    ASSUME NEW r, NEW t, Hides(r, t), NEW a \in Arch, NEW p \in Phy
    PROVE  Hides(set_map(r, a, p), set_map(t, a, p)) /\ t.valid \subseteq set_map(t, a, p).valid
  <1> DEFINE u == set_map(r, a, p)
             v == set_map(t, a, p)
  <1>1. r \in RatType /\ t \in RatType
    BY DEF Hides
  <1>2. Mapped(r, a) = Mapped(t, a)
    BY DEF Hides, Mapped
  <1>3. /\ u \in RatType
        /\ u.table = [r.table EXCEPT ![p] = a]
        /\ u.valid = r.valid \cup {p}
        /\ u.visible = (r.visible \ Mapped(r, a)) \cup {p}
    BY <1>1, SetMapFields
  <1>4. /\ v \in RatType
        /\ v.table = [t.table EXCEPT ![p] = a]
        /\ v.valid = t.valid \cup {p}
        /\ v.visible = (t.visible \ Mapped(t, a)) \cup {p}
    BY <1>1, SetMapFields
  <1> HIDE DEF u, v
  <1>5. \A x \in u.valid : u.table[x] = v.table[x]
    BY <1>1, <1>3, <1>4 DEF Hides, RatType
  <1>6. Hides(u, v)
    BY <1>2, <1>3, <1>4, <1>5 DEF Hides
  <1>7. QED
    BY <1>4, <1>6 DEF u, v

-----------------------------------------------------------------------------
(* The state a pass is about to leave: the requests queued so far applied.  *)
Ring(p, k) == (p + k - 1) % RobSize
Place(p, c) == IF c >= p THEN c - p + 1 ELSE c - p + CpSize + 1

Pops == IF rob.cnt = 0 THEN 0 ELSE rob_q.pop
Left == rob.cnt - Pops
Ids == [k \in 1 .. Left |-> Ring(rob.rptr, Pops + k)]
After(i, buf, done) == IF \E r \in done : r.op.rob_id = i
                       THEN Finished(buf[i], CHOOSE r \in done : r.op.rob_id = i) ELSE buf[i]
Es == [k \in 1 .. Left |-> After(Ring(rob.rptr, Pops + k), rob.buf, rob_q.done)]
Table == Applied(rat, rat_q)
Bits == RegSync(data_valid, reg_q)
Filled(c, set) == {j \in 1 .. Len(set) : set[j].id = c}
Contents == [c \in CpId |-> IF Filled(c, cp_q.set) = {} THEN cpb.buf[c]
                            ELSE cp_q.set[Newest(Filled(c, cp_q.set))].cp]
CpPops == IF cp_q.pop /\ cpb.cnt > 0 THEN 1 ELSE 0

(* No flush is going on.                                                    *)
Calm == cur_state = "normal" /\ ~ feedback.flush

(* The entries in force, the registers they write and replace.              *)
Standing == IF cur_state = "normal" THEN Left ELSE Position(restore_rob_item_id) - Pops
New == [k \in 1 .. Standing |-> Es[k].new]
Old == [k \in 1 .. Standing |-> Es[k].old]

-----------------------------------------------------------------------------
Writes(t, nw, m) == [k \in 1 .. m |-> IF nw[k] = None THEN None ELSE t.table[nw[k]]]
MapOK(t, nw, od, f, m) == /\ Entries(nw, od, Writes(t, nw, m), f, m)
                          /\ Agrees(t, nw, Writes(t, nw, m), f, 0, m)
MapInv == MapOK(Table, New, Old, arf, Standing)
Dest == Writes(Table, New, Standing)

(* What rename sees of the table hides nothing but registers to be freed.   *)
Ahead == stage \in {"execute", "rename"} /\ Calm => Hides(Table, rat)

-----------------------------------------------------------------------------
LiveResults == IF stage = "execute" THEN {} ELSE wb_commit
Ops(b, rs) == b \cup {r.op : r \in rs}
OpsOK(n, ids, es, b, rs) ==
    /\ \A o \in Ops(b, rs) : \E k \in 1 .. n :
          ids[k] = o.rob_id /\ ~ es[k].finish /\ es[k].new = o.rd_phy
    /\ \A o1, o2 \in Ops(b, rs) : o1.rob_id = o2.rob_id => o1 = o2
    /\ \A r1, r2 \in rs : r1.op = r2.op => r1 = r2
    /\ \A r \in rs : r.op \notin b
    /\ \A k \in 1 .. n : ~ es[k].finish => \E o \in Ops(b, rs) : o.rob_id = ids[k]
OpsInv == Calm => OpsOK(Left, Ids, Es, backend, LiveResults)

KindOK(n, es, rs) == /\ \A r \in rs : r.miss => r.op.cp # None
                     /\ \A k \in 1 .. n : es[k].miss => es[k].cp # None
                     /\ \A k \in 1 .. n : es[k].has_exception => es[k].finish
KindInv == Calm => KindOK(Left, Es, LiveResults)

Unwritten(n, es, b, rs) ==
    {o.rd_phy : o \in b} \cup {r.op.rd_phy : r \in {x \in rs : x.has_exception}}
        \cup {es[k].new : k \in {j \in 1 .. n : es[j].has_exception}}
BitsInv == /\ {arf[a] : a \in Arch} \subseteq Bits /\ Bits \subseteq Table.valid
           /\ Calm => Bits = Table.valid \ Unwritten(Left, Es, backend, LiveResults)

-----------------------------------------------------------------------------
(* The checkpoints of the instructions in the ROB and behind it.            *)
CpOf(ids, es, os, k) == IF es[k].finish THEN es[k].cp
                        ELSE (CHOOSE o \in os : o.rob_id = ids[k]).cp
Claims == [k \in 1 .. Left + Len(fifo) |->
              IF k <= Left THEN CpOf(Ids, Es, Ops(backend, LiveResults), k)
              ELSE fifo[k - Left].cp]
ClaimsOK(n, cl, p, pops, cnt) ==
    /\ \A k \in 1 .. n : cl[k] # None => /\ cl[k] \in CpId
                                         /\ pops < Place(p, cl[k]) /\ Place(p, cl[k]) <= cnt
    /\ \A j, k \in 1 .. n : cl[j] # None /\ cl[k] # None /\ j < k =>
                               Place(p, cl[j]) < Place(p, cl[k])
KeptOK(n, cl, cs, nw, w, f, es) ==
    \A k \in 1 .. n : cl[k] # None =>
       /\ cs[cl[k]].visible = Now(nw, w, f, k)
       /\ cs[cl[k]].visible \subseteq cs[cl[k]].valid
       /\ es[k].old # None => es[k].old \in cs[cl[k]].valid
CpInv == Calm => /\ ClaimsOK(Left + Len(fifo), Claims, cpb.rptr, CpPops, cpb.cnt)
                 /\ KeptOK(Left, Claims, Contents, New, Dest, arf, Es)

-----------------------------------------------------------------------------
(* The course of a pass and of a walk back.                                 *)
RegRequest == [op : {"clear"}, phy : Phy \cup {None}] \cup [op : {"set"}, phys : SUBSET Phy]
         \cup [op : {"restore"}, valid : SUBSET Phy]
CpRequest == [id : CpId \cup {None}, cp : CheckpointType]
Queues ==
    /\ reg_q \in Seq(RegRequest)
    /\ cp_q \in [pop : BOOLEAN, set : Seq(CpRequest)]
    /\ rob_q \in [pop : 0 .. CommitWidth, done : SUBSET Result]
    /\ Pops <= rob.cnt
    /\ \A r \in rob_q.done : \E k \in 1 .. Left : r.op.rob_id = Ids[k]
    /\ \A k \in 1 .. Left : rob.buf[Ids[k]] \in RobItem
Pass ==
    /\ stage = "commit" => /\ rat_q = << >> /\ reg_q = << >> /\ rob_q = [pop |-> 0, done |-> {}]
                           /\ cp_q = [pop |-> FALSE, set |-> << >>] /\ feedback = NoFeedback
    /\ stage \in {"execute", "rename"} => cp_q.set = << >>
    /\ cur_state # "normal" => feedback.flush \/ stage = "commit"
    /\ Calm => (cp_q.pop => cpb.cnt > 0) /\ rob_q.pop <= rob.cnt
    /\ ~ Calm /\ stage # "execute" => backend = {} /\ wb_commit = {}
    /\ ~ Calm /\ stage \in {"sync", "commit"} => fifo = << >>
    /\ feedback.flush /\ cur_state = "normal" => rob.cnt = 0
WalkInv ==
    cur_state # "normal" => /\ Standing \in 1 .. Left
                            /\ restore_rob_item_id = Ids[Standing] /\ rob_item_id = Ids[1]

RenameInv == /\ TypeOK /\ rat.ok /\ Queues /\ Pass /\ WalkInv
             /\ MapInv /\ Ahead /\ OpsInv /\ KindInv /\ BitsInv /\ CpInv

(* The ring of ids: modulo removes one lap or none.                         *)
LEMMA Lap ==
    ASSUME NEW n \in Nat \ {0}, NEW x \in 0 .. 2 * n - 1
    PROVE  x % n = IF x < n THEN x ELSE x - n
  <1>1. CASE x < n
    BY <1>1
  <1>2. CASE x >= n
    <2> DEFINE d == x - n
    <2>1. d \in 0 .. n - 1 /\ x = d + n
      BY <1>2
    <2> HIDE DEF d
    <2>2. (d + n) % n = d
      BY <2>1
    <2>3. QED
      BY <1>2, <2>1, <2>2 DEF d
  <1>3. QED
    BY <1>1, <1>2

(* The ring adds one lap or none.                                           *)
LEMMA RingIs ==
    ASSUME NEW p \in RobId, NEW k \in 1 .. RobSize + 1
    PROVE  /\ Ring(p, k) = IF p + k - 1 < RobSize THEN p + k - 1 ELSE p + k - 1 - RobSize
           /\ Ring(p, k) \in RobId
  <1>1. RobSize \in Nat \ {0}
    BY SizesAssumption
  <1>2. p + k - 1 \in 0 .. 2 * RobSize - 1
    BY <1>1 DEF RobId
  <1>3. Ring(p, k) = IF p + k - 1 < RobSize THEN p + k - 1 ELSE p + k - 1 - RobSize
    <2> DEFINE x == p + k - 1
    <2>1. x % RobSize = IF x < RobSize THEN x ELSE x - RobSize
      <3> HIDE DEF x
      <3>1. x \in 0 .. 2 * RobSize - 1
        BY <1>2 DEF x
      <3>2. QED
        BY <1>1, <3>1, Lap
    <2>2. Ring(p, k) = x % RobSize
      BY DEF Ring
    <2>3. Ring(p, k) = IF x < RobSize THEN x ELSE x - RobSize
      <3> HIDE DEF x
      <3>1. QED
        BY <2>1, <2>2
    <2>4. QED
      BY <1>1, <2>3 DEF RobId, x
  <1>4. QED
    BY <1>1, <1>2, <1>3 DEF RobId

(* Different positions of the window have different ids.                    *)
LEMMA RingInjective ==
    ASSUME NEW p \in RobId, NEW j \in 1 .. RobSize, NEW k \in 1 .. RobSize, Ring(p, j) = Ring(p, k)
    PROVE  j = k
  <1> DEFINE R(n) == IF p + n - 1 < RobSize THEN p + n - 1 ELSE p + n - 1 - RobSize
  <1>1. RobSize \in Nat \ {0} /\ j \in 1 .. RobSize + 1 /\ k \in 1 .. RobSize + 1
    BY SizesAssumption
  <1>2. Ring(p, j) = R(j) /\ Ring(p, k) = R(k)
    BY ONLY <1>1, RingIs, p \in RobId
  <1>3. R(j) = R(k)
    BY <1>2, Zenon
  <1>4. p \in 0 .. RobSize - 1 /\ j \in 1 .. RobSize /\ k \in 1 .. RobSize
    BY DEF RobId
  <1>5. QED
    BY ONLY <1>1, <1>3, <1>4

(* The window after n pops.                                                 *)
LEMMA RingShift ==
    ASSUME NEW p \in RobId, NEW n \in 0 .. RobSize, NEW k \in 1 .. RobSize, n + k <= RobSize
    PROVE  /\ (p + n) % RobSize \in RobId
           /\ Ring((p + n) % RobSize, k) = Ring(p, n + k)
  <1>1. RobSize \in Nat \ {0} /\ n + 1 \in 1 .. RobSize + 1 /\ k \in 1 .. RobSize + 1
        /\ n + k \in 1 .. RobSize + 1 /\ p + (n + 1) - 1 = p + n
    BY SizesAssumption DEF RobId
  <1> DEFINE q == Ring(p, n + 1)
  <1>2. q = (p + n) % RobSize
    BY <1>1 DEF Ring
  <1>3. q = (IF p + n < RobSize THEN p + n ELSE p + n - RobSize) /\ q \in RobId
    BY <1>1, RingIs
  <1> HIDE DEF q
  <1>4. Ring(q, k) = IF q + k - 1 < RobSize THEN q + k - 1 ELSE q + k - 1 - RobSize
    BY <1>1, <1>3, RingIs
  <1>5. Ring(p, n + k) = IF p + (n + k) - 1 < RobSize THEN p + (n + k) - 1
                         ELSE p + (n + k) - 1 - RobSize
    BY <1>1, RingIs
  <1>6. Ring(q, k) = Ring(p, n + k)
    BY <1>1, <1>3, <1>4, <1>5 DEF RobId
  <1>7. QED
    BY <1>2, <1>3, <1>6

(* The read pointer after n pops.                                           *)
LEMMA RingNext ==
    ASSUME NEW p \in RobId, NEW n \in 0 .. RobSize
    PROVE  (p + n) % RobSize \in RobId
  <1>1. RobSize \in Nat \ {0} /\ p + n \in Nat
    BY SizesAssumption DEF RobId
  <1>2. QED
    BY <1>1 DEF RobId

(* The position of an id in the ring.                                       *)
LEMMA RingPosition ==
    ASSUME NEW p \in RobId, NEW k \in 1 .. RobSize
    PROVE  ((Ring(p, k) + RobSize - p) % RobSize) + 1 = k
  <1>1. RobSize \in Nat \ {0} /\ k \in 1 .. RobSize + 1
    BY SizesAssumption
  <1>2. /\ Ring(p, k) = (IF p + k - 1 < RobSize THEN p + k - 1 ELSE p + k - 1 - RobSize)
        /\ Ring(p, k) \in RobId
    BY <1>1, RingIs
  <1> DEFINE x == Ring(p, k) + RobSize - p
  <1>3. x \in 0 .. 2 * RobSize - 1
    BY <1>1, <1>2 DEF RobId
  <1>4. x = k - 1 + RobSize \/ x = k - 1
    BY <1>1, <1>2 DEF RobId
  <1> HIDE DEF x
  <1>5. x % RobSize = IF x < RobSize THEN x ELSE x - RobSize
    BY <1>1, <1>3, Lap
  <1>6. x % RobSize = k - 1
    BY <1>1, <1>4, <1>5
  <1>7. QED
    BY <1>6 DEF x

(* get_prev_id is the id one position earlier.                              *)
LEMMA RingPrevious ==
    ASSUME NEW p \in RobId, NEW k \in 2 .. RobSize
    PROVE  (Ring(p, k) + RobSize - 1) % RobSize = Ring(p, k - 1)
  <1>1. RobSize \in Nat \ {0} /\ k \in 1 .. RobSize + 1 /\ k - 1 \in 1 .. RobSize + 1
    BY SizesAssumption
  <1>2. /\ Ring(p, k) = (IF p + k - 1 < RobSize THEN p + k - 1 ELSE p + k - 1 - RobSize)
        /\ Ring(p, k) \in RobId
        /\ Ring(p, k - 1) = (IF p + (k - 1) - 1 < RobSize THEN p + (k - 1) - 1
                             ELSE p + (k - 1) - 1 - RobSize)
    BY <1>1, RingIs
  <1> DEFINE x == Ring(p, k) + RobSize - 1
  <1>3. x \in 0 .. 2 * RobSize - 1
    BY <1>1, <1>2 DEF RobId
  <1>4. x % RobSize = IF x < RobSize THEN x ELSE x - RobSize
    BY <1>1, <1>3, Lap
  <1>5. QED
    BY <1>1, <1>2, <1>4 DEF RobId

(* The ids check_id_valid accepts are those of the window.                  *)
LEMMA InRingIs ==
    ASSUME NEW i, rob.cnt \in Nat, rob.rptr \in Nat
    PROVE  InRing(rob, RobSize, i) <=> \E k \in 1 .. rob.cnt : i = RobIdAt(k)
  <1>1. ASSUME NEW k \in 0 .. rob.cnt - 1, i = (rob.rptr + k) % RobSize
        PROVE  \E n \in 1 .. rob.cnt : i = RobIdAt(n)
    <2>1. k + 1 \in 1 .. rob.cnt /\ rob.rptr + (k + 1) - 1 = rob.rptr + k
      OBVIOUS
    <2>2. QED
      BY <1>1, <2>1 DEF RobIdAt
  <1>2. ASSUME NEW n \in 1 .. rob.cnt, i = RobIdAt(n)
        PROVE  \E k \in 0 .. rob.cnt - 1 : i = (rob.rptr + k) % RobSize
    <2>1. n - 1 \in 0 .. rob.cnt - 1 /\ rob.rptr + n - 1 = rob.rptr + (n - 1)
      OBVIOUS
    <2>2. QED
      BY <1>2, <2>1 DEF RobIdAt
  <1>3. QED
    BY <1>1, <1>2 DEF InRing

(* The mapping of a part of the entries, which is all a step changes.       *)
Keeps(nw, od, w, f, m, j, n, t, nx, ox, fx) ==
    /\ Entries(nw, od, w, f, m)
    /\ j \in Nat /\ n \in Nat /\ j + n <= m
    /\ Agrees(t, nw, w, f, j, j + n)
    /\ \A k \in 1 .. n : nx[k] = nw[j + k] /\ ox[k] = od[j + k]
    /\ fx \in [Arch -> Phy] /\ \A a \in Arch : fx[a] = Latest(nw, w, f, a, j)

(* A table that agrees with the entries left satisfies the map invariant.   *)
LEMMA MapPart ==
    ASSUME NEW nw, NEW od, NEW w, NEW f, NEW m, NEW j, NEW n, NEW t, NEW nx, NEW ox, NEW fx,
           Keeps(nw, od, w, f, m, j, n, t, nx, ox, fx)
    PROVE  /\ MapOK(t, nx, ox, fx, n)
           /\ \A k \in 1 .. n : Writes(t, nx, n)[k] = w[j + k]
           /\ \A i \in 0 .. n : Now(nx, Writes(t, nx, n), fx, i) = Now(nw, w, f, j + i)
  <1> DEFINE wx == Writes(t, nx, n)
  <1> USE DEF Keeps
  <1>1. ASSUME NEW k \in 1 .. n PROVE wx[k] = w[j + k]
    <2>1. j + k \in 1 .. m /\ j + k \in j + 1 .. j + n
      BY DEF Entries
    <2>2. nw[j + k] # None => t.table[nw[j + k]] = w[j + k]
      BY <2>1 DEF Agrees
    <2>3. nw[j + k] = None => w[j + k] = None
      BY <2>1 DEF Entries
    <2>4. wx[k] = IF nx[k] = None THEN None ELSE t.table[nx[k]]
      BY DEF Writes
    <2>5. QED
      BY <2>2, <2>3, <2>4
  <1> HIDE DEF wx
  <1>2. Part(nw, od, w, f, m, nx, ox, wx, fx, j, n)
    BY <1>1 DEF Part
  <1>3. Entries(nx, ox, wx, fx, n) /\ Agrees(t, nx, wx, fx, 0, n)
    BY <1>2, PartEntries, PartAgrees
  <1>4. \A i \in 0 .. n : Now(nx, wx, fx, i) = Now(nw, w, f, j + i)
    BY <1>2, PartNow
  <1>5. QED
    BY <1>1, <1>3, <1>4 DEF MapOK, wx

-----------------------------------------------------------------------------
(* The valid bits after the requests of a queue.                            *)
About(q, p) == {j \in 1 .. Len(q) : Concerns(q[j], p)}

(* No request, no change.                                                   *)
LEMMA RegNone ==
    ASSUME NEW v, v \subseteq Phy, NEW q, Len(q) = 0
    PROVE  RegSync(v, q) = v
  <1>1. \A p \in Phy : {j \in 1 .. Len(q) : Concerns(q[j], p)} = {}
    OBVIOUS
  <1>2. QED
    BY <1>1 DEF RegSync

(* The last request about a register decides.                               *)
LEMMA RegMember ==
    ASSUME NEW v, NEW q, NEW p \in Phy
    PROVE  p \in RegSync(v, q) <=> IF About(q, p) = {} THEN p \in v
                                   ELSE Validates(q[Newest(About(q, p))], p)
  BY DEF RegSync, About

(* One more request.                                                        *)
LEMMA RegAppend ==
    ASSUME NEW v, NEW S, NEW q \in Seq(S), NEW x \in S, NEW p \in Phy
    PROVE  p \in RegSync(v, Append(q, x)) <=>
              IF Concerns(x, p) THEN Validates(x, p) ELSE p \in RegSync(v, q)
  <1> DEFINE s == Append(q, x)
             n == Len(q)
  <1>1. /\ n \in Nat /\ Len(s) = n + 1 /\ s[n + 1] = x
        /\ \A k \in 1 .. n : s[k] = q[k]
    BY AppendProperties, LenProperties
  <1> HIDE DEF s, n
  <1>2. n = Len(q)
    BY DEF n
  <1>3. CASE Concerns(x, p)
    <2>1. n + 1 \in About(s, p) /\ About(s, p) \subseteq Int /\ \A j \in About(s, p) : j <= n + 1
      BY <1>1, <1>3 DEF About
    <2>2. Newest(About(s, p)) = n + 1
      BY <2>1, NewestUnique
    <2>3. p \in RegSync(v, s) <=> Validates(x, p)
      BY <1>1, <2>1, <2>2, RegMember
    <2>4. QED
      BY <1>3, <2>3 DEF s
  <1>4. CASE ~ Concerns(x, p)
    <2>1. About(s, p) = About(q, p)
      <3>1. \A j \in 1 .. n + 1 : j = n + 1 \/ j \in 1 .. n
        BY <1>1
      <3>2. \A j \in 1 .. n : j \in 1 .. n + 1
        BY <1>1
      <3>3. QED
        BY <1>1, <1>2, <1>4, <3>1, <3>2 DEF About
    <2>2. CASE About(q, p) = {}
      BY <1>4, <2>1, <2>2, RegMember DEF s
    <2>3. CASE About(q, p) # {}
      <3>1. Newest(About(q, p)) \in About(q, p)
        <4>1. About(q, p) \subseteq 1 .. n
          BY <1>2 DEF About
        <4>2. QED
          BY <1>1, <2>3, <4>1, NewestIs
      <3>2. s[Newest(About(q, p))] = q[Newest(About(q, p))]
        BY <1>1, <1>2, <3>1 DEF About
      <3>3. QED
        BY <1>4, <2>1, <2>3, <3>2, RegMember DEF s
    <2>4. QED
      BY <2>2, <2>3
  <1>5. QED
    BY <1>3, <1>4

(* A queue of clears removes the registers it names.                        *)
LEMMA RegClears ==
    ASSUME NEW v, NEW q, Len(q) \in Nat, NEW o,
           \A k \in 1 .. Len(q) : q[k].op = "clear" /\ q[k].phy = o[k], NEW p \in Phy
    PROVE  p \in RegSync(v, q) <=> p \in v /\ \A k \in 1 .. Len(q) : o[k] # p
  <1>1. \A k \in 1 .. Len(q) : (Concerns(q[k], p) <=> o[k] = p) /\ ~ Validates(q[k], p)
    <2>1. ASSUME NEW k \in 1 .. Len(q)
          PROVE  (Concerns(q[k], p) <=> o[k] = p) /\ ~ Validates(q[k], p)
      <3>1. q[k].op = "clear" /\ q[k].phy = o[k]
        OBVIOUS
      <3>2. QED
        BY ONLY <3>1 DEF Concerns, Validates
    <2>2. QED
      BY <2>1
  <1>2. CASE About(q, p) = {}
    BY <1>1, <1>2, RegMember DEF About
  <1>3. CASE About(q, p) # {}
    <2>1. Newest(About(q, p)) \in About(q, p)
      <3>1. About(q, p) \subseteq 1 .. Len(q)
        BY DEF About
      <3>2. QED
        BY <1>3, <3>1, NewestIs
    <2>2. ~ (p \in RegSync(v, q))
      BY <1>1, <1>3, <2>1, RegMember DEF About
    <2>3. \E k \in 1 .. Len(q) : o[k] = p
      BY <1>1, <2>1 DEF About
    <2>4. QED
      BY <2>2, <2>3
  <1>4. QED
    BY <1>2, <1>3

(* The valid bits are of physical registers.                                *)
LEMMA RegTyped == ASSUME NEW v, NEW q PROVE RegSync(v, q) \subseteq Phy
  BY DEF RegSync

-----------------------------------------------------------------------------
(* An assert that holds leaves the table as it was.                         *)
LEMMA Asserted ==
    ASSUME NEW r \in RatType, r.ok, NEW A, A
    PROVE  [r EXCEPT !.ok = @ /\ A] = r
  BY DEF RatType

(* What the type invariant says of the entries that are left.               *)
LEMMA RobFields ==
    ASSUME TypeOK, Queues
    PROVE  /\ rob.rptr \in RobId /\ rob.cnt \in 0 .. RobSize /\ RobSize \in Nat \ {0}
           /\ rob.buf \in [RobId -> RobItem \cup {NoItem}]
           /\ Pops \in 0 .. RobSize /\ Left \in 0 .. RobSize /\ Pops + Left = rob.cnt
           /\ DOMAIN Ids = 1 .. Left /\ DOMAIN Es = 1 .. Left
           /\ \A k \in 1 .. Left : /\ Pops + k \in 1 .. rob.cnt /\ Pops + k \in 1 .. RobSize
                                   /\ Ids[k] = Ring(rob.rptr, Pops + k) /\ Ids[k] \in RobId
                                   /\ Es[k] = After(Ids[k], rob.buf, rob_q.done)
  <1>1. /\ rob.rptr \in RobId /\ rob.cnt \in 0 .. RobSize /\ RobSize \in Nat \ {0}
        /\ rob.buf \in [RobId -> RobItem \cup {NoItem}]
    BY SizesAssumption DEF TypeOK
  <1>2. rob_q.pop \in Nat
    BY DEF Queues
  <1>3. Pops \in 0 .. rob.cnt
    BY <1>1, <1>2 DEF Queues, Pops
  <1>4. Pops \in 0 .. RobSize /\ Left \in 0 .. RobSize /\ Pops + Left = rob.cnt
    BY <1>1, <1>3 DEF Left
  <1>5. ASSUME NEW k \in 1 .. Left
        PROVE  /\ Pops + k \in 1 .. rob.cnt /\ Pops + k \in 1 .. RobSize
               /\ Ids[k] = Ring(rob.rptr, Pops + k) /\ Ids[k] \in RobId
               /\ Es[k] = After(Ids[k], rob.buf, rob_q.done)
    <2>1. Pops + k \in 1 .. rob.cnt /\ Pops + k \in 1 .. RobSize /\ Pops + k \in 1 .. RobSize + 1
      BY <1>1, <1>4
    <2>2. Ids[k] = Ring(rob.rptr, Pops + k)
      BY DEF Ids
    <2>3. Es[k] = After(Ring(rob.rptr, Pops + k), rob.buf, rob_q.done)
      BY DEF Es
    <2>4. QED
      BY <1>1, <2>1, <2>2, <2>3, RingIs
  <1>6. DOMAIN Ids = 1 .. Left /\ DOMAIN Es = 1 .. Left
    BY DEF Ids, Es
  <1>7. QED
    BY <1>1, <1>4, <1>5, <1>6

(* The place of a checkpoint in the ring.                                   *)
LEMMA PlaceIs ==
    ASSUME NEW p \in CpId, NEW c \in CpId
    PROVE  Place(p, c) \in 1 .. CpSize /\ (Place(p, c) = 1 <=> c = p)
  BY SizesAssumption DEF Place, CpId

(* After a pop every checkpoint is one place nearer.                        *)
LEMMA PlaceNext ==
    ASSUME NEW p \in CpId, NEW c \in CpId, c # p
    PROVE  (p + 1) % CpSize \in CpId /\ Place((p + 1) % CpSize, c) = Place(p, c) - 1
  <1>1. CpSize \in Nat \ {0} /\ p \in 0 .. CpSize - 1 /\ c \in 0 .. CpSize - 1
    BY SizesAssumption DEF CpId
  <1>2. p + 1 \in 0 .. 2 * CpSize - 1
    BY <1>1
  <1>3. (p + 1) % CpSize = IF p + 1 < CpSize THEN p + 1 ELSE p + 1 - CpSize
    <2> DEFINE x == p + 1
    <2>1. x \in 0 .. 2 * CpSize - 1
      BY <1>2
    <2> HIDE DEF x
    <2>2. x % CpSize = IF x < CpSize THEN x ELSE x - CpSize
      BY <1>1, <2>1, Lap
    <2>3. QED
      BY <1>1, <2>2 DEF x
  <1> DEFINE q == (p + 1) % CpSize
  <1>4. q = (IF p + 1 < CpSize THEN p + 1 ELSE 0) /\ q \in 0 .. CpSize - 1
    BY <1>1, <1>3
  <1> HIDE DEF q
  <1>5. Place(q, c) = Place(p, c) - 1
    BY <1>1, <1>4 DEF Place
  <1>6. QED
    BY <1>4, <1>5 DEF q, CpId

(* The oldest checkpoint is given up.                                       *)
LEMMA ClaimsPop ==
    ASSUME NEW n, NEW cl, NEW p \in CpId, NEW cnt \in 0 .. CpSize, ClaimsOK(n, cl, p, 1, cnt)
    PROVE  ClaimsOK(n, cl, (p + 1) % CpSize, 0, cnt - 1)
  <1>1. ASSUME NEW k \in 1 .. n, cl[k] # None
        PROVE  /\ cl[k] \in CpId /\ Place(p, cl[k]) \in 2 .. cnt
               /\ Place((p + 1) % CpSize, cl[k]) = Place(p, cl[k]) - 1
    <2>1. cl[k] \in CpId /\ 1 < Place(p, cl[k]) /\ Place(p, cl[k]) <= cnt
      BY <1>1 DEF ClaimsOK
    <2>2. Place(p, cl[k]) \in 1 .. CpSize /\ cl[k] # p
      BY <2>1, PlaceIs
    <2>3. QED
      BY <2>1, <2>2, PlaceNext
  <1>2. ASSUME NEW k \in 1 .. n, cl[k] # None
        PROVE  /\ cl[k] \in CpId /\ 0 < Place((p + 1) % CpSize, cl[k])
               /\ Place((p + 1) % CpSize, cl[k]) <= cnt - 1
    BY <1>1, <1>2
  <1>3. ASSUME NEW j \in 1 .. n, NEW k \in 1 .. n, cl[j] # None, cl[k] # None, j < k
        PROVE  Place((p + 1) % CpSize, cl[j]) < Place((p + 1) % CpSize, cl[k])
    <2>1. Place(p, cl[j]) < Place(p, cl[k])
      BY <1>3 DEF ClaimsOK
    <2>2. QED
      BY <1>1, <1>3, <2>1
  <1>4. QED
    BY <1>2, <1>3 DEF ClaimsOK

(* Only the checkpoints that are claimed matter.                            *)
LEMMA KeptSame ==
    ASSUME NEW n, NEW cl, NEW cs, NEW ct, NEW nw, NEW w, NEW f, NEW es,
           KeptOK(n, cl, cs, nw, w, f, es),
           \A k \in 1 .. n : cl[k] # None => cs[cl[k]] = ct[cl[k]]
    PROVE  KeptOK(n, cl, ct, nw, w, f, es)
  BY DEF KeptOK

-----------------------------------------------------------------------------
(* sync: the view stays as it is.                                           *)
LEMMA FinishedItem ==
    ASSUME NEW item \in RobItem, NEW r \in Result
    PROVE  /\ Finished(item, r) \in RobItem
           /\ Finished(item, r).new = item.new /\ Finished(item, r).old = item.old
           /\ Finished(item, r).finish = TRUE
           /\ Finished(item, r).has_exception = r.has_exception
           /\ Finished(item, r).miss = r.miss /\ Finished(item, r).cp = r.op.cp
           /\ Finished(item, r).used = TRUE
  BY ZenonT(30) DEF Finished, RobItem, Result, InFlight

(* An entry stays an entry when its result is entered.                      *)
LEMMA AfterItem ==
    ASSUME NEW i, NEW buf, buf[i] \in RobItem, NEW done, done \subseteq Result
    PROVE  After(i, buf, done) \in RobItem
  <1>1. CASE \E r \in done : r.op.rob_id = i
    <2>1. (CHOOSE r \in done : r.op.rob_id = i) \in Result
      BY <1>1
    <2>2. QED
      BY <1>1, <2>1, FinishedItem DEF After
  <1>2. CASE ~ \E r \in done : r.op.rob_id = i
    BY <1>2 DEF After
  <1>3. QED
    BY <1>1, <1>2

(* The entries that are left are entries.                                   *)
LEMMA EsTyped ==
    ASSUME TypeOK, Queues, NEW k \in 1 .. Left
    PROVE  Es[k] \in RobItem
  <1>1. rob.buf[Ids[k]] \in RobItem /\ rob_q.done \subseteq Result
    BY DEF Queues
  <1>2. Es[k] = After(Ids[k], rob.buf, rob_q.done)
    BY RobFields
  <1>3. QED
    BY <1>1, <1>2, AfterItem

(* rob.sync does what the view of the entries says.                         *)
LEMMA SyncRob ==
    ASSUME TypeOK, Queues, Sync
    PROVE  /\ rob'.rptr \in RobId /\ rob'.cnt = Left /\ rob_q' = [pop |-> 0, done |-> {}]
           /\ rob' \in [buf : [RobId -> RobItem \cup {NoItem}], rptr : RobId, cnt : 0 .. RobSize]
           /\ Pops' = 0 /\ Left' = Left /\ Ids' = Ids /\ Es' = Es
           /\ \A k \in 1 .. Left : rob'.buf[Ids[k]] \in RobItem
           /\ \A k \in 1 .. Left : Ids[k] = Ring(rob'.rptr, k)
  <1> DEFINE popped == {(rob.rptr + k) % RobSize : k \in 0 .. Pops - 1}
             bf == [i \in RobId |->
                      IF \E r \in rob_q.done : r.op.rob_id = i
                      THEN Finished(rob.buf[i], CHOOSE r \in rob_q.done : r.op.rob_id = i)
                      ELSE IF i \in popped THEN NoItem ELSE rob.buf[i]]
             pt == (rob.rptr + Pops) % RobSize
  <1>1. rob' = [buf |-> bf, rptr |-> pt, cnt |-> Left] /\ rob_q' = [pop |-> 0, done |-> {}]
    BY DEF Sync, RobSync, Pops, Left
  <1>2. /\ rob.rptr \in RobId /\ rob.cnt \in 0 .. RobSize /\ RobSize \in Nat \ {0}
        /\ rob.buf \in [RobId -> RobItem \cup {NoItem}]
        /\ Pops \in 0 .. RobSize /\ Left \in 0 .. RobSize /\ Pops + Left = rob.cnt
        /\ DOMAIN Ids = 1 .. Left /\ DOMAIN Es = 1 .. Left
        /\ \A k \in 1 .. Left : /\ Pops + k \in 1 .. rob.cnt /\ Pops + k \in 1 .. RobSize
                                /\ Ids[k] = Ring(rob.rptr, Pops + k) /\ Ids[k] \in RobId
                                /\ Es[k] = After(Ids[k], rob.buf, rob_q.done)
    BY RobFields
  <1>3. rob_q.done \subseteq Result /\ \A k \in 1 .. Left : rob.buf[Ids[k]] \in RobItem
    BY DEF Queues
  <1>4. ASSUME NEW k \in 1 .. Left PROVE bf[Ids[k]] = Es[k] /\ Es[k] \in RobItem
    <2>1. Ids[k] \notin popped
      <3>1. ASSUME NEW j \in 0 .. Pops - 1, (rob.rptr + j) % RobSize = Ids[k] PROVE FALSE
        <4>1. j + 1 \in 1 .. RobSize /\ rob.rptr + (j + 1) - 1 = rob.rptr + j /\ j + 1 # Pops + k
          BY <1>2 DEF RobId
        <4>2. Ring(rob.rptr, j + 1) = Ring(rob.rptr, Pops + k)
          BY <1>2, <3>1, <4>1 DEF Ring
        <4>3. QED
          BY <1>2, <4>1, <4>2, RingInjective
      <3>2. QED
        BY <3>1
    <2>2. bf[Ids[k]] = After(Ids[k], rob.buf, rob_q.done)
      BY <1>2, <2>1 DEF After
    <2>3. QED
      BY <1>2, <2>2, EsTyped
  <1>5. bf \in [RobId -> RobItem \cup {NoItem}]
    <2>1. ASSUME NEW i \in RobId PROVE bf[i] \in RobItem \cup {NoItem}
      <3>1. CASE \E r \in rob_q.done : r.op.rob_id = i
        <4>1. \E k \in 1 .. Left : i = Ids[k]
          BY <3>1 DEF Queues
        <4>2. QED
          BY <4>1, <1>4
      <3>2. CASE ~ \E r \in rob_q.done : r.op.rob_id = i
        BY <1>2, <3>2
      <3>3. QED
        BY <3>1, <3>2
    <2>2. QED
      BY <2>1
  <1>6. pt \in RobId /\ \A k \in 1 .. Left : Ring(pt, k) = Ids[k]
    <2>1. pt \in RobId
      BY <1>2, RingNext
    <2>2. ASSUME NEW k \in 1 .. Left PROVE Ring(pt, k) = Ids[k]
      BY <1>2, RingShift
    <2>3. QED
      BY <2>1, <2>2
  <1> HIDE DEF bf, pt, popped
  <1>7. /\ rob'.buf = bf /\ rob'.rptr = pt /\ rob'.cnt = Left
        /\ rob_q'.pop = 0 /\ rob_q'.done = {}
    BY <1>1
  <1>8. Pops' = 0 /\ Left' = Left
    BY <1>2, <1>7 DEF Pops, Left
  <1>9. Ids' = [k \in 1 .. Left |-> Ring(pt, 0 + k)]
    BY <1>7, <1>8 DEF Ids
  <1>10. Es' = [k \in 1 .. Left |-> After(Ring(pt, 0 + k), bf, {})]
    BY <1>7, <1>8 DEF Es
  <1>11. \A k \in 1 .. Left : 0 + k = k
    OBVIOUS
  <1>12. Ids' = Ids
    <2>1. \A k \in 1 .. Left : Ring(pt, 0 + k) = Ids[k]
      BY <1>6, <1>11
    <2>2. Ids = [k \in 1 .. Left |-> Ids[k]]
      BY DEF Ids
    <2>3. QED
      BY <1>9, <2>1, <2>2
  <1>13. Es' = Es
    <2>1. \A k \in 1 .. Left : After(Ring(pt, 0 + k), bf, {}) = Es[k]
      BY <1>4, <1>6, <1>11 DEF After
    <2>2. Es = [k \in 1 .. Left |-> Es[k]]
      BY DEF Es
    <2>3. QED
      BY <1>10, <2>1, <2>2
  <1>14. QED
    BY <1>1, <1>2, <1>4, <1>5, <1>6, <1>7, <1>8, <1>12, <1>13

(* The table with the queued requests applied.                              *)
LEMMA TableTyped ==
    ASSUME MapInv
    PROVE  /\ Table \in RatType /\ Table.ok /\ Standing \in Nat
           /\ Table.valid = Now(New, Dest, arf, 0) \cup ({New[k] : k \in 0 + 1 .. Standing} \ {None})
           /\ Entries(New, Old, Dest, arf, Standing) /\ Agrees(Table, New, Dest, arf, 0, Standing)
  <1>1. Entries(New, Old, Dest, arf, Standing) /\ Agrees(Table, New, Dest, arf, 0, Standing)
    BY DEF MapInv, MapOK, Dest
  <1>2. QED
    BY <1>1 DEF Entries, Agrees

(* The mapping before all entries.                                          *)
LEMMA NowArf ==
    ASSUME NEW nw, NEW w, NEW f
    PROVE  Now(nw, w, f, 0) = {f[a] : a \in Arch}
  BY LatestNone DEF Now

(* The request that fills a checkpoint.                                     *)
LEMMA FilledIs ==
    ASSUME NEW q \in Seq(CpRequest), NEW c, Filled(c, q) # {}
    PROVE  /\ Newest(Filled(c, q)) \in 1 .. Len(q) /\ q[Newest(Filled(c, q))].id = c
           /\ q[Newest(Filled(c, q))].cp \in CheckpointType
  <1>1. Len(q) \in Nat /\ Filled(c, q) \subseteq 1 .. Len(q)
    BY LenProperties DEF Filled
  <1>2. Newest(Filled(c, q)) \in Filled(c, q)
    BY <1>1, NewestIs
  <1>3. Newest(Filled(c, q)) \in 1 .. Len(q) /\ q[Newest(Filled(c, q))].id = c
    BY <1>2 DEF Filled
  <1>4. q[Newest(Filled(c, q))] \in CpRequest
    BY <1>3, ElementOfSeq
  <1>5. QED
    BY <1>3, <1>4 DEF CpRequest

(* The contents of the buffer are checkpoints.                              *)
LEMMA ContentsTyped ==
    ASSUME TypeOK, Queues
    PROVE  Contents \in [CpId -> CheckpointType]
  <1>1. cp_q.set \in Seq(CpRequest) /\ cpb.buf \in [CpId -> CheckpointType]
    BY DEF Queues, TypeOK
  <1>2. ASSUME NEW c \in CpId PROVE Contents[c] \in CheckpointType
    <2>1. Contents[c] = IF Filled(c, cp_q.set) = {} THEN cpb.buf[c]
                        ELSE cp_q.set[Newest(Filled(c, cp_q.set))].cp
      BY DEF Contents
    <2>2. QED
      BY <1>1, <2>1, FilledIs
  <1>3. QED
    BY <1>2 DEF Contents

(* checkpoint_buffer.sync does what the view of its contents says.          *)
LEMMA SyncCpb ==
    ASSUME TypeOK, Queues, Sync
    PROVE  /\ cpb' \in [buf : [CpId -> CheckpointType], rptr : CpId, cnt : 0 .. CpSize]
           /\ cp_q' = [pop |-> FALSE, set |-> << >>] /\ CpPops' = 0
           /\ Contents' = cpb'.buf
           /\ CpPops = 0 => cpb'.rptr = cpb.rptr /\ cpb'.cnt = cpb.cnt /\ Contents' = Contents
           /\ CpPops # 0 => /\ CpPops = 1
                            /\ cpb'.rptr = (cpb.rptr + 1) % CpSize /\ cpb'.cnt = cpb.cnt - 1
                            /\ \A c \in CpId \ {cpb.rptr} : Contents'[c] = Contents[c]
  <1>1. cpb' = IF cp_q.pop /\ cpb.cnt > 0
               THEN [buf  |-> [Contents EXCEPT ![cpb.rptr] = NoCp],
                     rptr |-> (cpb.rptr + 1) % CpSize,
                     cnt  |-> cpb.cnt - 1]
               ELSE [cpb EXCEPT !.buf = Contents]
    BY DEF Sync, CpSync, Contents, Filled
  <1>2. cp_q' = [pop |-> FALSE, set |-> << >>]
    BY DEF Sync
  <1>3. CpPops' = 0 /\ cp_q'.set = << >>
    BY <1>2 DEF CpPops
  <1>4. Contents \in [CpId -> CheckpointType]
    BY ContentsTyped
  <1>5. /\ cpb \in [buf : [CpId -> CheckpointType], rptr : CpId, cnt : 0 .. CpSize]
        /\ CpSize \in Nat \ {0}
    BY SizesAssumption DEF TypeOK
  <1>6. NoCp \in CheckpointType
    BY DEF NoCp, CheckpointType
  <1>7. (cpb.rptr + 1) % CpSize \in CpId
    BY <1>5 DEF CpId
  <1>8. /\ cpb' \in [buf : [CpId -> CheckpointType], rptr : CpId, cnt : 0 .. CpSize]
        /\ CpPops = 0 => cpb'.rptr = cpb.rptr /\ cpb'.cnt = cpb.cnt /\ cpb'.buf = Contents
        /\ CpPops # 0 => /\ CpPops = 1
                         /\ cpb'.rptr = (cpb.rptr + 1) % CpSize /\ cpb'.cnt = cpb.cnt - 1
                         /\ \A c \in CpId \ {cpb.rptr} : cpb'.buf[c] = Contents[c]
    <2>1. CASE cp_q.pop /\ cpb.cnt > 0
      <3>1. CpPops = 1
        BY <2>1 DEF CpPops
      <3>2. cpb' = [buf  |-> [Contents EXCEPT ![cpb.rptr] = NoCp],
                     rptr |-> (cpb.rptr + 1) % CpSize,
                     cnt  |-> cpb.cnt - 1]
        BY <1>1, <2>1
      <3>3. [Contents EXCEPT ![cpb.rptr] = NoCp] \in [CpId -> CheckpointType]
        BY <1>4, <1>6
      <3>4. cpb.cnt - 1 \in 0 .. CpSize
        BY <1>5, <2>1
      <3>5. cpb' \in [buf : [CpId -> CheckpointType], rptr : CpId, cnt : 0 .. CpSize]
        BY <1>7, <3>2, <3>3, <3>4
      <3>6. /\ cpb'.rptr = (cpb.rptr + 1) % CpSize /\ cpb'.cnt = cpb.cnt - 1
            /\ cpb'.buf = [Contents EXCEPT ![cpb.rptr] = NoCp]
        BY <3>2
      <3>7. \A c \in CpId \ {cpb.rptr} : cpb'.buf[c] = Contents[c]
        BY <1>4, <3>6
      <3>8. QED
        BY <3>1, <3>5, <3>6, <3>7
    <2>2. CASE ~ (cp_q.pop /\ cpb.cnt > 0)
      <3>1. CpPops = 0
        BY <2>2 DEF CpPops
      <3>2. cpb' = [cpb EXCEPT !.buf = Contents]
        BY <1>1, <2>2
      <3>3. QED
        BY <1>4, <1>5, <3>1, <3>2
    <2>3. QED
      BY <2>1, <2>2
  <1>9. Contents' = cpb'.buf
    <2>1. \A c \in CpId : Filled(c, << >>) = {}
      BY DEF Filled
    <2>2. Contents' = [c \in CpId |-> IF Filled(c, cp_q'.set) = {} THEN cpb'.buf[c]
                            ELSE cp_q'.set[Newest(Filled(c, cp_q'.set))].cp]
      BY DEF Contents
    <2>3. Contents' = [c \in CpId |-> cpb'.buf[c]]
      BY <1>3, <2>1, <2>2
    <2>4. cpb'.buf \in [CpId -> CheckpointType]
      BY <1>8
    <2>5. QED
      BY <2>3, <2>4
  <1>10. QED
    BY <1>2, <1>3, <1>8, <1>9

(* sync leaves the view of the state as it is.                              *)
LEMMA SyncView ==
    ASSUME RenameInv, Sync
    PROVE  /\ rat' = Table /\ Table' = Table /\ data_valid' = Bits /\ Bits' = Bits
           /\ Standing' = Standing /\ New' = New /\ Old' = Old
           /\ LiveResults' = LiveResults /\ Claims' = Claims /\ Dest' = Dest
  <1> USE DEF RenameInv
  <1>1. rat' = Table /\ rat_q' = << >> /\ data_valid' = Bits /\ reg_q' = << >>
    BY DEF Sync, Table, Bits
  <1>2. Table' = Table
    <2>1. Len(rat_q') = 0
      BY <1>1
    <2>2. Applied(rat', rat_q') = rat'
      BY <2>1, AppliedNone
    <2>3. QED
      BY <1>1, <2>2 DEF Table
  <1>3. Bits' = Bits
    <2>1. Bits \subseteq Phy
      BY RegTyped DEF Bits
    <2>2. Len(reg_q') = 0
      BY <1>1
    <2>3. RegSync(data_valid', reg_q') = data_valid'
      BY <1>1, <2>1, <2>2, RegNone
    <2>4. QED
      BY <1>1, <2>3 DEF Bits
  <1>4. /\ rob'.rptr \in RobId /\ rob'.cnt = Left
        /\ Pops' = 0 /\ Left' = Left /\ Ids' = Ids /\ Es' = Es
        /\ \A k \in 1 .. Left : Ids[k] = Ring(rob'.rptr, k)
    BY SyncRob
  <1>5. cur_state' = cur_state /\ restore_rob_item_id' = restore_rob_item_id /\ fifo' = fifo
        /\ backend' = backend /\ wb_commit' = wb_commit /\ stage = "sync" /\ stage' = "commit"
    BY DEF Sync, commitVars
  <1>6. Standing' = Standing
    <2>1. CASE cur_state = "normal"
      BY <1>4, <1>5, <2>1 DEF Standing
    <2>2. CASE cur_state # "normal"
      <3>1. Standing \in 1 .. Left /\ restore_rob_item_id = Ids[Standing]
        BY <2>2 DEF WalkInv
      <3>2. restore_rob_item_id' = Ring(rob'.rptr, Standing)
        BY <1>4, <1>5, <3>1
      <3>3. Left \in 0 .. RobSize /\ RobSize \in Nat
        BY RobFields
      <3>4. ((Ring(rob'.rptr, Standing) + RobSize - rob'.rptr) % RobSize) + 1 = Standing
        BY <1>4, <3>1, <3>3, RingPosition
      <3>5. Standing' = (((restore_rob_item_id' + RobSize - rob'.rptr) % RobSize) + 1) - 0
        BY <1>4, <1>5, <2>2 DEF Standing, Position
      <3>6. QED
        BY <3>1, <3>2, <3>4, <3>5
    <2>3. QED
      BY <2>1, <2>2
  <1>7. New' = New /\ Old' = Old
    BY <1>4, <1>6 DEF New, Old
  <1>8. LiveResults' = LiveResults
    BY <1>5 DEF LiveResults
  <1>9. Claims' = Claims
    BY <1>4, <1>5, <1>8 DEF Claims
  <1>10. Dest' = Dest
    BY <1>2, <1>6, <1>7 DEF Dest
  <1>11. QED
    BY <1>1, <1>2, <1>3, <1>6, <1>7, <1>8, <1>9, <1>10

(* With no entry in force only the committed registers are in use.          *)
LEMMA NoneLeft ==
    ASSUME Standing = 0, Left = 0, MapInv, BitsInv
    PROVE  Table.valid = {arf[a] : a \in Arch} /\ Bits = Table.valid
  <1>1. /\ Table.valid = Now(New, Dest, arf, 0) \cup ({New[k] : k \in 0 + 1 .. Standing} \ {None})
    BY TableTyped
  <1>2. Now(New, Dest, arf, 0) = {arf[a] : a \in Arch}
    BY NowArf
  <1>3. {New[k] : k \in 0 + 1 .. Standing} = {}
    OBVIOUS
  <1>4. Table.valid = {arf[a] : a \in Arch}
    BY <1>1, <1>2, <1>3
  <1>5. QED
    BY <1>4 DEF BitsInv

(* The end of a pass.                                                       *)
LEMMA SyncStep ==
    ASSUME RenameInv, Sync
    PROVE  RenameInv'
  <1>1. TypeOK /\ Queues /\ Pass /\ WalkInv /\ MapInv /\ OpsInv /\ KindInv /\ BitsInv /\ CpInv
    BY DEF RenameInv
  <1>2. /\ rob'.rptr \in RobId /\ rob'.cnt = Left /\ rob_q' = [pop |-> 0, done |-> {}]
        /\ rob' \in [buf : [RobId -> RobItem \cup {NoItem}], rptr : RobId, cnt : 0 .. RobSize]
        /\ Pops' = 0 /\ Left' = Left /\ Ids' = Ids /\ Es' = Es
        /\ \A k \in 1 .. Left : rob'.buf[Ids[k]] \in RobItem
        /\ \A k \in 1 .. Left : Ids[k] = Ring(rob'.rptr, k)
    BY <1>1, SyncRob
  <1>3. /\ rat' = Table /\ Table' = Table /\ data_valid' = Bits /\ Bits' = Bits
        /\ Standing' = Standing /\ New' = New /\ Old' = Old
        /\ LiveResults' = LiveResults /\ Claims' = Claims /\ Dest' = Dest
    BY SyncView
  <1>4. /\ cpb' \in [buf : [CpId -> CheckpointType], rptr : CpId, cnt : 0 .. CpSize]
        /\ cp_q' = [pop |-> FALSE, set |-> << >>] /\ CpPops' = 0
        /\ Contents' = cpb'.buf
        /\ CpPops = 0 => cpb'.rptr = cpb.rptr /\ cpb'.cnt = cpb.cnt /\ Contents' = Contents
        /\ CpPops # 0 => /\ CpPops = 1
                         /\ cpb'.rptr = (cpb.rptr + 1) % CpSize /\ cpb'.cnt = cpb.cnt - 1
                         /\ \A c \in CpId \ {cpb.rptr} : Contents'[c] = Contents[c]
    BY <1>1, SyncCpb
  <1>5. /\ stage = "sync" /\ stage' = "commit" /\ feedback' = NoFeedback
        /\ rat_q' = << >> /\ reg_q' = << >> /\ UNCHANGED <<commitVars, fifo, jump_wait, backend, wb_commit>>
    BY DEF Sync
  <1>6. /\ UNCHANGED <<cur_state, rob_item_id, restore_rob_item_id, arf>>
        /\ UNCHANGED <<fifo, jump_wait, backend, wb_commit>>
    BY <1>5 DEF commitVars
  <1>7. Table \in RatType /\ Table.ok
    BY <1>1, TableTyped
  <1>8. TypeOK'
    <2>1. Bits \in SUBSET Phy
      BY RegTyped DEF Bits
    <2>2. NoFeedback \in [flush : BOOLEAN, jump_enable : BOOLEAN]
      BY DEF NoFeedback
    <2>3. rob_q'.pop \in 0 .. CommitWidth /\ rob_q'.done \in SUBSET Result /\ cp_q'.pop \in BOOLEAN
      BY <1>2, <1>4, SizesAssumption
    <2>4. << >> \in Seq(Request)
      OBVIOUS
    <2>5. QED
      BY <1>1, <1>2, <1>3, <1>4, <1>5, <1>6, <1>7, <2>1, <2>2, <2>3, <2>4 DEF TypeOK
  <1>9. rat'.ok
    BY <1>3, <1>7
  <1>10. Queues'
    <2>1. rob_q' \in [pop : 0 .. CommitWidth, done : SUBSET Result]
      BY <1>2, SizesAssumption
    <2>2. rob_q'.done = {} /\ Pops' <= rob'.cnt
      BY <1>2
    <2>3. cp_q' \in [pop : BOOLEAN, set : Seq(CpRequest)] /\ reg_q' \in Seq(RegRequest)
      BY <1>4, <1>5
    <2>4. QED
      BY <1>2, <2>1, <2>2, <2>3 DEF Queues
  <1>11. ~ feedback'.flush /\ cp_q'.pop = FALSE /\ rob_q'.pop = 0 /\ rob'.cnt \in Nat
    BY <1>2, <1>4, <1>5 DEF NoFeedback
  <1>12. Calm' <=> cur_state = "normal"
    BY <1>6, <1>11 DEF Calm
  <1>13. Pass'
    BY <1>1, <1>2, <1>4, <1>5, <1>6, <1>11, <1>12 DEF Pass, Calm
  <1>14. WalkInv'
    BY <1>1, <1>2, <1>3, <1>6 DEF WalkInv
  <1>15. MapInv' /\ Ahead'
    BY <1>1, <1>3, <1>5, <1>6 DEF MapInv, Ahead
  <1>16. CASE Calm
    <2>1. OpsInv' /\ KindInv' /\ BitsInv'
      BY <1>1, <1>2, <1>3, <1>6, <1>16 DEF OpsInv, KindInv, BitsInv
    <2>2. ClaimsOK(Left + Len(fifo), Claims, cpb'.rptr, 0, cpb'.cnt)
      <3>1. cpb.rptr \in CpId /\ cpb.cnt \in 0 .. CpSize
        BY <1>1 DEF TypeOK
      <3>2. ClaimsOK(Left + Len(fifo), Claims, cpb.rptr, CpPops, cpb.cnt)
        BY <1>1, <1>16 DEF CpInv
      <3>3. CASE CpPops = 0
        BY <1>4, <3>2, <3>3
      <3>4. CASE CpPops # 0
        BY <1>4, <3>1, <3>2, <3>4, ClaimsPop
      <3>5. QED
        BY <3>3, <3>4
    <2>3. KeptOK(Left, Claims, Contents', New, Dest, arf, Es)
      <3>1. KeptOK(Left, Claims, Contents, New, Dest, arf, Es)
        BY <1>1, <1>16 DEF CpInv
      <3>2. ASSUME NEW k \in 1 .. Left, Claims[k] # None
            PROVE  Contents[Claims[k]] = Contents'[Claims[k]]
        <4>1. k \in 1 .. Left + Len(fifo)
          <5>1. Left \in Nat /\ Len(fifo) \in Nat
            BY <1>1, RobFields, LenProperties DEF TypeOK
          <5>2. QED
            BY <5>1
        <4>2. Claims[k] \in CpId /\ CpPops < Place(cpb.rptr, Claims[k])
          BY <1>1, <1>16, <3>2, <4>1 DEF CpInv, ClaimsOK
        <4>3. CASE CpPops = 0
          BY <1>4, <4>3
        <4>4. CASE CpPops # 0
          <5>1. cpb.rptr \in CpId /\ CpPops = 1
            BY <1>1, <1>4, <4>4 DEF TypeOK
          <5>2. Claims[k] # cpb.rptr
            BY <4>2, <5>1, PlaceIs
          <5>3. QED
            BY <1>4, <4>2, <4>4, <5>2
        <4>5. QED
          BY <4>3, <4>4
      <3>3. QED
        BY <3>1, <3>2, KeptSame
    <2>4. CpInv'
      BY <1>2, <1>3, <1>4, <1>6, <2>2, <2>3 DEF CpInv
    <2>5. QED
      BY <1>8, <1>9, <1>10, <1>13, <1>14, <1>15, <2>1, <2>4 DEF RenameInv
  <1>17. CASE cur_state # "normal"
    <2>1. OpsInv' /\ KindInv' /\ CpInv'
      BY <1>12, <1>17 DEF OpsInv, KindInv, CpInv
    <2>2. BitsInv'
      BY <1>1, <1>3, <1>6, <1>12, <1>17 DEF BitsInv
    <2>3. QED
      BY <1>8, <1>9, <1>10, <1>13, <1>14, <1>15, <2>1, <2>2 DEF RenameInv
  <1>18. CASE ~ Calm /\ cur_state = "normal"
    <2>1. rob.cnt = 0 /\ backend = {} /\ wb_commit = {} /\ fifo = << >>
      BY <1>1, <1>5, <1>18 DEF Pass, Calm
    <2>2. Left = 0 /\ Standing = 0 /\ Len(fifo) = 0 /\ LiveResults = {}
      BY <1>18, <2>1 DEF Left, Pops, Standing, LiveResults
    <2>3. Ops(backend, LiveResults) = {}
      BY <2>1, <2>2 DEF Ops
    <2>4. OpsOK(Left, Ids, Es, backend, LiveResults) /\ KindOK(Left, Es, LiveResults)
      BY <2>1, <2>2, <2>3 DEF OpsOK, KindOK
    <2>5. Unwritten(Left, Es, backend, LiveResults) = {}
      BY <2>1, <2>2 DEF Unwritten
    <2>6. Bits = Table.valid
      BY <1>1, <2>2, NoneLeft
    <2>7. OpsInv' /\ KindInv'
      BY <1>2, <1>3, <1>6, <2>4 DEF OpsInv, KindInv
    <2>8. BitsInv'
      <3>1. Bits = Table.valid \ Unwritten(Left, Es, backend, LiveResults)
        BY <2>5, <2>6
      <3>2. QED
        BY <1>1, <1>2, <1>3, <1>6, <3>1 DEF BitsInv
    <2>9. CpInv'
      BY <1>2, <1>3, <1>6, <2>2 DEF CpInv, ClaimsOK, KeptOK
    <2>10. QED
      BY <1>8, <1>9, <1>10, <1>13, <1>14, <1>15, <2>7, <2>8, <2>9 DEF RenameInv
  <1>19. QED
    BY <1>16, <1>17, <1>18

(* Steps that leave the table and the ROB alone.                            *)
StillVars == <<rat, rat_q, rob, rob_q, arf, cur_state, rob_item_id, restore_rob_item_id, feedback>>

(* What does not depend on the fifo and the back end.                       *)
LEMMA Still ==
    ASSUME StillVars' = StillVars
    PROVE  /\ Pops' = Pops /\ Left' = Left /\ Ids' = Ids /\ Es' = Es /\ Table' = Table
           /\ Standing' = Standing /\ New' = New /\ Old' = Old /\ Dest' = Dest
           /\ Calm' = Calm /\ MapInv' = MapInv /\ WalkInv' = WalkInv
  <1>1. /\ rat' = rat /\ rat_q' = rat_q /\ rob' = rob /\ rob_q' = rob_q /\ arf' = arf
        /\ cur_state' = cur_state /\ rob_item_id' = rob_item_id
        /\ restore_rob_item_id' = restore_rob_item_id /\ feedback' = feedback
    BY DEF StillVars
  <1>2. Pops' = Pops /\ Left' = Left
    BY <1>1 DEF Pops, Left
  <1>3. Ids' = Ids /\ Es' = Es /\ Table' = Table /\ Calm' = Calm
    BY <1>1, <1>2 DEF Ids, Es, Table, Calm
  <1>4. Standing' = Standing
    BY <1>1, <1>2 DEF Standing, Position
  <1>5. New' = New /\ Old' = Old
    BY <1>3, <1>4 DEF New, Old
  <1>6. Dest' = Dest
    BY <1>3, <1>4, <1>5 DEF Dest
  <1>7. MapInv' = MapInv /\ WalkInv' = WalkInv
    BY <1>1, <1>2, <1>3, <1>4, <1>5 DEF MapInv, WalkInv
  <1>8. QED
    BY <1>2, <1>3, <1>4, <1>5, <1>6, <1>7

(* A flush empties the back end.                                            *)
LEMMA ExecuteFlushStep ==
    ASSUME RenameInv, ExecuteFlush
    PROVE  RenameInv'
  <1>1. TypeOK /\ rat.ok /\ Queues /\ Pass /\ WalkInv /\ MapInv /\ BitsInv
    BY DEF RenameInv
  <1>2. /\ stage = "execute" /\ feedback.flush /\ stage' = "rename" /\ backend' = {} /\ wb_commit' = {}
        /\ UNCHANGED <<data_valid, reg_q, cpb, cp_q, fifo, jump_wait>>
        /\ UNCHANGED <<rat, rat_q, rob, rob_q, feedback>>
        /\ UNCHANGED <<cur_state, rob_item_id, restore_rob_item_id, arf>>
    BY DEF ExecuteFlush, commitVars
  <1>3. StillVars' = StillVars
    BY <1>2 DEF StillVars
  <1>4. /\ Pops' = Pops /\ Left' = Left /\ Ids' = Ids /\ Es' = Es /\ Table' = Table
        /\ Standing' = Standing /\ New' = New /\ Old' = Old /\ Dest' = Dest
        /\ Calm' = Calm /\ MapInv' = MapInv /\ WalkInv' = WalkInv
    BY <1>3, Still
  <1>5. Bits' = Bits
    BY <1>2 DEF Bits
  <1>6. ~ Calm
    BY <1>2 DEF Calm
  <1>7. TypeOK'
    BY <1>1, <1>2 DEF TypeOK
  <1>8. Queues'
    BY <1>1, <1>2, <1>4 DEF Queues
  <1>9. Pass'
    BY <1>1, <1>2, <1>4, <1>6 DEF Pass
  <1>10. BitsInv'
    BY <1>1, <1>2, <1>4, <1>5, <1>6 DEF BitsInv
  <1>11. Ahead' /\ OpsInv' /\ KindInv' /\ CpInv'
    BY <1>4, <1>6 DEF Ahead, OpsInv, KindInv, CpInv
  <1>12. QED
    BY <1>1, <1>2, <1>4, <1>7, <1>8, <1>9, <1>10, <1>11 DEF RenameInv

(* A stalled rename stage.                                                  *)
LEMMA RenameSkipStep ==
    ASSUME RenameInv, RenameSkip
    PROVE  RenameInv'
  <1>1. /\ TypeOK /\ rat.ok /\ Queues /\ Pass /\ WalkInv /\ MapInv /\ BitsInv
        /\ OpsInv /\ KindInv /\ CpInv
    BY DEF RenameInv
  <1>2. /\ stage = "rename" /\ stage' = "fetch"
        /\ UNCHANGED <<data_valid, reg_q, cpb, cp_q, fifo, jump_wait, backend, wb_commit>>
        /\ UNCHANGED <<rat, rat_q, rob, rob_q, feedback>>
        /\ UNCHANGED <<cur_state, rob_item_id, restore_rob_item_id, arf>>
    BY DEF RenameSkip, commitVars
  <1>3. StillVars' = StillVars
    BY <1>2 DEF StillVars
  <1>4. /\ Pops' = Pops /\ Left' = Left /\ Ids' = Ids /\ Es' = Es /\ Table' = Table
        /\ Standing' = Standing /\ New' = New /\ Old' = Old /\ Dest' = Dest
        /\ Calm' = Calm /\ MapInv' = MapInv /\ WalkInv' = WalkInv
    BY <1>3, Still
  <1>5. Bits' = Bits /\ LiveResults' = LiveResults /\ Contents' = Contents /\ CpPops' = CpPops
    BY <1>2 DEF Bits, LiveResults, Contents, CpPops
  <1>6. Claims' = Claims
    BY <1>2, <1>4, <1>5 DEF Claims
  <1>7. TypeOK'
    BY <1>1, <1>2 DEF TypeOK
  <1>8. Queues'
    BY <1>1, <1>2, <1>4 DEF Queues
  <1>9. Pass'
    BY <1>1, <1>2, <1>4 DEF Pass
  <1>10. BitsInv' /\ OpsInv' /\ KindInv'
    BY <1>1, <1>2, <1>4, <1>5 DEF BitsInv, OpsInv, KindInv
  <1>11. Ahead' /\ CpInv'
    BY <1>1, <1>2, <1>4, <1>5, <1>6 DEF Ahead, CpInv
  <1>12. QED
    BY <1>1, <1>2, <1>4, <1>7, <1>8, <1>9, <1>10, <1>11 DEF RenameInv

-----------------------------------------------------------------------------
(* Fetch: instructions and at most one checkpoint are added.                *)
LEMMA PlaceNew ==
    ASSUME NEW p \in CpId, NEW n \in 0 .. CpSize - 1
    PROVE  (p + n) % CpSize \in CpId /\ Place(p, (p + n) % CpSize) = n + 1
  <1>1. CpSize \in Nat \ {0} /\ p \in 0 .. CpSize - 1 /\ n \in 0 .. CpSize - 1
    BY SizesAssumption DEF CpId
  <1> DEFINE x == p + n
  <1>2. x \in 0 .. 2 * CpSize - 1
    BY <1>1
  <1>3. x = p + n
    OBVIOUS
  <1> HIDE DEF x
  <1>4. x % CpSize = IF x < CpSize THEN x ELSE x - CpSize
    BY <1>1, <1>2, Lap
  <1> DEFINE q == x % CpSize
  <1>5. q = IF x < CpSize THEN x ELSE x - CpSize
    BY <1>4
  <1> HIDE DEF q
  <1>6. q \in CpId /\ Place(p, q) = n + 1
    BY <1>1, <1>3, <1>5 DEF CpId, Place
  <1>7. QED
    BY <1>3, <1>6 DEF q

(* A predicted branch takes the next checkpoint of the ring.                *)
LEMMA ClaimsGrow ==
    ASSUME NEW n \in Nat, NEW cl, NEW p \in CpId, NEW pops, NEW cnt \in Nat, ClaimsOK(n, cl, p, pops, cnt),
           NEW m \in Nat, NEW cx, NEW cntx \in Nat, n <= m, cnt <= cntx, pops \in 0 .. cnt,
           \A k \in 1 .. n : cx[k] = cl[k],
           \A k \in n + 1 .. m : cx[k] # None => /\ k = m /\ cx[k] \in CpId
                                                 /\ Place(p, cx[k]) = cnt + 1 /\ cntx = cnt + 1
    PROVE  ClaimsOK(m, cx, p, pops, cntx)
  <1>1. \A k \in 1 .. m : k \in 1 .. n \/ k \in n + 1 .. m
    OBVIOUS
  <1>2. \A c \in CpId : Place(p, c) \in Int
    BY PlaceIs
  <1>3. ASSUME NEW k \in 1 .. m, cx[k] # None
        PROVE  /\ cx[k] \in CpId /\ pops < Place(p, cx[k]) /\ Place(p, cx[k]) <= cntx
               /\ k \in 1 .. n => Place(p, cx[k]) <= cnt
               /\ k \notin 1 .. n => k = m /\ Place(p, cx[k]) = cnt + 1
    <2>1. CASE k \in 1 .. n
      <3>1. cl[k] \in CpId /\ pops < Place(p, cl[k]) /\ Place(p, cl[k]) <= cnt /\ cx[k] = cl[k]
        BY <1>3, <2>1 DEF ClaimsOK
      <3>2. QED
        BY <1>2, <2>1, <3>1
    <2>2. CASE k \notin 1 .. n
      <3>1. k \in n + 1 .. m
        BY <1>1, <2>2
      <3>2. k = m /\ cx[k] \in CpId /\ Place(p, cx[k]) = cnt + 1 /\ cntx = cnt + 1
        BY <1>3, <3>1
      <3>3. QED
        BY <2>2, <3>2
    <2>3. QED
      BY <2>1, <2>2
  <1>4. ASSUME NEW j \in 1 .. m, NEW k \in 1 .. m, cx[j] # None, cx[k] # None, j < k
        PROVE  Place(p, cx[j]) < Place(p, cx[k])
    <2>1. j \in 1 .. n
      BY <1>3, <1>4
    <2>2. CASE k \in 1 .. n
      BY <1>4, <2>1, <2>2 DEF ClaimsOK
    <2>3. CASE k \notin 1 .. n
      <3>1. Place(p, cx[k]) = cnt + 1 /\ Place(p, cx[j]) <= cnt /\ cx[j] \in CpId
        BY <1>3, <1>4, <2>1, <2>3
      <3>2. QED
        BY <1>2, <3>1
    <2>4. QED
      BY <2>2, <2>3
  <1>5. QED
    BY <1>3, <1>4 DEF ClaimsOK

(* The contents depend on the claims only.                                  *)
LEMMA KeptClaims ==
    ASSUME NEW n, NEW cl, NEW cx, NEW cs, NEW nw, NEW w, NEW f, NEW es,
           KeptOK(n, cl, cs, nw, w, f, es), \A k \in 1 .. n : cx[k] = cl[k]
    PROVE  KeptOK(n, cx, cs, nw, w, f, es)
  BY DEF KeptOK

(* What the fetch actions have in common.                                   *)
Fetched ==
    /\ stage = "fetch" /\ stage' = "sync" /\ ~ feedback.flush /\ jump_wait' \in BOOLEAN
    /\ fifo' \in Seq(Op) /\ Len(fifo) <= Len(fifo') /\ Len(fifo') <= FifoSize
    /\ \A k \in 1 .. Len(fifo) : fifo'[k] = fifo[k]
    /\ cpb' \in [buf : [CpId -> CheckpointType], rptr : CpId, cnt : 0 .. CpSize]
    /\ cpb'.buf = cpb.buf /\ cpb'.rptr = cpb.rptr /\ cpb.cnt <= cpb'.cnt
    /\ \A k \in Len(fifo) + 1 .. Len(fifo') : fifo'[k].cp # None =>
          k = Len(fifo') /\ fifo'[k].cp = NewCpId /\ cpb'.cnt = cpb.cnt + 1
    /\ UNCHANGED <<rat, rat_q, rob, rob_q, feedback>>
    /\ UNCHANGED <<cur_state, rob_item_id, restore_rob_item_id, arf>>
    /\ UNCHANGED <<data_valid, reg_q, cp_q, backend, wb_commit>>

(* A fetch group.                                                           *)
LEMMA FetchedStep ==
    ASSUME RenameInv, Fetched
    PROVE  RenameInv'
  <1>1. /\ TypeOK /\ rat.ok /\ Queues /\ Pass /\ WalkInv /\ MapInv /\ BitsInv
        /\ OpsInv /\ KindInv /\ CpInv
    BY DEF RenameInv
  <1>2. StillVars' = StillVars
    BY DEF StillVars, Fetched
  <1>4. /\ Pops' = Pops /\ Left' = Left /\ Ids' = Ids /\ Es' = Es /\ Table' = Table
        /\ Standing' = Standing /\ New' = New /\ Old' = Old /\ Dest' = Dest
        /\ Calm' = Calm /\ MapInv' = MapInv /\ WalkInv' = WalkInv
    BY <1>2, Still
  <1>5. Bits' = Bits /\ LiveResults' = LiveResults /\ Contents' = Contents
    BY DEF Bits, LiveResults, Contents, Fetched
  <1>6. Calm
    BY <1>1 DEF Fetched, Pass, Calm
  <1>7. /\ Len(fifo) \in Nat /\ Len(fifo') \in Nat /\ Left \in Nat
        /\ cpb.cnt \in 0 .. CpSize /\ cpb'.cnt \in 0 .. CpSize /\ cpb.rptr \in CpId /\ CpSize \in Nat \ {0}
    BY <1>1, RobFields, LenProperties, SizesAssumption DEF TypeOK, Fetched
  <1>8. CpPops' = CpPops /\ CpPops \in 0 .. cpb.cnt
    <2>1. cp_q.pop => cpb.cnt > 0
      BY <1>1, <1>6 DEF Pass
    <2>2. cp_q' = cp_q /\ cpb.cnt <= cpb'.cnt
      BY DEF Fetched
    <2>3. QED
      BY <1>7, <2>1, <2>2 DEF CpPops
  <1>9. TypeOK'
    BY <1>1 DEF TypeOK, Fetched
  <1>10. Queues'
    BY <1>1, <1>4 DEF Queues, Fetched
  <1>11. Pass'
    <2>1. cp_q' = cp_q /\ (cp_q.pop => cpb'.cnt > 0)
      BY <1>1, <1>6, <1>7 DEF Pass, Fetched
    <2>2. QED
      BY <1>1, <1>4, <1>6, <2>1 DEF Pass, Fetched
  <1>12. BitsInv' /\ OpsInv' /\ KindInv'
    BY <1>1, <1>4, <1>5 DEF BitsInv, OpsInv, KindInv, Fetched
  <1>13. \A k \in 1 .. Left + Len(fifo) : Claims'[k] = Claims[k]
    <2>1. ASSUME NEW k \in 1 .. Left + Len(fifo) PROVE Claims'[k] = Claims[k]
      <3>1. k \in 1 .. Left + Len(fifo') /\ (k <= Left \/ k - Left \in 1 .. Len(fifo))
        BY <1>7 DEF Fetched
      <3>2. Claims[k] = IF k <= Left THEN CpOf(Ids, Es, Ops(backend, LiveResults), k)
                        ELSE fifo[k - Left].cp
        BY DEF Claims
      <3>3. Claims'[k] = IF k <= Left' THEN CpOf(Ids', Es', Ops(backend', LiveResults'), k)
                        ELSE fifo'[k - Left'].cp
        BY <1>4, <3>1 DEF Claims
      <3>4. backend' = backend /\ \A i \in 1 .. Len(fifo) : fifo'[i] = fifo[i]
        BY DEF Fetched
      <3>5. CASE k <= Left
        BY <1>4, <1>5, <3>2, <3>3, <3>4, <3>5
      <3>6. CASE ~ (k <= Left)
        BY <1>4, <1>5, <3>1, <3>2, <3>3, <3>4, <3>6
      <3>7. QED
        BY <3>5, <3>6
    <2>2. QED
      BY <2>1
  <1>14. ClaimsOK(Left + Len(fifo'), Claims', cpb.rptr, CpPops, cpb'.cnt)
    <2>1. ClaimsOK(Left + Len(fifo), Claims, cpb.rptr, CpPops, cpb.cnt)
      BY <1>1, <1>6 DEF CpInv
    <2>2. ASSUME NEW k \in (Left + Len(fifo)) + 1 .. Left + Len(fifo'), Claims'[k] # None
          PROVE  /\ k = Left + Len(fifo') /\ Claims'[k] \in CpId
                 /\ Place(cpb.rptr, Claims'[k]) = cpb.cnt + 1 /\ cpb'.cnt = cpb.cnt + 1
      <3>1. k - Left \in Len(fifo) + 1 .. Len(fifo') /\ ~ (k <= Left) /\ k \in 1 .. Left + Len(fifo')
        BY <1>7
      <3>2. Claims'[k] = fifo'[k - Left].cp
        BY <1>4, <3>1 DEF Claims
      <3>3. k - Left = Len(fifo') /\ fifo'[k - Left].cp = NewCpId /\ cpb'.cnt = cpb.cnt + 1
        BY <2>2, <3>1, <3>2 DEF Fetched
      <3>4. cpb.cnt \in 0 .. CpSize - 1
        BY <1>7, <3>3
      <3>5. NewCpId \in CpId /\ Place(cpb.rptr, NewCpId) = cpb.cnt + 1
        BY <1>7, <3>4, PlaceNew DEF NewCpId
      <3>6. QED
        BY <1>7, <3>1, <3>2, <3>3, <3>5
    <2>3. Len(fifo) <= Len(fifo') /\ cpb.cnt <= cpb'.cnt
      BY DEF Fetched
    <2> DEFINE n == Left + Len(fifo)
               m == Left + Len(fifo')
    <2>4. n \in Nat /\ m \in Nat /\ n <= m
      BY <1>7, <2>3
    <2>5. cpb.cnt \in Nat /\ cpb'.cnt \in Nat
      BY <1>7
    <2> HIDE DEF n, m
    <2>6. /\ \A k \in 1 .. n : Claims'[k] = Claims[k]
          /\ \A k \in n + 1 .. m : Claims'[k] # None =>
                 /\ k = m /\ Claims'[k] \in CpId
                 /\ Place(cpb.rptr, Claims'[k]) = cpb.cnt + 1 /\ cpb'.cnt = cpb.cnt + 1
          /\ ClaimsOK(n, Claims, cpb.rptr, CpPops, cpb.cnt)
      BY <1>13, <2>1, <2>2 DEF n, m
    <2>7. ClaimsOK(m, Claims', cpb.rptr, CpPops, cpb'.cnt)
      BY ONLY <1>7, <1>8, <2>3, <2>4, <2>5, <2>6, ClaimsGrow
    <2>8. QED
      BY <2>7 DEF m
  <1>15. KeptOK(Left, Claims', Contents, New, Dest, arf, Es)
    <2>1. KeptOK(Left, Claims, Contents, New, Dest, arf, Es)
      BY <1>1, <1>6 DEF CpInv
    <2>2. \A k \in 1 .. Left : Claims'[k] = Claims[k]
      BY <1>7, <1>13
    <2>3. QED
      BY <2>1, <2>2, KeptClaims
  <1>16. CpInv'
    <2>1. arf' = arf /\ cpb'.rptr = cpb.rptr
      BY DEF Fetched
    <2>2. QED
      BY <1>4, <1>5, <1>8, <1>14, <1>15, <2>1 DEF CpInv
  <1>17. Ahead' /\ stage' # "commit" /\ rat' = rat
    BY DEF Ahead, Fetched
  <1>18. QED
    BY <1>1, <1>4, <1>9, <1>10, <1>11, <1>12, <1>16, <1>17 DEF RenameInv

(* A flush empties the fifo.                                                *)
LEMMA FetchFlushStep ==
    ASSUME RenameInv, FetchFlush
    PROVE  RenameInv'
  <1>1. TypeOK /\ rat.ok /\ Queues /\ Pass /\ WalkInv /\ MapInv /\ BitsInv
    BY DEF RenameInv
  <1>2. /\ stage = "fetch" /\ feedback.flush /\ stage' = "sync" /\ fifo' = << >> /\ jump_wait' = FALSE
        /\ UNCHANGED <<data_valid, reg_q, cpb, cp_q, backend, wb_commit>>
        /\ UNCHANGED <<rat, rat_q, rob, rob_q, feedback>>
        /\ UNCHANGED <<cur_state, rob_item_id, restore_rob_item_id, arf>>
    BY DEF FetchFlush, commitVars
  <1>3. StillVars' = StillVars
    BY <1>2 DEF StillVars
  <1>4. /\ Pops' = Pops /\ Left' = Left /\ Ids' = Ids /\ Es' = Es /\ Table' = Table
        /\ Standing' = Standing /\ New' = New /\ Old' = Old /\ Dest' = Dest
        /\ Calm' = Calm /\ MapInv' = MapInv /\ WalkInv' = WalkInv
    BY <1>3, Still
  <1>5. Bits' = Bits
    BY <1>2 DEF Bits
  <1>6. ~ Calm
    BY <1>2 DEF Calm
  <1>7. TypeOK'
    <2>1. << >> \in Seq(Op) /\ Len(<< >>) = 0 /\ 0 <= FifoSize
      BY SizesAssumption
    <2>2. QED
      BY <1>1, <1>2, <2>1 DEF TypeOK
  <1>8. Queues'
    BY <1>1, <1>2, <1>4 DEF Queues
  <1>9. Pass'
    BY <1>1, <1>2, <1>4, <1>6 DEF Pass
  <1>10. BitsInv'
    BY <1>1, <1>2, <1>4, <1>5, <1>6 DEF BitsInv
  <1>11. Ahead' /\ OpsInv' /\ KindInv' /\ CpInv'
    BY <1>4, <1>6 DEF Ahead, OpsInv, KindInv, CpInv
  <1>12. QED
    BY <1>1, <1>2, <1>4, <1>7, <1>8, <1>9, <1>10, <1>11 DEF RenameInv

(* The room left in the fifo.                                               *)
LEMMA RoomIs ==
    ASSUME TypeOK
    PROVE  Len(fifo) \in Nat /\ Room \in Int /\ Room + Len(fifo) <= FifoSize /\ Room >= 0
  <1>1. Len(fifo) \in Nat /\ Len(fifo) <= FifoSize
    BY LenProperties DEF TypeOK
  <1>2. QED
    BY <1>1, SizesAssumption DEF Room

(* A group without a jump, or none.                                         *)
LEMMA FetchPlainStep ==
    ASSUME RenameInv, FetchPlain \/ FetchWait
    PROVE  RenameInv'
  <1>1. TypeOK
    BY DEF RenameInv
  <1>2. fifo \in Seq(Op) /\ Len(fifo) \in Nat /\ Len(fifo) <= FifoSize
    BY <1>1, LenProperties DEF TypeOK
  <1>3. /\ cpb \in [buf : [CpId -> CheckpointType], rptr : CpId, cnt : 0 .. CpSize]
        /\ cpb.cnt \in Int
    BY <1>1, SizesAssumption DEF TypeOK
  <1>4. CASE FetchWait
    <2>1. cpb' = cpb /\ fifo' = fifo /\ jump_wait' \in BOOLEAN
      BY <1>1, <1>4 DEF FetchWait, TypeOK
    <2>2. Fetched
      BY <1>2, <1>3, <1>4, <2>1 DEF FetchWait, Fetched, commitVars
    <2>3. QED
      BY <2>2, FetchedStep
  <1>5. CASE FetchPlain
    <2>1. PICK n \in 0 .. Room : \E g \in [1 .. n -> Plain] : fifo' = fifo \o g
      BY <1>5 DEF FetchPlain
    <2>2. PICK g \in [1 .. n -> Plain] : fifo' = fifo \o g
      BY <2>1
    <2>3. n \in Nat /\ Room \in Int /\ Room + Len(fifo) <= FifoSize
      BY <1>1, RoomIs
    <2>4. g \in Seq(Op) /\ Len(g) = n
      <3>1. \A i \in 1 .. n : g[i] \in Plain
        OBVIOUS
      <3>2. Plain \subseteq Op
        BY DEF Plain, Op, Kind
      <3>3. \A i \in 1 .. n : g[i] \in Op
        BY <3>1, <3>2
      <3>4. g = [i \in 1 .. n |-> g[i]]
        OBVIOUS
      <3>5. QED
        BY <2>3, <3>3, <3>4, IsASeq
    <2>5. /\ fifo' \in Seq(Op) /\ Len(fifo') = Len(fifo) + n
          /\ \A k \in 1 .. Len(fifo') : fifo'[k] = IF k <= Len(fifo) THEN fifo[k] ELSE g[k - Len(fifo)]
      BY <1>2, <2>2, <2>4, ConcatProperties
    <2>6. /\ \A k \in 1 .. Len(fifo) : k \in 1 .. Len(fifo') /\ k <= Len(fifo)
          /\ \A k \in Len(fifo) + 1 .. Len(fifo') : /\ ~ (k <= Len(fifo)) /\ k - Len(fifo) \in 1 .. n
                                                    /\ k \in 1 .. Len(fifo')
          /\ Len(fifo') <= FifoSize /\ Len(fifo) <= Len(fifo')
      BY <1>2, <2>3, <2>5, SizesAssumption
    <2>7. \A k \in 1 .. Len(fifo) : fifo'[k] = fifo[k]
      BY <2>5, <2>6
    <2>8. \A k \in Len(fifo) + 1 .. Len(fifo') : fifo'[k].cp = None
      <3>1. \A i \in 1 .. n : g[i].cp = None
        BY DEF Plain
      <3>2. QED
        BY <2>5, <2>6, <3>1
    <2>9. cpb' = cpb /\ jump_wait' \in BOOLEAN
      BY <1>1, <1>5 DEF FetchPlain, TypeOK
    <2>10. Fetched
      BY <1>3, <1>5, <2>5, <2>6, <2>7, <2>8, <2>9 DEF FetchPlain, Fetched, commitVars
    <2>11. QED
      BY <2>10, FetchedStep
  <1>6. QED
    BY <1>4, <1>5

(* A group that ends with a jump.                                           *)
LEMMA FetchJump ==
    ASSUME TypeOK, NEW c \in CpId \cup {None}, NEW n \in 0 .. Room - 1, NEW g \in [1 .. n -> Plain],
           NEW j \in Jump(c), fifo' = Append(fifo \o g, j)
    PROVE  /\ fifo' \in Seq(Op) /\ Len(fifo) <= Len(fifo') /\ Len(fifo') <= FifoSize
           /\ \A k \in 1 .. Len(fifo) : fifo'[k] = fifo[k]
           /\ \A k \in Len(fifo) + 1 .. Len(fifo') : fifo'[k].cp # None =>
                 k = Len(fifo') /\ fifo'[k].cp = c
  <1>2. fifo \in Seq(Op) /\ Len(fifo) \in Nat /\ Len(fifo) <= FifoSize
    BY LenProperties DEF TypeOK
  <1>3. n \in Nat /\ n + 1 + Len(fifo) <= FifoSize
    BY RoomIs, SizesAssumption
  <1>4. g \in Seq(Op) /\ Len(g) = n
    <2>1. \A i \in 1 .. n : g[i] \in Plain
      OBVIOUS
    <2>2. Plain \subseteq Op
      BY DEF Plain, Op, Kind
    <2>3. \A i \in 1 .. n : g[i] \in Op
      BY <2>1, <2>2
    <2>4. g = [i \in 1 .. n |-> g[i]]
      OBVIOUS
    <2>5. QED
      BY <1>3, <2>3, <2>4, IsASeq
  <1> DEFINE s == fifo \o g
  <1>5. /\ s \in Seq(Op) /\ Len(s) = Len(fifo) + n
        /\ \A k \in 1 .. Len(s) : s[k] = IF k <= Len(fifo) THEN fifo[k] ELSE g[k - Len(fifo)]
    BY <1>2, <1>4, ConcatProperties
  <1>6. j \in Op /\ j.cp = c
    BY DEF Jump, Op, Kind
  <1>7. fifo' = Append(s, j)
    OBVIOUS
  <1> HIDE DEF s
  <1>8. /\ fifo' \in Seq(Op) /\ Len(fifo') = Len(s) + 1
        /\ \A k \in 1 .. Len(s) : fifo'[k] = s[k]
        /\ fifo'[Len(s) + 1] = j
    BY <1>5, <1>6, <1>7, AppendProperties
  <1>9. /\ \A k \in 1 .. Len(fifo) : k \in 1 .. Len(s) /\ k <= Len(fifo)
        /\ \A k \in Len(fifo) + 1 .. Len(fifo') :
              k = Len(s) + 1 \/ (~ (k <= Len(fifo)) /\ k - Len(fifo) \in 1 .. n /\ k \in 1 .. Len(s))
        /\ Len(fifo') <= FifoSize /\ Len(fifo) <= Len(fifo')
    BY <1>2, <1>3, <1>5, <1>8, SizesAssumption
  <1>10. \A k \in 1 .. Len(fifo) : fifo'[k] = fifo[k]
    BY <1>5, <1>8, <1>9
  <1>11. ASSUME NEW k \in Len(fifo) + 1 .. Len(fifo'), fifo'[k].cp # None
         PROVE  k = Len(fifo') /\ fifo'[k].cp = c
    <2>1. \A i \in 1 .. n : g[i].cp = None
      BY DEF Plain
    <2>2. CASE k = Len(s) + 1
      BY <1>6, <1>8, <2>2
    <2>3. CASE k # Len(s) + 1
      BY <1>5, <1>8, <1>9, <1>11, <2>1, <2>3
    <2>4. QED
      BY <2>2, <2>3
  <1>12. QED
    BY <1>8, <1>9, <1>10, <1>11

(* A group that ends with a jump.                                           *)
LEMMA FetchJumpStep ==
    ASSUME RenameInv, FetchPredicted \/ FetchUnpredicted
    PROVE  RenameInv'
  <1>1. TypeOK
    BY DEF RenameInv
  <1>2. /\ cpb \in [buf : [CpId -> CheckpointType], rptr : CpId, cnt : 0 .. CpSize]
        /\ cpb.cnt \in 0 .. CpSize /\ CpSize \in Nat \ {0} /\ cpb.rptr \in CpId
    BY <1>1, SizesAssumption DEF TypeOK
  <1>3. CASE FetchPredicted
    <2>1. cpb.cnt \in 0 .. CpSize - 1
      BY <1>2, <1>3 DEF FetchPredicted, CpFull
    <2>2. NewCpId \in CpId
      BY <1>2, <2>1, PlaceNew DEF NewCpId
    <2>3. PICK n \in 0 .. Room - 1 : \E g \in [1 .. n -> Plain], j \in Jump(NewCpId) :
             fifo' = Append(fifo \o g, j)
      BY <1>3 DEF FetchPredicted
    <2>4. PICK g \in [1 .. n -> Plain], j \in Jump(NewCpId) : fifo' = Append(fifo \o g, j)
      BY <2>3
    <2>5. /\ fifo' \in Seq(Op) /\ Len(fifo) <= Len(fifo') /\ Len(fifo') <= FifoSize
          /\ \A k \in 1 .. Len(fifo) : fifo'[k] = fifo[k]
          /\ \A k \in Len(fifo) + 1 .. Len(fifo') : fifo'[k].cp # None =>
                 k = Len(fifo') /\ fifo'[k].cp = NewCpId
      BY <1>1, <2>2, <2>4, FetchJump
    <2>6. /\ cpb' \in [buf : [CpId -> CheckpointType], rptr : CpId, cnt : 0 .. CpSize]
          /\ cpb'.buf = cpb.buf /\ cpb'.rptr = cpb.rptr /\ cpb'.cnt = cpb.cnt + 1
          /\ cpb.cnt <= cpb'.cnt
      <3>1. cpb' = [cpb EXCEPT !.cnt = @ + 1]
        BY <1>3 DEF FetchPredicted
      <3>2. QED
        BY <1>2, <2>1, <3>1
    <2>7. jump_wait' \in BOOLEAN
      BY <1>1, <1>3 DEF FetchPredicted, TypeOK
    <2>8. Fetched
      BY <1>3, <2>5, <2>6, <2>7 DEF FetchPredicted, Fetched, commitVars
    <2>9. QED
      BY <2>8, FetchedStep
  <1>4. CASE FetchUnpredicted
    <2>3. PICK n \in 0 .. Room - 1 : \E g \in [1 .. n -> Plain], j \in Jump(None) :
             fifo' = Append(fifo \o g, j)
      BY <1>4 DEF FetchUnpredicted
    <2>4. PICK g \in [1 .. n -> Plain], j \in Jump(None) : fifo' = Append(fifo \o g, j)
      BY <2>3
    <2>5. /\ fifo' \in Seq(Op) /\ Len(fifo) <= Len(fifo') /\ Len(fifo') <= FifoSize
          /\ \A k \in 1 .. Len(fifo) : fifo'[k] = fifo[k]
          /\ \A k \in Len(fifo) + 1 .. Len(fifo') : fifo'[k].cp # None =>
                 k = Len(fifo') /\ fifo'[k].cp = None
      BY <1>1, <2>4, FetchJump
    <2>6. cpb' = cpb /\ cpb.cnt <= cpb.cnt /\ jump_wait' \in BOOLEAN
      BY <1>2, <1>4 DEF FetchUnpredicted
    <2>7. \A k \in Len(fifo) + 1 .. Len(fifo') : fifo'[k].cp = None
      BY <2>5
    <2>8. Fetched
      BY <1>2, <1>4, <2>5, <2>6, <2>7 DEF FetchUnpredicted, Fetched, commitVars
    <2>9. QED
      BY <2>8, FetchedStep
  <1>5. QED
    BY <1>3, <1>4

(* Execute: some instructions of the back end deliver their results.        *)
Delivered(done, bad, miss) ==
    {[op |-> o, has_exception |-> o \in bad, miss |-> o \in miss] : o \in done}

(* The results wb delivers, one for each finished instruction.              *)
LEMMA DeliveredIs ==
    ASSUME NEW b, b \subseteq InFlight, NEW done, done \subseteq b, NEW bad, NEW miss
    PROVE  /\ Delivered(done, bad, miss) \subseteq Result
           /\ \A r \in Delivered(done, bad, miss) : /\ r.op \in done
                                                    /\ r.has_exception <=> r.op \in bad
                                                    /\ r.miss <=> r.op \in miss
           /\ \A o \in done : \E r \in Delivered(done, bad, miss) : r.op = o
           /\ \A r1, r2 \in Delivered(done, bad, miss) : r1.op = r2.op => r1 = r2
           /\ Ops(b \ done, Delivered(done, bad, miss)) = b
  <1> DEFINE R == Delivered(done, bad, miss)
             res(o) == [op |-> o, has_exception |-> o \in bad, miss |-> o \in miss]
  <1>1. \A o \in done : /\ res(o).op = o /\ res(o) \in Result
                        /\ res(o).has_exception <=> o \in bad
                        /\ res(o).miss <=> o \in miss
    <2>1. ASSUME NEW o \in InFlight, NEW x \in BOOLEAN, NEW y \in BOOLEAN
          PROVE  /\ [op |-> o, has_exception |-> x, miss |-> y] \in Result
                 /\ [op |-> o, has_exception |-> x, miss |-> y].op = o
                 /\ [op |-> o, has_exception |-> x, miss |-> y].has_exception = x
                 /\ [op |-> o, has_exception |-> x, miss |-> y].miss = y
      BY DEF Result
    <2>2. \A o : (o \in bad) \in BOOLEAN /\ (o \in miss) \in BOOLEAN
      OBVIOUS
    <2>3. QED
      BY <2>1, <2>2, Zenon
  <1>2. R = {res(o) : o \in done}
    BY DEF Delivered
  <1> HIDE DEF res, R
  <1>3. /\ R \subseteq Result
        /\ \A r \in R : /\ r.op \in done
                        /\ r.has_exception <=> r.op \in bad
                        /\ r.miss <=> r.op \in miss
        /\ \A o \in done : \E r \in R : r.op = o
    BY <1>1, <1>2
  <1>4. \A r1, r2 \in R : r1.op = r2.op => r1 = r2
    BY <1>1, <1>2
  <1>5. {r.op : r \in R} = done
    BY <1>3
  <1>6. Ops(b \ done, R) = b
    BY <1>5 DEF Ops
  <1>7. QED
    BY <1>3, <1>4, <1>6 DEF R

(* The entries in force, when no walk back is going on.                     *)
LEMMA NewIs ==
    ASSUME TypeOK, Queues, cur_state = "normal"
    PROVE  /\ Standing = Left /\ Left \in Nat
           /\ \A k \in 1 .. Left : /\ New[k] = Es[k].new /\ Old[k] = Es[k].old
                                   /\ Es[k] \in RobItem /\ Ids[k] \in RobId
  <1>1. Standing = Left /\ Left \in Nat
    BY RobFields DEF Standing
  <1>2. QED
    BY <1>1, EsTyped, RobFields DEF New, Old

(* Every instruction in flight has an entry, and no register is the target  *)
(* of two.                                                                  *)
LEMMA Targets ==
    ASSUME TypeOK, Queues, cur_state = "normal", MapInv,
           NEW b, NEW rs, OpsOK(Left, Ids, Es, b, rs)
    PROVE  /\ \A o \in Ops(b, rs) : o.rd_phy # None => o.rd_phy \in Table.valid
           /\ \A o1, o2 \in Ops(b, rs) : o1.rd_phy # None /\ o1.rd_phy = o2.rd_phy => o1 = o2
           /\ \A o \in Ops(b, rs) : \A k \in 1 .. Left :
                 o.rd_phy # None /\ Es[k].new = o.rd_phy => ~ Es[k].finish
  <1>1. /\ Standing = Left /\ Left \in Nat
        /\ \A k \in 1 .. Left : New[k] = Es[k].new
    BY NewIs
  <1>2. /\ Table.valid = Now(New, Dest, arf, 0) \cup ({New[k] : k \in 0 + 1 .. Standing} \ {None})
        /\ Entries(New, Old, Dest, arf, Standing)
    BY TableTyped
  <1>3. \A k \in 1 .. Left : k \in 0 + 1 .. Left
    BY <1>1
  <1>4. ASSUME NEW o \in Ops(b, rs)
        PROVE  \E k \in 1 .. Left : Ids[k] = o.rob_id /\ ~ Es[k].finish /\ Es[k].new = o.rd_phy
    BY DEF OpsOK
  <1>5. \A j, k \in 1 .. Left : Es[j].new = Es[k].new /\ Es[j].new # None => j = k
    BY <1>1, <1>2 DEF Entries
  <1>6. ASSUME NEW o \in Ops(b, rs), o.rd_phy # None PROVE o.rd_phy \in Table.valid
    BY <1>1, <1>2, <1>3, <1>4, <1>6
  <1>7. ASSUME NEW o1 \in Ops(b, rs), NEW o2 \in Ops(b, rs), o1.rd_phy # None, o1.rd_phy = o2.rd_phy
        PROVE  o1 = o2
    <2>1. o1.rob_id = o2.rob_id
      BY <1>4, <1>5, <1>7
    <2>2. QED
      BY <2>1 DEF OpsOK
  <1>8. ASSUME NEW o \in Ops(b, rs), NEW k \in 1 .. Left, o.rd_phy # None, Es[k].new = o.rd_phy
        PROVE  ~ Es[k].finish
    BY <1>4, <1>5, <1>8
  <1>9. QED
    BY <1>6, <1>7, <1>8

(* Instructions finish in any order.                                        *)
LEMMA ExecuteStep ==
    ASSUME RenameInv, Execute
    PROVE  RenameInv'
  <1>1. /\ TypeOK /\ rat.ok /\ Queues /\ Pass /\ WalkInv /\ MapInv /\ BitsInv
        /\ OpsInv /\ KindInv /\ CpInv /\ Ahead
    BY DEF RenameInv
  <1>2. /\ stage = "execute" /\ ~ feedback.flush /\ stage' = "rename"
        /\ UNCHANGED <<data_valid, cpb, cp_q, fifo, jump_wait>>
        /\ UNCHANGED <<rat, rat_q, rob, rob_q, feedback>>
        /\ UNCHANGED <<cur_state, rob_item_id, restore_rob_item_id, arf>>
    BY DEF Execute, commitVars
  <1>3. StillVars' = StillVars
    BY <1>2 DEF StillVars
  <1>4. /\ Pops' = Pops /\ Left' = Left /\ Ids' = Ids /\ Es' = Es /\ Table' = Table
        /\ Standing' = Standing /\ New' = New /\ Old' = Old /\ Dest' = Dest
        /\ Calm' = Calm /\ MapInv' = MapInv /\ WalkInv' = WalkInv
    BY <1>3, Still
  <1>5. Calm /\ cur_state = "normal"
    BY <1>1, <1>2 DEF Pass, Calm
  <1>6. PICK done \in SUBSET backend :
          \E bad \in SUBSET {o \in done : o.kind = "plain" /\ "exception" \in Mix},
             miss \in SUBSET {o \in done : o.cp # None} :
             /\ backend' = backend \ done /\ wb_commit' = Delivered(done, bad, miss)
             /\ reg_q' = Append(reg_q, WriteBack(Delivered(done, bad, miss)))
    BY DEF Execute, Delivered
  <1>7. PICK bad \in SUBSET {o \in done : o.kind = "plain" /\ "exception" \in Mix},
             miss \in SUBSET {o \in done : o.cp # None} :
             /\ backend' = backend \ done /\ wb_commit' = Delivered(done, bad, miss)
             /\ reg_q' = Append(reg_q, WriteBack(Delivered(done, bad, miss)))
    BY <1>6
  <1> DEFINE R == Delivered(done, bad, miss)
             W == WriteBack(R)
  <1>8. backend \subseteq InFlight /\ done \subseteq backend
    BY <1>1 DEF TypeOK
  <1>9. /\ R \subseteq Result
        /\ \A r \in R : /\ r.op \in done
                        /\ r.has_exception <=> r.op \in bad
                        /\ r.miss <=> r.op \in miss
        /\ \A o \in done : \E r \in R : r.op = o
        /\ \A r1, r2 \in R : r1.op = r2.op => r1 = r2
        /\ Ops(backend \ done, R) = backend
    BY <1>8, DeliveredIs
  <1>10. LiveResults = {} /\ LiveResults' = R /\ Ops(backend, {}) = backend
    BY <1>2, <1>7 DEF LiveResults, Ops
  <1>11. backend' = backend \ done /\ wb_commit' = R /\ reg_q' = Append(reg_q, W)
    BY <1>7
  <1>12. /\ W.op = "set" /\ W \in RegRequest
         /\ \A p \in Phy : p \in W.phys <=> \E o \in done \ bad : o.rd_phy = p
    <2> DEFINE good == {r \in R : r.op.rd_phy # None /\ ~ r.has_exception}
    <2>1. W = [op |-> "set", phys |-> {r.op.rd_phy : r \in good}]
      BY DEF WriteBack
    <2>2. \A r \in good : r.op.rd_phy \in Phy
      BY <1>9 DEF Result, InFlight
    <2>3. {r.op.rd_phy : r \in good} \subseteq Phy
      BY <2>2
    <2>4. W.op = "set" /\ W.phys = {r.op.rd_phy : r \in good} /\ W \in RegRequest
      BY <2>1, <2>3 DEF RegRequest
    <2>5. ASSUME NEW p \in Phy PROVE p \in W.phys <=> \E o \in done \ bad : o.rd_phy = p
      <3>1. p # None
        BY NoneAssumption
      <3>2. ASSUME p \in W.phys PROVE \E o \in done \ bad : o.rd_phy = p
        BY <1>9, <2>4, <3>2
      <3>3. ASSUME NEW o \in done \ bad, o.rd_phy = p PROVE p \in W.phys
        <4>1. PICK r \in R : r.op = o
          BY <1>9
        <4>2. r \in good
          BY <1>9, <3>1, <3>3, <4>1
        <4>3. QED
          BY <2>4, <3>3, <4>1, <4>2
      <3>4. QED
        BY <3>2, <3>3
    <2>6. QED
      BY <2>4, <2>5
  <1> HIDE DEF R, W
  <1>13. OpsOK(Left, Ids, Es, backend, {}) /\ KindOK(Left, Es, {})
    BY <1>1, <1>5, <1>10 DEF OpsInv, KindInv
  <1>14. OpsOK(Left, Ids, Es, backend', R)
    <2>1. Ops(backend', R) = Ops(backend, {})
      BY <1>9, <1>10, <1>11
    <2>2. /\ \A r1, r2 \in R : r1.op = r2.op => r1 = r2
          /\ \A r \in R : r.op \notin backend'
      BY <1>9, <1>11
    <2> QED
      BY <1>13, <2>1, <2>2 DEF OpsOK
  <1>15. KindOK(Left, Es, R)
    BY <1>9, <1>13 DEF KindOK
  <1>16. OpsInv' /\ KindInv'
    BY <1>4, <1>10, <1>14, <1>15 DEF OpsInv, KindInv
  <1>17. TypeOK'
    <2>1. wb_commit' \in SUBSET Result /\ backend' \in SUBSET InFlight
      BY <1>8, <1>9, <1>11
    <2>2. QED
      BY <1>1, <1>2, <2>1 DEF TypeOK
  <1>18. Queues'
    <2>1. reg_q' \in Seq(RegRequest)
      BY <1>1, <1>11, <1>12, AppendProperties DEF Queues
    <2>2. QED
      BY <1>1, <1>2, <1>4, <2>1 DEF Queues
  <1>19. Pass'
    BY <1>1, <1>2, <1>4, <1>5 DEF Pass
  <1>20. Ahead'
    BY <1>1, <1>2, <1>4 DEF Ahead
  <1>21. CpInv'
    <2>1. Claims' = Claims
      BY <1>2, <1>4, <1>9, <1>10, <1>11 DEF Claims
    <2>2. Contents' = Contents /\ CpPops' = CpPops
      BY <1>2 DEF Contents, CpPops
    <2>3. QED
      BY <1>1, <1>2, <1>4, <2>1, <2>2 DEF CpInv
  <1>22. BitsInv'
    <2>1. \A p \in Phy : p \in Bits' <=> p \in Bits \/ p \in W.phys
      <3>1. ASSUME NEW p \in Phy PROVE p \in Bits' <=> p \in Bits \/ p \in W.phys
        <4>1. (Concerns(W, p) <=> p \in W.phys) /\ Validates(W, p)
          BY <1>12 DEF Concerns, Validates
        <4>2. reg_q \in Seq(RegRequest)
          BY <1>1 DEF Queues
        <4>3. p \in RegSync(data_valid, Append(reg_q, W)) <=>
                 IF Concerns(W, p) THEN Validates(W, p) ELSE p \in RegSync(data_valid, reg_q)
          BY <1>12, <4>2, RegAppend
        <4>4. Bits' = RegSync(data_valid, Append(reg_q, W)) /\ Bits = RegSync(data_valid, reg_q)
          BY <1>2, <1>11 DEF Bits
        <4>5. QED
          BY <4>1, <4>3, <4>4
      <3>2. QED
        BY <3>1
    <2>2. Bits \subseteq Phy /\ Bits' \subseteq Phy
      BY RegTyped DEF Bits
    <2>3. Table.valid \subseteq Phy
      BY <1>1, TableTyped DEF RatType
    <2>4. /\ \A o \in backend : o.rd_phy # None => o.rd_phy \in Table.valid
          /\ \A o1, o2 \in backend : o1.rd_phy # None /\ o1.rd_phy = o2.rd_phy => o1 = o2
          /\ \A o \in backend : \A k \in 1 .. Left :
                 o.rd_phy # None /\ Es[k].new = o.rd_phy => ~ Es[k].finish
      <3>1. OpsOK(Left, Ids, Es, backend, {})
        BY <1>13
      <3>2. Ops(backend, {}) = backend
        BY <1>10
      <3>3. QED
        BY <1>1, <1>5, <3>1, <3>2, Targets
    <2>5. Bits = Table.valid \ Unwritten(Left, Es, backend, {})
      BY <1>1, <1>5, <1>10 DEF BitsInv
    <2> DEFINE X == {Es[k].new : k \in {j \in 1 .. Left : Es[j].has_exception}}
    <2>6. \A p : p \in Unwritten(Left, Es, backend, {}) <=> (\E o \in backend : o.rd_phy = p) \/ p \in X
      BY DEF Unwritten
    <2>7. \A p : p \in Unwritten(Left, Es, backend', R) <=>
                    (\E o \in backend \ done : o.rd_phy = p) \/ (\E o \in bad : o.rd_phy = p) \/ p \in X
      <3> DEFINE Y == {r.op.rd_phy : r \in {x \in R : x.has_exception}}
      <3>1. \A p : p \in Y <=> \E o \in bad : o.rd_phy = p
        <4>1. bad \subseteq done
          OBVIOUS
        <4>2. ASSUME NEW o \in bad PROVE o.rd_phy \in Y
          <5>1. PICK r \in R : r.op = o
            BY <1>9, <4>1
          <5>2. QED
            BY <1>9, <5>1
        <4>3. ASSUME NEW p \in Y PROVE \E o \in bad : o.rd_phy = p
          BY <1>9
        <4>4. QED
          BY <4>2, <4>3
      <3> HIDE DEF Y
      <3>2. Unwritten(Left, Es, backend', R) = {o.rd_phy : o \in backend \ done} \cup Y \cup X
        BY <1>11 DEF Unwritten, Y
      <3>3. QED
        BY <3>1, <3>2
    <2>8. \A o \in backend : o.rd_phy # None => o.rd_phy \notin X
      BY <2>4, <1>13 DEF KindOK
    <2> HIDE DEF X
    <2>9. ASSUME NEW p \in Phy
          PROVE  p \in Bits' <=> p \in Table.valid /\ p \notin Unwritten(Left, Es, backend', R)
      <3>0. p # None /\ bad \subseteq done /\ done \subseteq backend
        BY NoneAssumption
      <3>1. ASSUME p \in Bits PROVE p \in Table.valid /\ p \notin Unwritten(Left, Es, backend', R)
        BY <2>5, <2>6, <2>7, <3>0, <3>1
      <3>2. ASSUME NEW o \in done \ bad, o.rd_phy = p
            PROVE  p \in Table.valid /\ p \notin Unwritten(Left, Es, backend', R)
        BY <2>4, <2>7, <2>8, <3>0, <3>2
      <3>3. ASSUME p \in Table.valid, p \notin Unwritten(Left, Es, backend', R), p \notin Bits
            PROVE  \E o \in done \ bad : o.rd_phy = p
        BY <2>5, <2>6, <2>7, <3>3
      <3>4. QED
        BY <1>12, <2>1, <3>1, <3>2, <3>3
    <2>10. Bits' = Table.valid \ Unwritten(Left, Es, backend', R)
      BY <2>2, <2>3, <2>9
    <2>11. {arf[a] : a \in Arch} \subseteq Bits /\ Bits \subseteq Bits'
      BY <1>1, <2>1, <2>2 DEF BitsInv
    <2>12. {arf'[a] : a \in Arch} \subseteq Bits' /\ Bits' \subseteq Table'.valid
      BY <1>2, <1>4, <2>10, <2>11
    <2>13. Bits' = Table'.valid \ Unwritten(Left', Es', backend', LiveResults')
      BY <1>4, <1>10, <2>10
    <2>14. QED
      BY <2>12, <2>13 DEF BitsInv
  <1>23. QED
    BY <1>1, <1>2, <1>4, <1>16, <1>17, <1>18, <1>19, <1>20, <1>21, <1>22 DEF RenameInv

(* At the start of a pass nothing is queued.                                *)
LEMMA AtCommit ==
    ASSUME RenameInv, stage = "commit"
    PROVE  /\ Pops = 0 /\ Left = rob.cnt /\ Table = rat /\ Bits = data_valid
           /\ CpPops = 0 /\ Contents = cpb.buf /\ LiveResults = wb_commit
           /\ \A k \in 1 .. Left : /\ Ids[k] = RobIdAt(k) /\ Ids[k] = Ring(rob.rptr, k)
                                   /\ Es[k] = RobAt(k) /\ Es[k] = rob.buf[Ids[k]] /\ Es[k] \in RobItem
           /\ rat_q = << >> /\ reg_q = << >> /\ rob_q = [pop |-> 0, done |-> {}]
           /\ cp_q = [pop |-> FALSE, set |-> << >>] /\ feedback = NoFeedback
           /\ (Calm <=> cur_state = "normal")
  <1>1. TypeOK /\ Queues /\ Pass
    BY DEF RenameInv
  <1>2. /\ rat_q = << >> /\ reg_q = << >> /\ rob_q = [pop |-> 0, done |-> {}]
        /\ cp_q = [pop |-> FALSE, set |-> << >>] /\ feedback = NoFeedback
    BY <1>1 DEF Pass
  <1>3. rob_q.pop = 0 /\ rob_q.done = {} /\ cp_q.pop = FALSE /\ cp_q.set = << >> /\ ~ feedback.flush
    BY <1>2 DEF NoFeedback
  <1>4. Pops = 0 /\ rob.cnt \in Nat
    BY <1>1, <1>3, SizesAssumption DEF Pops, TypeOK
  <1>5. Left = rob.cnt
    BY <1>4 DEF Left
  <1>6. Table = rat
    <2>1. Len(rat_q) = 0
      BY <1>2
    <2>2. QED
      BY <2>1, AppliedNone DEF Table
  <1>7. Bits = data_valid
    <2>1. Len(reg_q) = 0 /\ data_valid \subseteq Phy
      BY <1>1, <1>2 DEF TypeOK
    <2>2. QED
      BY <2>1, RegNone DEF Bits
  <1>8. CpPops = 0 /\ LiveResults = wb_commit
    BY <1>3 DEF CpPops, LiveResults
  <1>9. Contents = cpb.buf
    <2>1. \A c \in CpId : Filled(c, cp_q.set) = {}
      BY <1>3 DEF Filled
    <2>2. cpb.buf \in [CpId -> CheckpointType]
      BY <1>1 DEF TypeOK
    <2>3. QED
      BY <2>1, <2>2 DEF Contents
  <1>10. ASSUME NEW k \in 1 .. Left
         PROVE  /\ Ids[k] = RobIdAt(k) /\ Ids[k] = Ring(rob.rptr, k)
                /\ Es[k] = RobAt(k) /\ Es[k] = rob.buf[Ids[k]] /\ Es[k] \in RobItem
    <2>1. Ids[k] = Ring(rob.rptr, 0 + k) /\ Es[k] = After(Ids[k], rob.buf, rob_q.done) /\ 0 + k = k
      BY <1>1, <1>4, RobFields
    <2>2. Ids[k] = Ring(rob.rptr, k)
      BY <2>1
    <2>3. Es[k] = rob.buf[Ids[k]]
      BY <1>3, <2>1 DEF After
    <2>4. Es[k] \in RobItem
      BY <1>1, EsTyped
    <2>5. Ring(rob.rptr, k) = RobIdAt(k) /\ RobAt(k) = rob.buf[RobIdAt(k)]
      BY DEF Ring, RobIdAt, RobAt
    <2>6. QED
      BY <2>2, <2>3, <2>4, <2>5
  <1>11. Calm <=> cur_state = "normal"
    BY <1>3 DEF Calm
  <1>12. QED
    BY <1>2, <1>4, <1>5, <1>6, <1>7, <1>8, <1>9, <1>10, <1>11

(* The retired entries are the oldest ones, all finished.                   *)
LEMMA RetireNumIs ==
    ASSUME rob.cnt \in Nat
    PROVE  /\ RetireNum \in 0 .. rob.cnt /\ Retired = 1 .. RetireNum
           /\ \A k \in 1 .. RetireNum : /\ k \in 1 .. rob.cnt /\ k <= CommitWidth
                                        /\ RobAt(k).finish /\ ~ RobAt(k).has_exception
           /\ \A k \in Faulting : k = RetireNum + 1 /\ k \in 1 .. rob.cnt
  <1>1. Retired \subseteq 1 .. rob.cnt
    BY DEF Retired, Visited
  <1>2. ASSUME NEW k \in Visited, NEW j \in 1 .. k - 1 PROVE j \in Retired
    <2>1. k \in 1 .. rob.cnt /\ k <= CommitWidth /\ CommitWidth \in Nat
      BY SizesAssumption DEF Visited
    <2>2. j \in 1 .. rob.cnt /\ j <= CommitWidth /\ \A i \in 1 .. j - 1 : i \in 1 .. k - 1
      BY <2>1
    <2>3. j \in Visited
      BY <2>2 DEF Visited
    <2>4. RobAt(j).finish /\ ~ RobAt(j).has_exception
      BY DEF Visited
    <2>5. QED
      BY <2>3, <2>4 DEF Retired
  <1>3. \E n \in 0 .. rob.cnt : Retired = 1 .. n
    <2>1. CASE Retired = {}
      <3>1. Retired = 1 .. 0 /\ 0 \in 0 .. rob.cnt
        BY <2>1
      <3>2. QED
        BY <3>1
    <2>2. CASE Retired # {}
      <3> DEFINE n == Newest(Retired)
      <3>1. n \in Retired /\ \A j \in Retired : j <= n
        BY <1>1, <2>2, NewestIs
      <3> HIDE DEF n
      <3>2. n \in Visited /\ n \in 1 .. rob.cnt
        BY <1>1, <3>1 DEF Retired
      <3>3. 1 .. n \subseteq Retired
        <4>1. ASSUME NEW j \in 1 .. n PROVE j \in Retired
          <5>1. j = n \/ j \in 1 .. n - 1
            BY <3>2
          <5>2. QED
            BY <1>2, <3>1, <3>2, <5>1
        <4>2. QED
          BY <4>1
      <3>4. Retired \subseteq 1 .. n
        BY <1>1, <3>1, <3>2
      <3>5. Retired = 1 .. n
        BY <3>3, <3>4, Zenon
      <3>6. n \in 0 .. rob.cnt
        BY <3>2
      <3>7. QED
        BY <3>5, <3>6
    <2>3. QED
      BY <2>1, <2>2
  <1>4. RetireNum \in 0 .. rob.cnt /\ Retired = 1 .. RetireNum
    BY <1>3 DEF RetireNum
  <1>5. ASSUME NEW k \in 1 .. RetireNum
        PROVE  /\ k \in 1 .. rob.cnt /\ k <= CommitWidth
               /\ RobAt(k).finish /\ ~ RobAt(k).has_exception
    <2>1. k \in Retired
      BY <1>4
    <2>2. QED
      BY <2>1 DEF Retired, Visited
  <1>6. ASSUME NEW k \in Faulting PROVE k = RetireNum + 1 /\ k \in 1 .. rob.cnt
    <2>1. k \in Visited /\ k \in 1 .. rob.cnt /\ k \notin Retired
      BY DEF Faulting, Retired, Visited
    <2>2. k \notin 1 .. RetireNum
      BY <1>4, <2>1
    <2>3. \A j \in 1 .. k - 1 : j \in 1 .. RetireNum
      BY <1>2, <1>4, <2>1
    <2>4. k = 1 \/ k - 1 \in 1 .. RetireNum
      BY <2>1, <2>3
    <2>5. QED
      BY <1>4, <2>1, <2>2, <2>4
  <1>7. QED
    BY <1>4, <1>5, <1>6

(* MapAfter is what the entries say.                                        *)
LEMMA MapAfterIs ==
    ASSUME RenameInv, stage = "commit", NEW a \in Arch, NEW n \in 0 .. Standing
    PROVE  MapAfter(a, n) = Latest(New, Dest, arf, a, n)
  <1>1. /\ Table = rat /\ \A k \in 1 .. Left : Es[k] = RobAt(k)
    BY AtCommit
  <1>2. Standing \in Nat
    BY TableTyped DEF RenameInv
  <1>3. Standing <= Left
    <2>1. CASE cur_state = "normal"
      <3>1. Left \in Nat
        BY RobFields DEF RenameInv
      <3>2. QED
        BY <2>1, <3>1 DEF Standing
    <2>2. CASE cur_state # "normal"
      <3>1. Left \in Nat
        BY RobFields DEF RenameInv
      <3>2. QED
        BY <2>2, <3>1 DEF RenameInv, WalkInv
    <2>3. QED
      BY <2>1, <2>2
  <1>4. Left \in Nat
    BY RobFields DEF RenameInv
  <1>5. ASSUME NEW k \in 1 .. n
        PROVE  /\ New[k] = RobAt(k).new
               /\ Dest[k] = IF RobAt(k).new = None THEN None ELSE rat.table[RobAt(k).new]
    <2>1. k \in 1 .. Standing /\ k \in 1 .. Left
      BY <1>2, <1>3, <1>4
    <2>2. New[k] = RobAt(k).new
      BY <1>1, <2>1 DEF New
    <2>3. QED
      BY <1>1, <2>1, <2>2 DEF Dest, Writes
  <1>6. a # None
    BY NoneAssumption
  <1>7. Writers(a, n) = {k \in 1 .. n : Dest[k] = a}
    BY <1>5, <1>6 DEF Writers
  <1>8. CASE Writers(a, n) = {}
    BY <1>7, <1>8 DEF MapAfter, Latest
  <1>9. CASE Writers(a, n) # {}
    <2>1. Newest(Writers(a, n)) \in Writers(a, n)
      <3>1. Writers(a, n) \subseteq 1 .. n /\ n \in Nat
        BY <1>2, <1>7
      <3>2. QED
        BY <1>9, <3>1, NewestIs
    <2>2. Newest(Writers(a, n)) \in 1 .. n
      BY <2>1 DEF Writers
    <2>3. QED
      BY <1>5, <1>7, <1>9, <2>2 DEF MapAfter, Latest
  <1>10. QED
    BY <1>8, <1>9

-----------------------------------------------------------------------------
(* What the retired entries replaced is never a mapping again.              *)
LEMMA ReplacedIs ==
    ASSUME NEW nw, NEW od, NEW w, NEW f, NEW m, Entries(nw, od, w, f, m),
           NEW a \in Arch, NEW k \in 1 .. m, NEW n \in k .. m
    PROVE  Latest(nw, w, f, a, n) # od[k]
  <1>1. m \in Nat /\ k - 1 \in 0 .. m /\ k \in (k - 1) + 1 .. m /\ n \in 0 .. m
    BY DEF Entries
  <1>2. CASE w[k] = None
    <2>1. od[k] = None
      BY <1>2 DEF Entries
    <2>2. Latest(nw, w, f, a, n) \in Phy
      BY <1>1, LatestTyped
    <2>3. QED
      BY <2>1, <2>2, NoneAssumption
  <1>3. CASE w[k] # None
    <2>1. od[k] = Latest(nw, w, f, w[k], k - 1) /\ w[k] \in Arch
      BY <1>3 DEF Entries
    <2>2. SUFFICES ASSUME Latest(nw, w, f, a, n) = Latest(nw, w, f, w[k], k - 1) PROVE FALSE
      BY <2>1
    <2>3. a = w[k]
      BY <1>1, <2>1, <2>2, LatestInjective
    <2>4. Latest(nw, w, f, a, n) # Latest(nw, w, f, a, k - 1)
      BY <1>1, <2>3, LatestReplaced
    <2>5. QED
      BY <2>2, <2>3, <2>4
  <1>4. QED
    BY <1>2, <1>3

Held(nw, w, f, j, m) == Now(nw, w, f, j) \cup Rest(nw, j, m)
Replaced(od, n) == {od[k] : k \in 1 .. n}

(* Retiring an entry gives up the register it replaced.                     *)
LEMMA HeldNext ==
    ASSUME NEW nw, NEW od, NEW w, NEW f, NEW m, Entries(nw, od, w, f, m), NEW j \in 0 .. m, j < m
    PROVE  Held(nw, w, f, j + 1, m) = Held(nw, w, f, j, m) \ {od[j + 1]}
  <1>1. /\ m \in Nat /\ j \in Nat /\ j + 1 \in 1 .. m /\ (j + 1) - 1 = j /\ j + 1 \in (j + 1) .. m
        /\ j + 1 \in 0 .. m
        /\ \A k \in j + 1 .. m : k = j + 1 \/ k \in (j + 1) + 1 .. m
        /\ \A k \in (j + 1) + 1 .. m : k \in j + 1 .. m /\ k \in 1 .. m
    BY DEF Entries
  <1>2. Rest(nw, j, m) = Rest(nw, j + 1, m) \cup ({nw[j + 1]} \ {None})
    BY <1>1 DEF Rest
  <1>3. od[j + 1] = IF w[j + 1] = None THEN None ELSE Latest(nw, w, f, w[j + 1], j)
    BY <1>1 DEF Entries
  <1>4. CASE w[j + 1] = None
    <2>1. nw[j + 1] = None /\ od[j + 1] = None
      BY <1>1, <1>3, <1>4 DEF Entries
    <2>2. Now(nw, w, f, j + 1) = Now(nw, w, f, j) /\ Now(nw, w, f, j) \subseteq Phy
      BY <1>1, <1>4, NowNone, NowTyped
    <2>3. None \notin Phy /\ None \notin Rest(nw, j, m)
      BY NoneAssumption DEF Rest
    <2>4. QED
      BY <1>2, <2>1, <2>2, <2>3 DEF Held
  <1>5. CASE w[j + 1] # None
    <2>1. /\ w[j + 1] \in Arch /\ nw[j + 1] \in Phy
          /\ Now(nw, w, f, j + 1) = (Now(nw, w, f, j) \ {od[j + 1]}) \cup {nw[j + 1]}
      BY <1>1, <1>3, <1>5, NowNext
    <2>2. \A k \in j + 1 .. m : nw[k] # od[j + 1]
      BY <1>1, <1>3, <1>5, <2>1, LatestOther
    <2>3. od[j + 1] \notin Rest(nw, j + 1, m) /\ od[j + 1] # nw[j + 1]
      BY <1>1, <2>2 DEF Rest
    <2>4. nw[j + 1] # None
      BY <2>1, NoneAssumption
    <2>5. QED
      BY <1>2, <2>1, <2>3, <2>4 DEF Held
  <1>6. QED
    BY <1>4, <1>5

(* The same for the first n entries.                                        *)
LEMMA HeldAfter ==
    ASSUME NEW nw, NEW od, NEW w, NEW f, NEW m, Entries(nw, od, w, f, m), NEW n \in 0 .. m
    PROVE  Held(nw, w, f, n, m) = Held(nw, w, f, 0, m) \ Replaced(od, n)
  <1> DEFINE T == {i \in Nat : i <= m => Held(nw, w, f, i, m) = Held(nw, w, f, 0, m) \ Replaced(od, i)}
  <1>1. m \in Nat
    BY DEF Entries
  <1>2. 0 \in T
    <2>1. Replaced(od, 0) = {}
      BY DEF Replaced
    <2>2. QED
      BY <2>1
  <1>3. ASSUME NEW i \in T PROVE i + 1 \in T
    <2>1. i \in Nat /\ i + 1 \in Nat
      OBVIOUS
    <2>2. ASSUME i + 1 <= m
          PROVE  Held(nw, w, f, i + 1, m) = Held(nw, w, f, 0, m) \ Replaced(od, i + 1)
      <3>1. i \in 0 .. m /\ i < m
        BY <1>1, <2>1, <2>2
      <3>2. Held(nw, w, f, i + 1, m) = Held(nw, w, f, i, m) \ {od[i + 1]}
        BY <3>1, HeldNext
      <3>3. Held(nw, w, f, i, m) = Held(nw, w, f, 0, m) \ Replaced(od, i)
        BY <1>1, <3>1
      <3>4. Replaced(od, i + 1) = Replaced(od, i) \cup {od[i + 1]}
        <4>1. \A k \in 1 .. i + 1 : k = i + 1 \/ k \in 1 .. i
          BY <2>1
        <4>2. \A k \in 1 .. i : k \in 1 .. i + 1
          BY <2>1
        <4>3. i + 1 \in 1 .. i + 1
          BY <2>1
        <4>4. QED
          BY <4>1, <4>2, <4>3 DEF Replaced
      <3>5. QED
        BY <3>2, <3>3, <3>4
    <2>3. QED
      BY <2>1, <2>2
  <1>4. T \subseteq Nat
    OBVIOUS
  <1> HIDE DEF T
  <1>5. Nat \subseteq T
    BY <1>2, <1>3, <1>4, NatInductionSet
  <1>6. n \in T /\ n <= m
    BY <1>1, <1>5
  <1>7. QED
    BY <1>6 DEF T

(* The table of a retiring group hides only what the group has replaced.    *)
LEMMA HidesRetired ==
    ASSUME NEW nw, NEW od, NEW w, NEW f, NEW m, Entries(nw, od, w, f, m), NEW n \in 0 .. m,
           NEW r, Agrees(r, nw, w, f, 0, m), NEW t, Agrees(t, nw, w, f, n, m)
    PROVE  Hides(t, r)
  <1>1. m \in Nat /\ n \in Nat /\ n <= m /\ \A k \in n + 1 .. m : k \in 1 .. m /\ k \in 0 + 1 .. m
    BY DEF Entries
  <1>2. /\ r.valid = Held(nw, w, f, 0, m) /\ t.valid = Held(nw, w, f, n, m)
        /\ r \in RatType /\ t \in RatType /\ r.visible = t.visible /\ t.visible = Now(nw, w, f, m)
    BY DEF Agrees, Held, Rest
  <1>3. t.valid \subseteq r.valid
    BY <1>2, HeldAfter
  <1>4. t.visible \subseteq t.valid
    <2>1. ASSUME NEW a \in Arch PROVE Latest(nw, w, f, a, m) \in t.valid
      BY <1>1, MappedIs, m \in 0 .. m
    <2>2. QED
      BY <1>2, <2>1 DEF Now
  <1>5. ASSUME NEW p \in t.valid PROVE t.table[p] = r.table[p]
    <2>1. CASE p \in Now(nw, w, f, n)
      <3>1. PICK a \in Arch : p = Latest(nw, w, f, a, n)
        BY <2>1 DEF Now
      <3>2. t.table[p] = a
        BY <3>1 DEF Agrees
      <3>3. r.table[p] = a
        <4>1. CASE p = f[a]
          BY <4>1, LatestNone DEF Agrees
        <4>2. CASE p # f[a]
          <5>1. PICK k \in 1 .. n : w[k] = a /\ p = nw[k]
            BY <1>1, <3>1, <4>2, LatestCases
          <5>2. p # None
            BY <1>1, <3>1, LatestTyped, NoneAssumption
          <5>3. k \in 0 + 1 .. m
            BY <1>1
          <5>4. QED
            BY <5>1, <5>2, <5>3 DEF Agrees
        <4>3. QED
          BY <4>1, <4>2
      <3>4. QED
        BY <3>2, <3>3
    <2>2. CASE p \in Rest(nw, n, m)
      <3>1. PICK k \in n + 1 .. m : p = nw[k] /\ nw[k] # None
        BY <2>2 DEF Rest
      <3>2. QED
        BY <1>1, <3>1 DEF Agrees
    <2>3. QED
      BY <1>2, <2>1, <2>2 DEF Held
  <1>6. QED
    BY <1>2, <1>3, <1>4, <1>5 DEF Hides

(* The results wb enter the entries while the n oldest ones leave.          *)
Delivers(n, L, ids, es, ix, ex, b, wb) ==
    /\ L \in Nat /\ n \in 0 .. L
    /\ b \subseteq InFlight /\ wb \subseteq Result
    /\ OpsOK(L, ids, es, b, wb) /\ KindOK(L, es, wb)
    /\ \A k \in 1 .. L : es[k] \in RobItem
    /\ \A j, k \in 1 .. L : ids[j] = ids[k] => j = k
    /\ \A k \in 1 .. n : es[k].finish /\ ~ es[k].has_exception
    /\ \A k \in 1 .. L - n : /\ ix[k] = ids[n + k]
                             /\ (\A r \in wb : r.op.rob_id # ids[n + k]) => ex[k] = es[n + k]
                             /\ \A r \in wb : r.op.rob_id = ids[n + k] => ex[k] = Finished(es[n + k], r)

(* An entry gets its own result or none.                                    *)
LEMMA DeliversOne ==
    ASSUME NEW n, NEW L, NEW ids, NEW es, NEW ix, NEW ex, NEW b, NEW wb,
           Delivers(n, L, ids, es, ix, ex, b, wb), NEW k \in 1 .. L - n
    PROVE  /\ n + k \in 1 .. L /\ ex[k] \in RobItem
           /\ ex[k].new = es[n + k].new /\ ex[k].old = es[n + k].old
           /\ \/ (\A r \in wb : r.op.rob_id # ids[n + k]) /\ ex[k] = es[n + k]
              \/ \E r \in wb : /\ r.op.rob_id = ids[n + k] /\ r.op.rd_phy = es[n + k].new
                               /\ ~ es[n + k].finish /\ ~ es[n + k].has_exception
                               /\ ex[k].finish /\ ex[k].has_exception = r.has_exception
                               /\ ex[k].miss = r.miss /\ ex[k].cp = r.op.cp
                               /\ \A o \in b : o.rob_id # ids[n + k]
                               /\ \A s \in wb : s.op.rob_id = ids[n + k] => s = r
  <1>1. n + k \in 1 .. L
    BY DEF Delivers
  <1>2. es[n + k] \in RobItem
    BY <1>1 DEF Delivers
  <1>3. CASE \A r \in wb : r.op.rob_id # ids[n + k]
    <2>1. ex[k] = es[n + k]
      BY <1>3 DEF Delivers
    <2>2. QED
      BY <1>1, <1>2, <1>3, <2>1
  <1>4. CASE ~ \A r \in wb : r.op.rob_id # ids[n + k]
    <2>1. PICK r \in wb : r.op.rob_id = ids[n + k]
      BY <1>4
    <2>2. ex[k] = Finished(es[n + k], r) /\ r \in Result
      BY <2>1 DEF Delivers
    <2>3. /\ ex[k] \in RobItem /\ ex[k].new = es[n + k].new /\ ex[k].old = es[n + k].old
          /\ ex[k].finish /\ ex[k].has_exception = r.has_exception
          /\ ex[k].miss = r.miss /\ ex[k].cp = r.op.cp
      <3> DEFINE x == es[n + k]
      <3>1. x \in RobItem /\ ex[k] = Finished(x, r)
        BY <1>2, <2>2
      <3> HIDE DEF x
      <3>2. /\ Finished(x, r) \in RobItem
            /\ Finished(x, r).new = x.new /\ Finished(x, r).old = x.old
            /\ Finished(x, r).finish = TRUE
            /\ Finished(x, r).has_exception = r.has_exception
            /\ Finished(x, r).miss = r.miss /\ Finished(x, r).cp = r.op.cp
        BY <2>2, <3>1, FinishedItem
      <3>3. /\ ex[k] \in RobItem /\ ex[k].new = x.new /\ ex[k].old = x.old
            /\ ex[k].finish /\ ex[k].has_exception = r.has_exception
            /\ ex[k].miss = r.miss /\ ex[k].cp = r.op.cp
        BY <3>1, <3>2
      <3>4. QED
        BY <3>3 DEF x
    <2>4. r.op \in Ops(b, wb)
      BY DEF Ops
    <2>5. PICK j \in 1 .. L : ids[j] = r.op.rob_id /\ ~ es[j].finish /\ es[j].new = r.op.rd_phy
      BY <2>4 DEF Delivers, OpsOK
    <2>6. j = n + k
      BY <1>1, <2>1, <2>5 DEF Delivers
    <2>7. r.op.rd_phy = es[n + k].new /\ ~ es[n + k].finish /\ ~ es[n + k].has_exception
      BY <1>1, <2>5, <2>6 DEF Delivers, KindOK
    <2>8. ASSUME NEW o \in b PROVE o.rob_id # ids[n + k]
      <3>1. o \in Ops(b, wb)
        BY DEF Ops
      <3>2. o # r.op
        BY DEF Delivers, OpsOK
      <3>3. QED
        BY <2>1, <2>4, <3>1, <3>2 DEF Delivers, OpsOK
    <2>9. ASSUME NEW s \in wb, s.op.rob_id = ids[n + k] PROVE s = r
      <3>1. s.op \in Ops(b, wb)
        BY DEF Ops
      <3>2. s.op = r.op
        BY <2>1, <2>4, <2>9, <3>1 DEF Delivers, OpsOK
      <3>3. QED
        BY <3>2 DEF Delivers, OpsOK
    <2>10. QED
      BY <1>1, <2>1, <2>3, <2>7, <2>8, <2>9
  <1>5. QED
    BY <1>3, <1>4

(* An instruction of an entry that stays.                                   *)
LEMMA DeliversOp ==
    ASSUME NEW n, NEW L, NEW ids, NEW es, NEW ix, NEW ex, NEW b, NEW wb,
           Delivers(n, L, ids, es, ix, ex, b, wb), NEW o \in Ops(b, wb)
    PROVE  \E k \in 1 .. L - n : /\ ids[n + k] = o.rob_id /\ ~ es[n + k].finish
                                 /\ es[n + k].new = o.rd_phy /\ ix[k] = o.rob_id
  <1>1. PICK j \in 1 .. L : ids[j] = o.rob_id /\ ~ es[j].finish /\ es[j].new = o.rd_phy
    BY DEF Delivers, OpsOK
  <1>2. j \notin 1 .. n /\ L \in Nat /\ n \in 0 .. L
    BY <1>1 DEF Delivers
  <1>3. j - n \in 1 .. L - n /\ n + (j - n) = j
    BY <1>2
  <1>4. ix[j - n] = ids[j]
    BY <1>3 DEF Delivers
  <1>5. QED
    BY <1>1, <1>3, <1>4

(* The instructions in flight still match the entries.                      *)
LEMMA DeliversOps ==
    ASSUME NEW n, NEW L, NEW ids, NEW es, NEW ix, NEW ex, NEW b, NEW wb,
           Delivers(n, L, ids, es, ix, ex, b, wb)
    PROVE  OpsOK(L - n, ix, ex, b, {}) /\ KindOK(L - n, ex, {})
  <1>1. Ops(b, {}) = b /\ b \subseteq Ops(b, wb)
    BY DEF Ops
  <1>2. ASSUME NEW o \in b
        PROVE  \E k \in 1 .. L - n : ix[k] = o.rob_id /\ ~ ex[k].finish /\ ex[k].new = o.rd_phy
    <2>1. PICK k \in 1 .. L - n : /\ ids[n + k] = o.rob_id /\ ~ es[n + k].finish
                                  /\ es[n + k].new = o.rd_phy /\ ix[k] = o.rob_id
      BY <1>1, DeliversOp
    <2>2. ex[k] = es[n + k]
      BY <2>1, DeliversOne
    <2>3. QED
      BY <2>1, <2>2
  <1>3. \A o1, o2 \in b : o1.rob_id = o2.rob_id => o1 = o2
    BY <1>1 DEF Delivers, OpsOK
  <1>4. ASSUME NEW k \in 1 .. L - n, ~ ex[k].finish PROVE \E o \in b : o.rob_id = ix[k]
    <2>1. /\ \A r \in wb : r.op.rob_id # ids[n + k]
          /\ ex[k] = es[n + k] /\ n + k \in 1 .. L
      BY <1>4, DeliversOne
    <2>2. ix[k] = ids[n + k]
      BY DEF Delivers
    <2>3. PICK o \in Ops(b, wb) : o.rob_id = ids[n + k]
      BY <1>4, <2>1 DEF Delivers, OpsOK
    <2>4. o \in b
      BY <2>1, <2>3 DEF Ops
    <2>5. QED
      BY <2>2, <2>3, <2>4
  <1>5. OpsOK(L - n, ix, ex, b, {})
    BY <1>1, <1>2, <1>3, <1>4 DEF OpsOK
  <1>6. ASSUME NEW k \in 1 .. L - n
        PROVE  (ex[k].miss => ex[k].cp # None) /\ (ex[k].has_exception => ex[k].finish)
    <2>1. CASE ex[k] = es[n + k]
      BY <2>1, DeliversOne DEF Delivers, KindOK
    <2>2. CASE \E r \in wb : ex[k].finish /\ ex[k].miss = r.miss /\ ex[k].cp = r.op.cp
      BY <2>2 DEF Delivers, KindOK
    <2>3. QED
      BY <2>1, <2>2, DeliversOne
  <1>7. KindOK(L - n, ex, {})
    BY <1>6 DEF KindOK
  <1>8. QED
    BY <1>5, <1>7

(* Entering results changes no valid bit.                                   *)
LEMMA DeliversBits ==
    ASSUME NEW n, NEW L, NEW ids, NEW es, NEW ix, NEW ex, NEW b, NEW wb,
           Delivers(n, L, ids, es, ix, ex, b, wb)
    PROVE  Unwritten(L - n, ex, b, {}) = Unwritten(L, es, b, wb)
  <1> DEFINE X == {es[k].new : k \in {j \in 1 .. L : es[j].has_exception}}
             Y == {r.op.rd_phy : r \in {x \in wb : x.has_exception}}
             Z == {ex[k].new : k \in {j \in 1 .. L - n : ex[j].has_exception}}
  <1>1. ASSUME NEW p \in Z PROVE p \in X \cup Y
    <2>1. PICK k \in 1 .. L - n : ex[k].has_exception /\ p = ex[k].new
      OBVIOUS
    <2>2. n + k \in 1 .. L /\ ex[k].new = es[n + k].new
      BY DeliversOne
    <2>3. CASE ex[k] = es[n + k]
      BY <2>1, <2>2, <2>3
    <2>4. CASE \E r \in wb : r.op.rd_phy = es[n + k].new /\ ex[k].has_exception = r.has_exception
      BY <2>1, <2>2, <2>4
    <2>5. QED
      BY <2>3, <2>4, DeliversOne
  <1>2. ASSUME NEW p \in X PROVE p \in Z
    <2>1. PICK j \in 1 .. L : es[j].has_exception /\ p = es[j].new
      OBVIOUS
    <2>2. j \notin 1 .. n /\ L \in Nat /\ n \in 0 .. L
      BY <2>1 DEF Delivers
    <2>3. j - n \in 1 .. L - n /\ n + (j - n) = j
      BY <2>2
    <2>4. ex[j - n] = es[j]
      BY <2>1, <2>3, DeliversOne
    <2>5. QED
      BY <2>1, <2>3, <2>4
  <1>3. ASSUME NEW p \in Y PROVE p \in Z
    <2>1. PICK r \in wb : r.has_exception /\ p = r.op.rd_phy
      OBVIOUS
    <2>2. r.op \in Ops(b, wb)
      BY DEF Ops
    <2>3. PICK k \in 1 .. L - n : ids[n + k] = r.op.rob_id /\ es[n + k].new = r.op.rd_phy
      BY <2>2, DeliversOp
    <2>4. ex[k].new = es[n + k].new /\ ex[k].has_exception = r.has_exception
      BY <2>3, DeliversOne
    <2>5. QED
      BY <2>1, <2>3, <2>4
  <1> HIDE DEF X, Y, Z
  <1>4. Z = X \cup Y
    BY <1>1, <1>2, <1>3
  <1>5. Unwritten(L, es, b, wb) = {o.rd_phy : o \in b} \cup Y \cup X
    BY DEF Unwritten, X, Y
  <1>6. Unwritten(L - n, ex, b, {}) = {o.rd_phy : o \in b} \cup Z
    BY DEF Unwritten, Z
  <1>7. QED
    BY <1>4, <1>5, <1>6

(* A finished entry carries the checkpoint its instruction had.             *)
LEMMA DeliversCp ==
    ASSUME NEW n, NEW L, NEW ids, NEW es, NEW ix, NEW ex, NEW b, NEW wb,
           Delivers(n, L, ids, es, ix, ex, b, wb), NEW k \in 1 .. L - n
    PROVE  CpOf(ix, ex, Ops(b, {}), k) = CpOf(ids, es, Ops(b, wb), n + k)
  <1>1. ix[k] = ids[n + k] /\ n + k \in 1 .. L
    BY DeliversOne DEF Delivers
  <1>2. ASSUME NEW o \in Ops(b, wb), o.rob_id = ids[n + k]
        PROVE  (CHOOSE x \in Ops(b, wb) : x.rob_id = ids[n + k]) = o
    <2>1. \A x \in Ops(b, wb) : x.rob_id = ids[n + k] => x = o
      BY <1>2 DEF Delivers, OpsOK
    <2>2. QED
      BY <1>2, <2>1
  <1>3. CASE \E r \in wb : r.op.rob_id = ids[n + k]
    <2>1. PICK r \in wb : /\ r.op.rob_id = ids[n + k] /\ ~ es[n + k].finish
                          /\ ex[k].finish /\ ex[k].cp = r.op.cp
      BY <1>3, DeliversOne
    <2>2. r.op \in Ops(b, wb)
      BY DEF Ops
    <2>3. CpOf(ids, es, Ops(b, wb), n + k) = r.op.cp
      BY <1>2, <2>1, <2>2 DEF CpOf
    <2>4. CpOf(ix, ex, Ops(b, {}), k) = r.op.cp
      BY <2>1 DEF CpOf
    <2>5. QED
      BY <2>3, <2>4
  <1>4. CASE ~ \E r \in wb : r.op.rob_id = ids[n + k]
    <2>1. ex[k] = es[n + k]
      BY <1>4, DeliversOne
    <2>2. CASE es[n + k].finish
      BY <2>1, <2>2 DEF CpOf
    <2>3. CASE ~ es[n + k].finish
      <3>1. PICK o \in Ops(b, wb) : o.rob_id = ids[n + k]
        BY <1>1, <2>3 DEF Delivers, OpsOK
      <3>2. o \in b /\ Ops(b, {}) = b
        BY <1>4, <3>1 DEF Ops
      <3>3. CpOf(ids, es, Ops(b, wb), n + k) = o.cp
        BY <1>2, <2>3, <3>1 DEF CpOf
      <3>4. (CHOOSE x \in b : x.rob_id = ix[k]) = o
        <4>1. \A x \in b : x.rob_id = ix[k] => x = o
          BY <1>1, <3>1 DEF Delivers, OpsOK, Ops
        <4>2. QED
          BY <1>1, <3>1, <3>2, <4>1
      <3>5. CpOf(ix, ex, Ops(b, {}), k) = o.cp
        BY <2>1, <2>3, <3>2, <3>4 DEF CpOf
      <3>6. QED
        BY <3>3, <3>5
    <2>4. QED
      BY <2>2, <2>3
  <1>5. QED
    BY <1>3, <1>4

(* Commit in state normal, with or without the results of wb.               *)
Leaving(D) ==
    /\ stage = "commit" /\ cur_state = "normal" /\ stage' = "execute"
    /\ RetireGroup /\ rob_q' = [pop |-> RetireNum, done |-> D]
    /\ rat' = rat /\ rob' = rob /\ data_valid' = data_valid

(* The retired entries at the start of a pass.                              *)
LEMMA RetireFacts ==
    ASSUME RenameInv, stage = "commit", cur_state = "normal"
    PROVE  /\ RetireNum \in Nat /\ RetireNum \in 0 .. Left /\ RetireNum \in 0 .. CommitWidth
           /\ Left \in Nat /\ Standing = Left
           /\ \A k \in 1 .. Left : New[k] = RobAt(k).new /\ Old[k] = RobAt(k).old /\ RobAt(k) = Es[k]
           /\ \A k \in 1 .. RetireNum : k \in 1 .. Left /\ Es[k].finish /\ ~ Es[k].has_exception
           /\ \A k \in Faulting : k = RetireNum + 1 /\ k \in 1 .. Left
           /\ Entries(New, Old, Dest, arf, Left) /\ Agrees(rat, New, Dest, arf, 0, Left)
  <1>1. TypeOK /\ Queues /\ MapInv
    BY DEF RenameInv
  <1>2. /\ Standing = Left /\ Left \in Nat
        /\ \A k \in 1 .. Left : New[k] = Es[k].new /\ Old[k] = Es[k].old
    BY <1>1, NewIs
  <1>3. Left = rob.cnt /\ Table = rat /\ \A k \in 1 .. Left : Es[k] = RobAt(k)
    BY AtCommit
  <1>4. /\ RetireNum \in 0 .. rob.cnt
        /\ \A k \in 1 .. RetireNum : /\ k \in 1 .. rob.cnt /\ k <= CommitWidth
                                     /\ RobAt(k).finish /\ ~ RobAt(k).has_exception
        /\ \A k \in Faulting : k = RetireNum + 1 /\ k \in 1 .. rob.cnt
    BY <1>2, <1>3, RetireNumIs
  <1>5. RetireNum <= CommitWidth
    <2>1. CommitWidth \in Nat /\ RetireNum \in Nat
      BY <1>2, <1>3, <1>4, SizesAssumption
    <2>2. RetireNum = 0 \/ RetireNum \in 1 .. RetireNum
      BY <2>1
    <2>3. QED
      BY <1>4, <2>1, <2>2
  <1>6. RetireNum \in Nat /\ RetireNum \in 0 .. Left /\ RetireNum \in 0 .. CommitWidth
    BY <1>2, <1>3, <1>4, <1>5, SizesAssumption
  <1>7. Entries(New, Old, Dest, arf, Left) /\ Agrees(rat, New, Dest, arf, 0, Left)
    BY <1>1, <1>2, <1>3, TableTyped
  <1>8. QED
    BY <1>2, <1>3, <1>4, <1>6, <1>7

(* The entries behind the retired ones.                                     *)
LEMMA LeaveRob ==
    ASSUME RenameInv, NEW D, D \subseteq wb_commit, Leaving(D)
    PROVE  /\ Pops' = RetireNum /\ Left' = Left - RetireNum /\ Left' \in Nat
           /\ \A k \in 1 .. Left - RetireNum :
                 /\ RetireNum + k \in 1 .. Left /\ Ids'[k] = Ids[RetireNum + k]
                 /\ Es'[k] = After(Ids[RetireNum + k], rob.buf, D) /\ Es'[k] \in RobItem
                 /\ Es'[k].new = Es[RetireNum + k].new /\ Es'[k].old = Es[RetireNum + k].old
                 /\ rob'.buf[Ids'[k]] \in RobItem
           /\ Pops' <= rob'.cnt /\ rob_q'.pop <= rob'.cnt
           /\ rob_q' \in [pop : 0 .. CommitWidth, done : SUBSET Result]
  <1> DEFINE n == RetireNum
  <1>1. TypeOK /\ Queues /\ stage = "commit" /\ cur_state = "normal"
    BY DEF RenameInv, Leaving
  <1>2. n \in Nat /\ n \in 0 .. Left /\ n \in 0 .. CommitWidth /\ Left \in Nat
    BY <1>1, RetireFacts
  <1>3. rob_q'.pop = n /\ rob_q'.done = D /\ rob' = rob
    BY DEF Leaving
  <1>4. Left = rob.cnt /\ \A k \in 1 .. Left : /\ Es[k] = rob.buf[Ids[k]] /\ Es[k] \in RobItem
                                               /\ Ids[k] = Ring(rob.rptr, k)
    BY <1>1, AtCommit
  <1>5. wb_commit \subseteq Result /\ D \subseteq Result
    BY <1>1 DEF TypeOK
  <1> HIDE DEF n
  <1>6. Pops' = n /\ Left' = Left - n
    BY <1>2, <1>3, <1>4 DEF Pops, Left
  <1>7. ASSUME NEW k \in 1 .. Left - n
        PROVE  /\ n + k \in 1 .. Left /\ Ids'[k] = Ids[n + k]
               /\ Es'[k] = After(Ids[n + k], rob.buf, D) /\ Es'[k] \in RobItem
               /\ Es'[k].new = Es[n + k].new /\ Es'[k].old = Es[n + k].old
               /\ rob'.buf[Ids'[k]] \in RobItem
    <2>1. n + k \in 1 .. Left
      BY <1>2
    <2>2. Ids'[k] = Ring(rob'.rptr, Pops' + k) /\ Es'[k] = After(Ring(rob'.rptr, Pops' + k), rob'.buf, rob_q'.done)
      BY <1>6 DEF Ids, Es
    <2>3. Ids'[k] = Ids[n + k] /\ Es'[k] = After(Ids[n + k], rob.buf, D)
      BY <1>3, <1>4, <1>6, <2>1, <2>2
    <2>4. rob.buf[Ids[n + k]] \in RobItem /\ Es[n + k] = rob.buf[Ids[n + k]]
      BY <1>4, <2>1
    <2>5. Es'[k] \in RobItem
      BY <1>5, <2>3, <2>4, AfterItem
    <2>6. Es'[k].new = Es[n + k].new /\ Es'[k].old = Es[n + k].old
      <3>1. CASE \E r \in D : r.op.rob_id = Ids[n + k]
        <4> DEFINE r == CHOOSE x \in D : x.op.rob_id = Ids[n + k]
        <4>1. r \in Result
          BY <1>5, <3>1
        <4>2. Es'[k] = Finished(rob.buf[Ids[n + k]], r)
          BY <2>3, <3>1 DEF After
        <4> HIDE DEF r
        <4> DEFINE x == rob.buf[Ids[n + k]]
        <4>3. x \in RobItem /\ Es'[k] = Finished(x, r) /\ Es[n + k] = x
          BY <2>4, <4>2
        <4> HIDE DEF x
        <4>4. Finished(x, r).new = x.new /\ Finished(x, r).old = x.old
          BY <4>1, <4>3, FinishedItem
        <4>5. QED
          BY <4>3, <4>4
      <3>2. CASE ~ \E r \in D : r.op.rob_id = Ids[n + k]
        BY <2>3, <2>4, <3>2 DEF After
      <3>3. QED
        BY <3>1, <3>2
    <2>7. rob'.buf[Ids'[k]] \in RobItem
      BY <1>3, <2>3, <2>4
    <2>8. QED
      BY <2>1, <2>3, <2>5, <2>6, <2>7
  <1>8. rob_q' \in [pop : 0 .. CommitWidth, done : SUBSET Result]
    <2>1. rob_q' = [pop |-> n, done |-> D]
      BY DEF Leaving, n
    <2>2. QED
      BY <1>2, <1>5, <2>1
  <1>9. Left - n \in Nat /\ n <= rob.cnt
    BY <1>2, <1>4
  <1>10. QED
    BY <1>3, <1>6, <1>7, <1>8, <1>9 DEF n

(* The requests of the group.                                               *)
LEMMA RetireQueue ==
    ASSUME RenameInv, stage = "commit", cur_state = "normal"
    PROVE  /\ RetireRequests \in Seq(Request) /\ Len(RetireRequests) = RetireNum
           /\ \A k \in 1 .. RetireNum : RetireRequests[k] = Retiring(New, Old, k)
           /\ RetireRegs \in Seq(RegRequest) /\ Len(RetireRegs) = RetireNum
           /\ \A k \in 1 .. RetireNum : RetireRegs[k].op = "clear" /\ RetireRegs[k].phy = Old[k]
  <1> DEFINE n == RetireNum
  <1>1. /\ n \in Nat /\ \A k \in 1 .. n : k \in 1 .. Left
        /\ \A k \in 1 .. Left : New[k] = RobAt(k).new /\ Old[k] = RobAt(k).old /\ RobAt(k) = Es[k]
    BY RetireFacts
  <1>2. TypeOK /\ Queues
    BY DEF RenameInv
  <1>3. \A k \in 1 .. Left : Es[k] \in RobItem
    BY <1>2, EsTyped
  <1>4. \A k \in 1 .. Left : RobAt(k).new \in Phy \cup {None} /\ RobAt(k).old \in Phy \cup {None}
    BY <1>1, <1>3 DEF RobItem
  <1>5. ASSUME NEW k \in 1 .. n
        PROVE  RetireRequests[k] = Retiring(New, Old, k) /\ RetireRequests[k] \in Request
    <2>1. RetireRequests[k] = [op |-> "retire", new |-> RobAt(k).new, old |-> RobAt(k).old]
      BY DEF RetireRequests, RetireRequest
    <2>2. RetireRequests[k] = Retiring(New, Old, k)
      BY <1>1, <2>1 DEF Retiring
    <2>3. RetireRequests[k] \in [op : {"retire", "restore_map"}, new : Phy \cup {None}, old : Phy \cup {None}]
      <3>1. RobAt(k).new \in Phy \cup {None} /\ RobAt(k).old \in Phy \cup {None}
        BY <1>1, <1>4
      <3>2. QED
        BY <2>1, <3>1
    <2>4. QED
      BY <2>2, <2>3 DEF Request
  <1>6. ASSUME NEW k \in 1 .. n
        PROVE  RetireRegs[k].op = "clear" /\ RetireRegs[k].phy = Old[k] /\ RetireRegs[k] \in RegRequest
    <2>1. RetireRegs[k] = [op |-> "clear", phy |-> RobAt(k).old]
      BY DEF RetireRegs
    <2>2. RobAt(k).old \in Phy \cup {None} /\ Old[k] = RobAt(k).old
      BY <1>1, <1>4
    <2>3. QED
      BY <2>1, <2>2 DEF RegRequest
  <1>7. RetireRequests \in Seq(Request) /\ Len(RetireRequests) = n
    <2>1. RetireRequests = [k \in 1 .. n |-> RetireRequests[k]]
      BY DEF RetireRequests
    <2>2. QED
      BY <1>1, <1>5, <2>1, IsASeq
  <1>8. RetireRegs \in Seq(RegRequest) /\ Len(RetireRegs) = n
    <2>1. RetireRegs = [k \in 1 .. n |-> RetireRegs[k]]
      BY DEF RetireRegs
    <2>2. QED
      BY <1>1, <1>6, <2>1, IsASeq
  <1>9. QED
    BY <1>5, <1>6, <1>7, <1>8

(* The table after the requests of the retired entries.                     *)
LEMMA RetireTable ==
    ASSUME RenameInv, stage = "commit", cur_state = "normal"
    PROVE  Agrees(Applied(rat, RetireRequests), New, Dest, arf, RetireNum, Left)
  <1>1. /\ RetireNum \in Nat /\ RetireNum \in 0 .. Left
        /\ Entries(New, Old, Dest, arf, Left) /\ Agrees(rat, New, Dest, arf, 0, Left)
    BY RetireFacts
  <1>2. /\ Len(RetireRequests) = RetireNum
        /\ \A k \in 1 .. RetireNum : RetireRequests[k] = Retiring(New, Old, k)
    BY RetireQueue
  <1>3. Agrees(Tables(rat, RetireRequests)[RetireNum], New, Dest, arf, RetireNum, Left)
    BY <1>1, <1>2, RetireMany
  <1>4. QED
    BY <1>2, <1>3 DEF Applied

(* The mapping of the retired writers.                                      *)
LEMMA RetireArfIs ==
    ASSUME RenameInv, stage = "commit", cur_state = "normal", RetireArf
    PROVE  arf' \in [Arch -> Phy] /\ \A a \in Arch : arf'[a] = Latest(New, Dest, arf, a, RetireNum)
  <1>1. RetireNum \in 0 .. Left /\ Standing = Left /\ Entries(New, Old, Dest, arf, Left)
    BY RetireFacts
  <1>2. arf' = [a \in Arch |-> MapAfter(a, RetireNum)]
    BY DEF RetireArf
  <1>3. ASSUME NEW a \in Arch
        PROVE  /\ MapAfter(a, RetireNum) = Latest(New, Dest, arf, a, RetireNum)
               /\ Latest(New, Dest, arf, a, RetireNum) \in Phy
    BY <1>1, MapAfterIs, LatestTyped
  <1>4. QED
    BY <1>2, <1>3

(* The registers of the retired mapping have their values.                  *)
LEMMA RetiredBits ==
    ASSUME RenameInv, stage = "commit", cur_state = "normal", NEW a \in Arch
    PROVE  /\ Latest(New, Dest, arf, a, RetireNum) \in Bits
           /\ Latest(New, Dest, arf, a, RetireNum) \notin Replaced(Old, RetireNum)
  <1> DEFINE n == RetireNum
             p == Latest(New, Dest, arf, a, n)
  <1>1. /\ n \in Nat /\ n \in 0 .. Left /\ Left \in Nat /\ Standing = Left
        /\ \A k \in 1 .. Left : New[k] = Es[k].new
        /\ \A k \in 1 .. n : k \in 1 .. Left /\ Es[k].finish /\ ~ Es[k].has_exception
        /\ Entries(New, Old, Dest, arf, Left)
    <2>1. \A k \in 1 .. Left : New[k] = RobAt(k).new /\ RobAt(k) = Es[k]
      BY RetireFacts
    <2>2. QED
      BY <2>1, RetireFacts
  <1>2. p \notin Replaced(Old, n)
    <2>1. \A k \in 1 .. n : k \in 1 .. Left /\ n \in k .. Left
      BY <1>1
    <2>2. \A k \in 1 .. n : p # Old[k]
      BY <1>1, <2>1, ReplacedIs
    <2>3. QED
      BY <2>2 DEF Replaced
  <1>3. Calm /\ LiveResults = wb_commit
    BY AtCommit
  <1>4. /\ TypeOK /\ Queues /\ MapInv /\ OpsOK(Left, Ids, Es, backend, wb_commit)
        /\ {arf[b] : b \in Arch} \subseteq Bits
        /\ Bits = Table.valid \ Unwritten(Left, Es, backend, wb_commit)
    BY <1>3 DEF RenameInv, OpsInv, BitsInv
  <1>5. p \in Bits
    <2>1. CASE p = arf[a]
      BY <1>4, <2>1
    <2>2. CASE p # arf[a]
      <3>1. PICK k \in 1 .. n : p = New[k]
        BY <1>1, <2>2, LatestCases
      <3>2. p \in Phy /\ p # None
        BY <1>1, LatestTyped, NoneAssumption
      <3> HIDE DEF p
      <3>3. k \in 1 .. Left /\ Es[k].finish /\ ~ Es[k].has_exception /\ Es[k].new = p
        BY <1>1, <3>1
      <3>4. p \in Table.valid
        <4>1. Table.valid = Now(New, Dest, arf, 0) \cup ({New[i] : i \in 0 + 1 .. Standing} \ {None})
          BY <1>4, TableTyped
        <4>2. k \in 0 + 1 .. Standing
          BY <1>1, <3>3
        <4>3. QED
          BY <3>1, <3>2, <4>1, <4>2
      <3>5. \A o \in Ops(backend, wb_commit) : o.rd_phy # p
        <4>1. ASSUME NEW o \in Ops(backend, wb_commit), o.rd_phy = p PROVE FALSE
          <5>1. ~ Es[k].finish
            BY <1>3, <1>4, <3>2, <3>3, <4>1, Targets DEF Calm
          <5>2. QED
            BY <3>3, <5>1
        <4>2. QED
          BY <4>1
      <3>6. \A j \in 1 .. Left : Es[j].has_exception => Es[j].new # p
        <4>1. ASSUME NEW j \in 1 .. Left, Es[j].has_exception, Es[j].new = p PROVE FALSE
          <5>1. j = k
            BY <1>1, <3>1, <3>2, <3>3, <4>1 DEF Entries
          <5>2. QED
            BY <3>3, <4>1, <5>1
        <4>2. QED
          BY <4>1
      <3>7. p \notin Unwritten(Left, Es, backend, wb_commit)
        <4>1. \A o \in backend : o.rd_phy # p
          BY <3>5 DEF Ops
        <4>2. \A r \in wb_commit : r.op.rd_phy # p
          BY <3>5 DEF Ops
        <4>3. QED
          BY <3>6, <4>1, <4>2 DEF Unwritten
      <3>8. QED
        BY <1>4, <3>4, <3>7
    <2>3. QED
      BY <2>1, <2>2
  <1>6. QED
    BY <1>2, <1>5

(* Table, mapping and valid bits after the group.                           *)
LEMMA LeaveMap ==
    ASSUME RenameInv, NEW D, D \subseteq wb_commit, Leaving(D), Standing' = Left - RetireNum
    PROVE  /\ MapInv' /\ arf' \in [Arch -> Phy] /\ Hides(Table', rat')
           /\ \A i \in 0 .. Left - RetireNum : Now(New', Dest', arf', i) = Now(New, Dest, arf, RetireNum + i)
           /\ Bits' = Bits \ Replaced(Old, RetireNum) /\ Table'.valid = Table.valid \ Replaced(Old, RetireNum)
           /\ {arf'[a] : a \in Arch} \subseteq Bits' /\ Bits' \subseteq Table'.valid
  <1> DEFINE n == RetireNum
             m == Left - RetireNum
  <1>1. stage = "commit" /\ cur_state = "normal" /\ RetireArf
    BY DEF Leaving, RetireGroup
  <1>2. /\ n \in Nat /\ n \in 0 .. Left /\ Left \in Nat /\ Standing = Left
        /\ Entries(New, Old, Dest, arf, Left) /\ Agrees(rat, New, Dest, arf, 0, Left)
    BY <1>1, RetireFacts
  <1>3. m \in Nat /\ n + m = Left /\ n + m <= Left
    BY <1>2
  <1>4. \A k \in 1 .. Left : New[k] = Es[k].new /\ Old[k] = Es[k].old
    BY <1>1, NewIs DEF RenameInv
  <1>5. \A k \in 1 .. m : /\ n + k \in 1 .. Left
                          /\ Es'[k].new = Es[n + k].new /\ Es'[k].old = Es[n + k].old
    BY LeaveRob
  <1>6. \A k \in 1 .. m : New'[k] = New[n + k] /\ Old'[k] = Old[n + k]
    BY <1>4, <1>5 DEF New, Old
  <1>7. rat_q' = RetireRequests /\ reg_q' = RetireRegs /\ rat' = rat /\ data_valid' = data_valid
    BY DEF Leaving, RetireGroup
  <1>8. Table' = Applied(rat, RetireRequests)
    BY <1>7 DEF Table
  <1>9. Agrees(Table', New, Dest, arf, n, Left)
    BY <1>1, <1>8, RetireTable
  <1>10. arf' \in [Arch -> Phy] /\ \A a \in Arch : arf'[a] = Latest(New, Dest, arf, a, n)
    BY <1>1, RetireArfIs
  <1> HIDE DEF n, m
  <1>11. /\ MapOK(Table', New', Old', arf', m)
         /\ \A i \in 0 .. m : Now(New', Writes(Table', New', m), arf', i) = Now(New, Dest, arf, n + i)
    <2>1. Agrees(Table', New, Dest, arf, n, n + m)
      BY <1>3, <1>9
    <2>2. Keeps(New, Old, Dest, arf, Left, n, m, Table', New', Old', arf')
      BY <1>2, <1>3, <1>6, <1>10, <2>1 DEF Keeps
    <2>3. QED
      BY <2>2, MapPart
  <1>12. Standing' = m
    BY DEF m
  <1>13. MapInv' /\ Dest' = Writes(Table', New', m)
    BY <1>11, <1>12 DEF MapInv, Dest
  <1>14. Hides(Table', rat')
    BY <1>2, <1>7, <1>9, HidesRetired
  <1>15. Table = rat /\ Bits = data_valid
    BY <1>1, AtCommit
  <1>16. Table'.valid = Table.valid \ Replaced(Old, n)
    <2>1. Table'.valid = Held(New, Dest, arf, n, Left)
      BY <1>9 DEF Agrees, Held, Rest
    <2>2. Table.valid = Held(New, Dest, arf, 0, Left)
      BY <1>2, <1>15 DEF Agrees, Held, Rest
    <2>3. QED
      BY <1>2, <2>1, <2>2, HeldAfter
  <1>17. Bits' = Bits \ Replaced(Old, n)
    <2>1. /\ Len(RetireRegs) = n
          /\ \A k \in 1 .. n : RetireRegs[k].op = "clear" /\ RetireRegs[k].phy = Old[k]
      BY <1>1, RetireQueue DEF n
    <2>2. Bits' = RegSync(data_valid, RetireRegs)
      BY <1>7 DEF Bits
    <2>3. ASSUME NEW p \in Phy
          PROVE  p \in RegSync(data_valid, RetireRegs) <=> p \in data_valid /\ \A k \in 1 .. n : Old[k] # p
      BY <1>2, <2>1, RegClears
    <2>4. Bits' \subseteq Phy /\ Bits \subseteq Phy
      BY RegTyped DEF Bits
    <2>5. QED
      BY <1>15, <2>2, <2>3, <2>4 DEF Replaced
  <1>18. {arf'[a] : a \in Arch} \subseteq Bits'
    <2>1. ASSUME NEW a \in Arch PROVE arf'[a] \in Bits'
      BY <1>1, <1>10, <1>17, RetiredBits DEF n
    <2>2. QED
      BY <2>1
  <1>19. Bits' \subseteq Table'.valid
    <2>1. Bits \subseteq Table.valid
      BY DEF RenameInv, BitsInv
    <2>2. QED
      BY <1>16, <1>17, <2>1
  <1>20. QED
    BY <1>10, <1>11, <1>13, <1>14, <1>16, <1>17, <1>18, <1>19 DEF n, m

ClaimsLater(N, n, cl, cx, pops) ==
    /\ N \in Nat /\ n \in 0 .. N /\ pops \in {0, 1}
    /\ pops = 1 => n > 0 /\ cl[n] # None
    /\ \A k \in 1 .. N - n : cx[k] = cl[n + k]

(* The claims behind the retired entries; a pop drops the oldest.           *)
LEMMA ClaimsShift ==
    ASSUME NEW N, NEW n, NEW cl, NEW cx, NEW p \in CpId, NEW cnt \in Nat, NEW pops,
           ClaimsOK(N, cl, p, 0, cnt), ClaimsLater(N, n, cl, cx, pops)
    PROVE  /\ ClaimsOK(N - n, cx, p, pops, cnt)
           /\ pops = 1 => cnt > 0
  <1> USE DEF ClaimsLater
  <1>1. \A k \in 1 .. N - n : n + k \in 1 .. N
    OBVIOUS
  <1>2. \A c \in CpId : Place(p, c) \in Int
    BY PlaceIs
  <1>3. ASSUME NEW k \in 1 .. N, cl[k] # None
        PROVE  cl[k] \in CpId /\ 0 < Place(p, cl[k]) /\ Place(p, cl[k]) <= cnt
    BY <1>3 DEF ClaimsOK
  <1>4. ASSUME NEW k \in 1 .. N - n, cx[k] # None
        PROVE  cx[k] \in CpId /\ pops < Place(p, cx[k]) /\ Place(p, cx[k]) <= cnt
    <2>1. cl[n + k] # None /\ cx[k] = cl[n + k] /\ n + k \in 1 .. N
      BY <1>1, <1>4
    <2>2. cl[n + k] \in CpId /\ 0 < Place(p, cl[n + k]) /\ Place(p, cl[n + k]) <= cnt
      BY <1>3, <2>1
    <2>3. CASE pops = 0
      BY <2>1, <2>2, <2>3
    <2>4. CASE pops = 1
      <3>1. n \in 1 .. N /\ cl[n] # None /\ n < n + k
        BY <2>4
      <3>2. cl[n] \in CpId /\ 0 < Place(p, cl[n])
        BY <1>3, <3>1
      <3>3. Place(p, cl[n]) < Place(p, cl[n + k])
        BY <2>1, <3>1 DEF ClaimsOK
      <3>4. QED
        BY <1>2, <2>1, <2>2, <2>4, <3>2, <3>3
    <2>5. QED
      BY <2>3, <2>4
  <1>5. ASSUME NEW j \in 1 .. N - n, NEW k \in 1 .. N - n, cx[j] # None, cx[k] # None, j < k
        PROVE  Place(p, cx[j]) < Place(p, cx[k])
    <2>1. /\ n + j \in 1 .. N /\ n + k \in 1 .. N /\ n + j < n + k
          /\ cx[j] = cl[n + j] /\ cx[k] = cl[n + k]
      BY <1>1, <1>5
    <2>2. QED
      BY <1>5, <2>1 DEF ClaimsOK
  <1>6. ASSUME pops = 1 PROVE cnt > 0
    <2>1. n \in 1 .. N /\ cl[n] # None
      BY <1>6
    <2>2. cl[n] \in CpId /\ 0 < Place(p, cl[n]) /\ Place(p, cl[n]) <= cnt
      BY <1>3, <2>1
    <2>3. QED
      BY <1>2, <2>2
  <1>7. QED
    BY <1>4, <1>5, <1>6 DEF ClaimsOK

KeptLater(L, n, cl, cx, nw, w, f, nx, wx, fx, es, ex) ==
    /\ L \in Nat /\ n \in 0 .. L
    /\ \A k \in 1 .. L - n : /\ cx[k] = cl[n + k] /\ ex[k].old = es[n + k].old
                             /\ Now(nx, wx, fx, k) = Now(nw, w, f, n + k)

(* Their checkpoints still hold the mapping right after the branch.         *)
LEMMA KeptShift ==
    ASSUME NEW L, NEW n, NEW cl, NEW cx, NEW cs, NEW nw, NEW w, NEW f, NEW nx, NEW wx, NEW fx,
           NEW es, NEW ex, KeptOK(L, cl, cs, nw, w, f, es),
           KeptLater(L, n, cl, cx, nw, w, f, nx, wx, fx, es, ex)
    PROVE  KeptOK(L - n, cx, cs, nx, wx, fx, ex)
  <1>1. ASSUME NEW k \in 1 .. L - n, cx[k] # None
        PROVE  /\ cs[cx[k]].visible = Now(nx, wx, fx, k)
               /\ cs[cx[k]].visible \subseteq cs[cx[k]].valid
               /\ ex[k].old # None => ex[k].old \in cs[cx[k]].valid
    <2>1. n + k \in 1 .. L
      BY DEF KeptLater
    <2>2. /\ cx[k] = cl[n + k] /\ ex[k].old = es[n + k].old
          /\ Now(nx, wx, fx, k) = Now(nw, w, f, n + k)
      BY DEF KeptLater
    <2>3. QED
      BY <1>1, <2>1, <2>2 DEF KeptOK
  <1>2. QED
    BY <1>1 DEF KeptOK

-----------------------------------------------------------------------------

(* The commit that retires enters every result.                             *)
LEMMA RetireDelivers ==
    ASSUME RenameInv, Leaving(wb_commit)
    PROVE  Delivers(RetireNum, Left, Ids, Es, Ids', Es', backend, wb_commit)
  <1> DEFINE n == RetireNum
  <1>1. /\ TypeOK /\ Queues /\ stage = "commit" /\ cur_state = "normal"
        /\ OpsInv /\ KindInv
    BY DEF RenameInv, Leaving
  <1>2. Calm /\ LiveResults = wb_commit
    BY <1>1, AtCommit
  <1>3. OpsOK(Left, Ids, Es, backend, wb_commit) /\ KindOK(Left, Es, wb_commit)
    BY <1>1, <1>2 DEF OpsInv, KindInv
  <1>4. /\ n \in 0 .. Left /\ Left \in Nat
        /\ \A k \in 1 .. n : Es[k].finish /\ ~ Es[k].has_exception
    BY <1>1, RetireFacts
  <1>5. backend \subseteq InFlight /\ wb_commit \subseteq Result
    BY <1>1 DEF TypeOK
  <1>6. \A k \in 1 .. Left : /\ Es[k] = rob.buf[Ids[k]] /\ Es[k] \in RobItem
                             /\ Ids[k] = Ring(rob.rptr, k)
    BY <1>1, AtCommit
  <1>7. ASSUME NEW j \in 1 .. Left, NEW k \in 1 .. Left, Ids[j] = Ids[k] PROVE j = k
    <2>1. rob.rptr \in RobId /\ Left \in 0 .. RobSize /\ RobSize \in Nat
      BY <1>1, RobFields
    <2>2. j \in 1 .. RobSize /\ k \in 1 .. RobSize
      BY <2>1
    <2>3. QED
      BY <1>6, <1>7, <2>1, <2>2, RingInjective
  <1>8. \A k \in 1 .. Left - n :
           /\ n + k \in 1 .. Left /\ Ids'[k] = Ids[n + k]
           /\ Es'[k] = After(Ids[n + k], rob.buf, wb_commit)
    BY LeaveRob
  <1> HIDE DEF n
  <1>9. ASSUME NEW k \in 1 .. Left - n
        PROVE  /\ (\A r \in wb_commit : r.op.rob_id # Ids[n + k]) => Es'[k] = Es[n + k]
               /\ \A r \in wb_commit : r.op.rob_id = Ids[n + k] => Es'[k] = Finished(Es[n + k], r)
    <2>1. Es[n + k] = rob.buf[Ids[n + k]] /\ Es'[k] = After(Ids[n + k], rob.buf, wb_commit)
      BY <1>6, <1>8
    <2>2. ASSUME \A r \in wb_commit : r.op.rob_id # Ids[n + k] PROVE Es'[k] = Es[n + k]
      BY <2>1, <2>2 DEF After
    <2>3. ASSUME NEW r \in wb_commit, r.op.rob_id = Ids[n + k] PROVE Es'[k] = Finished(Es[n + k], r)
      <3>1. ASSUME NEW s \in wb_commit, s.op.rob_id = Ids[n + k] PROVE s = r
        <4>1. s.op \in Ops(backend, wb_commit) /\ r.op \in Ops(backend, wb_commit)
          BY DEF Ops
        <4>2. s.op = r.op
          BY <1>3, <2>3, <3>1, <4>1 DEF OpsOK
        <4>3. QED
          BY <1>3, <4>2 DEF OpsOK
      <3>2. (CHOOSE s \in wb_commit : s.op.rob_id = Ids[n + k]) = r
        BY <2>3, <3>1
      <3>3. QED
        BY <2>1, <2>3, <3>2 DEF After
    <2>4. QED
      BY <2>2, <2>3
  <1>10. Delivers(n, Left, Ids, Es, Ids', Es', backend, wb_commit)
    BY <1>3, <1>4, <1>5, <1>6, <1>7, <1>8, <1>9 DEF Delivers
  <1>11. QED
    BY <1>10 DEF n

(* Retirement without a flush.                                              *)
LEMMA CommitRetireStep ==
    ASSUME RenameInv, CommitRetire
    PROVE  RenameInv'
  <1> DEFINE n == RetireNum
  <1>1. TypeOK /\ rat.ok /\ Queues /\ Pass /\ BitsInv /\ CpInv
    BY DEF RenameInv
  <1>2. /\ stage = "commit" /\ cur_state = "normal" /\ stage' = "execute"
        /\ feedback' = [flush |-> FALSE, jump_enable |-> LastBranch.used /\ LastBranch.cp = None]
        /\ cp_q' = [cp_q EXCEPT !.pop = PopCheckpoint]
        /\ UNCHANGED <<cur_state, rob_item_id, restore_rob_item_id, rat, rob>>
        /\ UNCHANGED <<data_valid, cpb, fifo, jump_wait, backend, wb_commit>>
        /\ rat_q' = RetireRequests /\ reg_q' = RetireRegs
    BY DEF CommitRetire, RetireGroup
  <1>3. Leaving(wb_commit)
    BY <1>2 DEF CommitRetire, Leaving, HandleInput
  <1>4. /\ Pops' = n /\ Left' = Left - n /\ Left' \in Nat
        /\ \A k \in 1 .. Left - n :
              /\ n + k \in 1 .. Left /\ Ids'[k] = Ids[n + k]
              /\ Es'[k] \in RobItem
              /\ Es'[k].new = Es[n + k].new /\ Es'[k].old = Es[n + k].old
              /\ rob'.buf[Ids'[k]] \in RobItem
        /\ Pops' <= rob'.cnt /\ rob_q'.pop <= rob'.cnt
        /\ rob_q' \in [pop : 0 .. CommitWidth, done : SUBSET Result]
    BY <1>3, LeaveRob
  <1>5. Standing' = Left - n
    BY <1>2, <1>4 DEF Standing
  <1>6. /\ MapInv' /\ arf' \in [Arch -> Phy] /\ Hides(Table', rat')
        /\ \A i \in 0 .. Left - n : Now(New', Dest', arf', i) = Now(New, Dest, arf, n + i)
        /\ Bits' = Bits \ Replaced(Old, n) /\ Table'.valid = Table.valid \ Replaced(Old, n)
        /\ {arf'[a] : a \in Arch} \subseteq Bits' /\ Bits' \subseteq Table'.valid
    BY <1>3, <1>5, LeaveMap
  <1>7. Delivers(n, Left, Ids, Es, Ids', Es', backend, wb_commit)
    BY <1>3, RetireDelivers
  <1>8. /\ Calm /\ LiveResults = wb_commit /\ CpPops = 0 /\ Contents = cpb.buf
        /\ cp_q = [pop |-> FALSE, set |-> << >>]
        /\ \A k \in 1 .. Left : Es[k] = RobAt(k)
    BY <1>2, AtCommit
  <1>9. /\ n \in Nat /\ n \in 0 .. Left /\ Left \in Nat
        /\ \A k \in 1 .. n : k \in 1 .. Left /\ Es[k].finish
    BY <1>2, RetireFacts
  <1>10. LiveResults' = {} /\ ~ feedback'.flush /\ Calm'
    BY <1>2 DEF LiveResults, Calm
  <1>11. OpsInv' /\ KindInv'
    <2>1. OpsOK(Left - n, Ids', Es', backend, {}) /\ KindOK(Left - n, Es', {})
      BY <1>7, DeliversOps
    <2>2. QED
      BY <1>2, <1>4, <1>10, <2>1 DEF OpsInv, KindInv
  <1>12. BitsInv'
    <2>1. Unwritten(Left - n, Es', backend, {}) = Unwritten(Left, Es, backend, wb_commit)
      BY <1>7, DeliversBits
    <2>2. Bits = Table.valid \ Unwritten(Left, Es, backend, wb_commit)
      BY <1>1, <1>8 DEF BitsInv
    <2>3. Bits' = Table'.valid \ Unwritten(Left - n, Es', backend, {})
      BY <1>6, <2>1, <2>2
    <2>4. QED
      BY <1>2, <1>4, <1>6, <1>10, <2>3 DEF BitsInv
  <1>13. cp_q' = [pop |-> PopCheckpoint, set |-> << >>] /\ PopCheckpoint \in BOOLEAN
    BY <1>2, <1>8 DEF PopCheckpoint
  <1>14. cp_q'.pop = PopCheckpoint /\ cp_q'.set = << >> /\ cp_q' \in [pop : BOOLEAN, set : Seq(CpRequest)]
    BY <1>13
  <1>15. Contents' = Contents
    <2>1. \A c \in CpId : Filled(c, << >>) = {}
      BY DEF Filled
    <2>2. cpb.buf \in [CpId -> CheckpointType]
      BY <1>1 DEF TypeOK
    <2>3. QED
      BY <1>2, <1>8, <1>14, <2>1, <2>2 DEF Contents
  <1>16. Len(fifo) \in Nat /\ cpb.cnt \in Nat /\ cpb.rptr \in CpId
    BY <1>1, LenProperties, SizesAssumption DEF TypeOK
  <1>17. \A k \in 1 .. (Left + Len(fifo)) - n : Claims'[k] = Claims[n + k]
    <2>1. ASSUME NEW k \in 1 .. (Left + Len(fifo)) - n PROVE Claims'[k] = Claims[n + k]
      <3>1. /\ k \in 1 .. (Left - n) + Len(fifo) /\ n + k \in 1 .. Left + Len(fifo)
            /\ (k <= Left - n <=> n + k <= Left) /\ k - (Left - n) = (n + k) - Left
        BY <1>9, <1>16
      <3>2. Claims[n + k] = IF n + k <= Left THEN CpOf(Ids, Es, Ops(backend, wb_commit), n + k)
                            ELSE fifo[(n + k) - Left].cp
        BY <1>8, <3>1 DEF Claims
      <3>3. Claims'[k] = IF k <= Left - n THEN CpOf(Ids', Es', Ops(backend, {}), k)
                         ELSE fifo[k - (Left - n)].cp
        BY <1>2, <1>4, <1>10, <3>1 DEF Claims
      <3>4. CASE k <= Left - n
        <4>1. k \in 1 .. Left - n
          BY <1>9, <3>4
        <4>2. CpOf(Ids', Es', Ops(backend, {}), k) = CpOf(Ids, Es, Ops(backend, wb_commit), n + k)
          BY <1>7, <4>1, DeliversCp
        <4>3. QED
          BY <3>1, <3>2, <3>3, <3>4, <4>2
      <3>5. CASE ~ (k <= Left - n)
        BY <3>1, <3>2, <3>3, <3>5
      <3>6. QED
        BY <3>4, <3>5
    <2>2. QED
      BY <2>1
  <1> DEFINE pops == IF PopCheckpoint THEN 1 ELSE 0
             N == Left + Len(fifo)
  <1>18. pops = 1 => n > 0 /\ Claims[n] # None
    <2>1. SUFFICES ASSUME PopCheckpoint PROVE n > 0 /\ Claims[n] # None
      OBVIOUS
    <2>2. n > 0 /\ LastBranch = RobAt(n) /\ LastBranch.cp # None
      BY <2>1 DEF PopCheckpoint, LastBranch, NoItem
    <2>3. n \in 1 .. n /\ n \in 1 .. N /\ n <= Left /\ n \in 1 .. Left
      BY <1>9, <1>16, <2>2
    <2>4. Claims[n] = CpOf(Ids, Es, Ops(backend, LiveResults), n)
      BY <2>3 DEF Claims
    <2>5. Es[n].finish /\ Es[n] = RobAt(n)
      BY <1>8, <1>9, <2>3
    <2>6. QED
      BY <2>2, <2>4, <2>5 DEF CpOf
  <1>19. /\ ClaimsOK(N - n, Claims', cpb.rptr, pops, cpb.cnt)
         /\ pops = 1 => cpb.cnt > 0
    <2>1. ClaimsOK(N, Claims, cpb.rptr, 0, cpb.cnt)
      BY <1>1, <1>8 DEF CpInv
    <2>2. N \in Nat /\ n \in 0 .. N /\ pops \in {0, 1}
      BY <1>9, <1>16
    <2>3. \A k \in 1 .. N - n : Claims'[k] = Claims[n + k]
      BY <1>17
    <2> HIDE DEF N, pops
    <2>4. ClaimsLater(N, n, Claims, Claims', pops)
      BY <1>18, <2>2, <2>3 DEF ClaimsLater
    <2>5. QED
      BY <1>16, <2>1, <2>4, ClaimsShift
  <1>20. CpPops' = pops
    <2>1. CASE PopCheckpoint
      BY <1>2, <1>14, <1>19, <2>1 DEF CpPops
    <2>2. CASE ~ PopCheckpoint
      BY <1>14, <2>2 DEF CpPops
    <2>3. QED
      BY <2>1, <2>2
  <1>21. KeptOK(Left - n, Claims', Contents, New', Dest', arf', Es')
    <2>1. KeptOK(Left, Claims, Contents, New, Dest, arf, Es)
      BY <1>1, <1>8 DEF CpInv
    <2>2. KeptLater(Left, n, Claims, Claims', New, Dest, arf, New', Dest', arf', Es, Es')
      <3>1. \A k \in 1 .. Left - n : k \in 1 .. (Left + Len(fifo)) - n /\ k \in 0 .. Left - n
        BY <1>9, <1>16
      <3>2. QED
        BY <1>4, <1>6, <1>9, <1>17, <3>1 DEF KeptLater
    <2>3. QED
      BY <2>1, <2>2, KeptShift
  <1>22. CpInv'
    <2>1. N - n = Left' + Len(fifo')
      BY <1>2, <1>4, <1>9, <1>16
    <2>2. ClaimsOK(Left' + Len(fifo'), Claims', cpb'.rptr, CpPops', cpb'.cnt)
      BY <1>2, <1>19, <1>20, <2>1
    <2>3. KeptOK(Left', Claims', Contents', New', Dest', arf', Es')
      BY <1>4, <1>15, <1>21
    <2>4. QED
      BY <2>2, <2>3 DEF CpInv
  <1>23. rob_q'.done = wb_commit
    BY <1>3 DEF Leaving
  <1>24. Queues'
    <2>1. reg_q' \in Seq(RegRequest)
      BY <1>2, RetireQueue
    <2>2. ASSUME NEW r \in wb_commit PROVE \E k \in 1 .. Left' : r.op.rob_id = Ids'[k]
      <3>1. r.op \in Ops(backend, wb_commit)
        BY DEF Ops
      <3>2. \E k \in 1 .. Left - n : Ids'[k] = r.op.rob_id
        BY <1>7, <3>1, DeliversOp
      <3>3. QED
        BY <1>4, <3>2
    <2>3. QED
      BY <1>4, <1>14, <1>23, <2>1, <2>2 DEF Queues
  <1>25. Pass'
    BY <1>2, <1>4, <1>10, <1>14, <1>19 DEF Pass
  <1>26. TypeOK'
    <2>1. feedback' \in [flush : BOOLEAN, jump_enable : BOOLEAN]
      BY <1>2
    <2>2. rat_q' \in Seq(Request)
      BY <1>2, RetireQueue
    <2>3. rob_q'.pop \in 0 .. CommitWidth /\ rob_q'.done \in SUBSET Result /\ cp_q'.pop \in BOOLEAN
      BY <1>4, <1>13, <1>14
    <2>4. QED
      BY <1>1, <1>2, <1>6, <2>1, <2>2, <2>3 DEF TypeOK
  <1>27. WalkInv' /\ Ahead' /\ rat'.ok
    BY <1>1, <1>2, <1>6 DEF WalkInv, Ahead
  <1>28. QED
    BY <1>6, <1>11, <1>12, <1>22, <1>24, <1>25, <1>26, <1>27 DEF RenameInv

(* An exception starts a walk back.                                         *)
LEMMA CommitExceptionStep ==
    ASSUME RenameInv, CommitException
    PROVE  RenameInv'
  <1> DEFINE n == RetireNum
  <1>1. TypeOK /\ rat.ok /\ Queues /\ Pass
    BY DEF RenameInv
  <1>2. /\ stage = "commit" /\ cur_state = "normal" /\ stage' = "execute" /\ cur_state' = "flush"
        /\ feedback' = [flush |-> TRUE, jump_enable |-> FALSE]
        /\ restore_rob_item_id' = get_tail_id
        /\ UNCHANGED <<rat, rob, data_valid, cpb, cp_q, fifo, jump_wait, backend, wb_commit>>
        /\ rat_q' = RetireRequests /\ reg_q' = RetireRegs
    BY DEF CommitException, RetireGroup
  <1>3. PICK x \in Faulting : rob_item_id' = RobIdAt(x)
    BY DEF CommitException
  <1>4. Leaving({})
    BY <1>2 DEF CommitException, Leaving
  <1>5. /\ Pops' = n /\ Left' = Left - n /\ Left' \in Nat
        /\ \A k \in 1 .. Left - n : /\ n + k \in 1 .. Left /\ Ids'[k] = Ids[n + k]
                                    /\ rob'.buf[Ids'[k]] \in RobItem
        /\ Pops' <= rob'.cnt /\ rob_q'.pop <= rob'.cnt
        /\ rob_q' \in [pop : 0 .. CommitWidth, done : SUBSET Result]
    BY <1>4, LeaveRob
  <1>6. /\ n \in Nat /\ n \in 0 .. Left /\ Left \in Nat
        /\ x = n + 1 /\ x \in 1 .. Left
    BY <1>2, RetireFacts
  <1>7. Left = rob.cnt /\ \A k \in 1 .. Left : Ids[k] = RobIdAt(k) /\ Ids[k] = Ring(rob.rptr, k)
    BY <1>2, AtCommit
  <1>8. rob.rptr \in RobId /\ Left \in 1 .. RobSize /\ RobSize \in Nat \ {0}
    BY <1>1, <1>6, RobFields
  <1>9. restore_rob_item_id' = Ring(rob.rptr, Left) /\ restore_rob_item_id' = Ids[Left]
    <2>1. Left \in 1 .. Left
      BY <1>6
    <2>2. QED
      BY <1>2, <1>7, <2>1 DEF get_tail_id
  <1>10. Standing' = Left - n
    <2>1. ((Ring(rob.rptr, Left) + RobSize - rob.rptr) % RobSize) + 1 = Left
      BY <1>8, RingPosition
    <2>2. Standing' = (((restore_rob_item_id' + RobSize - rob'.rptr) % RobSize) + 1) - Pops'
      BY <1>2 DEF Standing, Position
    <2>3. QED
      BY <1>2, <1>5, <1>9, <2>1, <2>2
  <1>11. /\ MapInv' /\ arf' \in [Arch -> Phy]
         /\ {arf'[a] : a \in Arch} \subseteq Bits' /\ Bits' \subseteq Table'.valid
    BY <1>4, <1>10, LeaveMap
  <1>12. feedback'.flush /\ ~ Calm'
    BY <1>2 DEF Calm
  <1>13. BitsInv' /\ OpsInv' /\ KindInv' /\ CpInv' /\ Ahead'
    BY <1>11, <1>12 DEF BitsInv, OpsInv, KindInv, CpInv, Ahead
  <1>14. rob_item_id' \in RobId /\ restore_rob_item_id' \in RobId
    <2>1. \A k \in 1 .. Left : Ids[k] \in RobId
      BY <1>1, RobFields
    <2>2. Left \in 1 .. Left
      BY <1>6
    <2>3. QED
      BY <1>3, <1>6, <1>7, <1>9, <2>1, <2>2
  <1>15. WalkInv'
    <2>1. Standing' \in 1 .. Left' /\ 1 \in 1 .. Left - n /\ Left - n \in 1 .. Left - n
          /\ n + (Left - n) = Left
      BY <1>5, <1>6, <1>10
    <2>2. restore_rob_item_id' = Ids'[Standing']
      BY <1>5, <1>9, <1>10, <2>1
    <2>3. rob_item_id' = Ids'[1]
      BY <1>3, <1>5, <1>6, <1>7, <2>1
    <2>4. QED
      BY <2>1, <2>2, <2>3 DEF WalkInv
  <1>16. rob_q'.done = {} /\ cp_q = [pop |-> FALSE, set |-> << >>]
    BY <1>2, <1>4, AtCommit DEF Leaving
  <1>17. Queues'
    <2>1. reg_q' \in Seq(RegRequest)
      BY <1>2, RetireQueue
    <2>2. cp_q' \in [pop : BOOLEAN, set : Seq(CpRequest)]
      BY <1>1, <1>2 DEF Queues
    <2>3. QED
      BY <1>5, <1>16, <2>1, <2>2 DEF Queues
  <1>18. Pass'
    <2>1. cp_q' = cp_q /\ cp_q.set = << >>
      BY <1>2, <1>16
    <2>2. QED
      BY <1>2, <1>12, <2>1 DEF Pass
  <1>19. TypeOK'
    <2>1. feedback' \in [flush : BOOLEAN, jump_enable : BOOLEAN]
      BY <1>2
    <2>2. rat_q' \in Seq(Request)
      BY <1>2, RetireQueue
    <2>3. rob_q'.pop \in 0 .. CommitWidth /\ rob_q'.done \in SUBSET Result
      BY <1>5
    <2>4. QED
      BY <1>1, <1>2, <1>11, <1>14, <2>1, <2>2, <2>3 DEF TypeOK
  <1>20. rat'.ok
    BY <1>1, <1>2
  <1>21. QED
    BY <1>11, <1>13, <1>15, <1>17, <1>18, <1>19, <1>20 DEF RenameInv

(* An interrupt starts a walk back, or is taken at once.                    *)
LEMMA CommitInterruptStep ==
    ASSUME RenameInv, CommitInterrupt
    PROVE  RenameInv'
  <1>1. TypeOK /\ rat.ok /\ Queues /\ Pass /\ MapInv /\ BitsInv
    BY DEF RenameInv
  <1>2. /\ stage = "commit" /\ cur_state = "normal" /\ stage' = "execute" /\ rob.cnt > 0
        /\ feedback' = [flush |-> TRUE, jump_enable |-> FALSE] /\ cur_state' = "interrupt_flush"
        /\ restore_rob_item_id' = get_tail_id /\ rob_item_id' = RobIdAt(1)
        /\ UNCHANGED <<arf, rat, rat_q, rob, rob_q, data_valid, reg_q>>
        /\ UNCHANGED <<cpb, cp_q, fifo, jump_wait, backend, wb_commit>>
    BY DEF CommitInterrupt
  <1>3. /\ Left = rob.cnt /\ Pops = 0
        /\ \A k \in 1 .. Left : Ids[k] = RobIdAt(k) /\ Ids[k] = Ring(rob.rptr, k)
        /\ cp_q = [pop |-> FALSE, set |-> << >>]
    BY <1>2, AtCommit
  <1>4. rob.rptr \in RobId /\ Left \in 1 .. RobSize /\ RobSize \in Nat \ {0}
    BY <1>1, <1>2, <1>3, RobFields
  <1>5. Pops' = Pops /\ Left' = Left /\ Ids' = Ids /\ Es' = Es /\ Table' = Table /\ Bits' = Bits
    <2>1. Pops' = Pops /\ Left' = Left
      BY <1>2 DEF Pops, Left
    <2>2. QED
      BY <1>2, <2>1 DEF Ids, Es, Table, Bits
  <1>6. Left \in 1 .. Left /\ 1 \in 1 .. Left
    BY <1>4
  <1>7. restore_rob_item_id' = Ids[Left] /\ rob_item_id' = Ids[1] /\ Ids[Left] = Ring(rob.rptr, Left)
    BY <1>2, <1>3, <1>6 DEF get_tail_id
  <1>8. Standing' = Left /\ Standing = Left
    <2>1. ((Ring(rob.rptr, Left) + RobSize - rob.rptr) % RobSize) + 1 = Left
      BY <1>4, RingPosition
    <2>2. Standing' = (((restore_rob_item_id' + RobSize - rob'.rptr) % RobSize) + 1) - Pops'
      BY <1>2 DEF Standing, Position
    <2>3. Standing' = Left - 0
      BY <1>2, <1>3, <1>5, <1>7, <2>1, <2>2
    <2>4. QED
      BY <1>2, <1>4, <2>3 DEF Standing
  <1>9. New' = New /\ Old' = Old
    BY <1>5, <1>8 DEF New, Old
  <1>10. MapInv'
    BY <1>1, <1>2, <1>5, <1>8, <1>9 DEF MapInv
  <1>11. feedback'.flush /\ ~ Calm'
    BY <1>2 DEF Calm
  <1>12. BitsInv' /\ OpsInv' /\ KindInv' /\ CpInv' /\ Ahead'
    BY <1>1, <1>2, <1>5, <1>11 DEF BitsInv, OpsInv, KindInv, CpInv, Ahead
  <1>13. WalkInv'
    BY <1>5, <1>6, <1>7, <1>8 DEF WalkInv
  <1>14. rob_item_id' \in RobId /\ restore_rob_item_id' \in RobId
    BY <1>1, <1>6, <1>7, RobFields
  <1>15. Queues'
    BY <1>1, <1>2, <1>5 DEF Queues
  <1>16. Pass'
    <2>1. cp_q' = cp_q /\ cp_q.set = << >>
      BY <1>2, <1>3
    <2>2. QED
      BY <1>2, <1>11, <2>1 DEF Pass
  <1>17. TypeOK'
    <2>1. feedback' \in [flush : BOOLEAN, jump_enable : BOOLEAN]
      BY <1>2
    <2>2. QED
      BY <1>1, <1>2, <1>14, <2>1 DEF TypeOK
  <1>18. rat'.ok
    BY <1>1, <1>2
  <1>19. QED
    BY <1>10, <1>12, <1>13, <1>15, <1>16, <1>17, <1>18 DEF RenameInv

-----------------------------------------------------------------------------
(* The walk back undoes one entry and ends after the oldest.                *)
LEMMA WalkBackEnds ==
    ASSUME RenameInv, stage = "commit", cur_state # "normal"
    PROVE  /\ Standing \in 1 .. Left /\ Left \in 1 .. RobSize /\ rob.rptr \in RobId
           /\ restore_rob_item_id = Ids[Standing] /\ InRing(rob, RobSize, restore_rob_item_id)
           /\ WalkBackDone <=> Standing = 1
           /\ Standing # 1 => get_prev_id = Ids[Standing - 1]
  <1> DEFINE s == Standing
  <1>1. TypeOK /\ Queues /\ WalkInv
    BY DEF RenameInv
  <1>2. s \in 1 .. Left /\ restore_rob_item_id = Ids[s] /\ rob_item_id = Ids[1]
    BY <1>1 DEF WalkInv
  <1>3. Left = rob.cnt /\ \A k \in 1 .. Left : Ids[k] = RobIdAt(k) /\ Ids[k] = Ring(rob.rptr, k)
    BY AtCommit
  <1>4. rob.rptr \in RobId /\ Left \in 1 .. RobSize /\ RobSize \in Nat \ {0}
    BY <1>1, <1>2, RobFields
  <1> HIDE DEF s
  <1>5. rob.cnt \in Nat /\ rob.rptr \in Nat
    BY <1>3, <1>4 DEF RobId
  <1>6. InRing(rob, RobSize, restore_rob_item_id)
    BY <1>2, <1>3, <1>5, InRingIs
  <1>7. restore_rob_item_id = rob_item_id => s = 1
    <2>1. s \in 1 .. RobSize /\ 1 \in 1 .. RobSize /\ 1 \in 1 .. Left
      BY <1>2, <1>4
    <2>2. Ids[s] = Ring(rob.rptr, s) /\ Ids[1] = Ring(rob.rptr, 1)
      BY <1>2, <1>3, <2>1
    <2>3. Ring(rob.rptr, s) = Ring(rob.rptr, 1) => s = 1
      BY <1>4, <2>1, RingInjective
    <2>4. QED
      BY <1>2, <2>2, <2>3
  <1>8. ASSUME s # 1 PROVE get_prev_id = Ids[s - 1] /\ InRing(rob, RobSize, get_prev_id)
    <2>1. s \in 2 .. RobSize /\ s - 1 \in 1 .. Left
      BY <1>2, <1>4, <1>8
    <2>2. (Ring(rob.rptr, s) + RobSize - 1) % RobSize = Ring(rob.rptr, s - 1)
      BY <1>4, <2>1, RingPrevious
    <2>3. restore_rob_item_id = Ring(rob.rptr, s)
      BY <1>2, <1>3
    <2>4. get_prev_id = Ids[s - 1]
      BY <1>3, <2>1, <2>2, <2>3 DEF get_prev_id
    <2>5. InRing(rob, RobSize, get_prev_id)
      BY <1>3, <1>5, <2>1, <2>4, InRingIs
    <2>6. QED
      BY <2>4, <2>5
  <1>9. WalkBackDone <=> s = 1
    BY <1>2, <1>7, <1>8 DEF WalkBackDone
  <1>10. QED
    BY <1>2, <1>4, <1>6, <1>8, <1>9 DEF s

(* One entry of a walk back is undone.                                      *)
LEMMA WalkBackTable ==
    ASSUME RenameInv, stage = "commit", cur_state # "normal"
    PROVE  LET s == Standing
               item == rob.buf[restore_rob_item_id]
               req == [op |-> "restore_map", new |-> item.new, old |-> item.old]
           IN  /\ item.new = New[s] /\ item.old = Old[s] /\ item \in RobItem
               /\ req \in Request
               /\ Agrees(Applied(rat, << req >>), New, Dest, arf, 0, s - 1)
  <1> DEFINE s == Standing
             item == rob.buf[restore_rob_item_id]
             req == [op |-> "restore_map", new |-> item.new, old |-> item.old]
  <1>1. s \in 1 .. Left /\ Left \in Nat /\ restore_rob_item_id = Ids[s]
    BY WalkBackEnds
  <1>2. \A k \in 1 .. Left : Es[k] = rob.buf[Ids[k]] /\ Es[k] \in RobItem
    BY AtCommit
  <1>3. item = Es[s] /\ item \in RobItem
    BY <1>1, <1>2
  <1>4. s \in 1 .. Standing
    BY <1>1
  <1>5. New[s] = item.new /\ Old[s] = item.old
    BY <1>3, <1>4 DEF New, Old
  <1>6. item.new \in Phy \cup {None} /\ item.old \in Phy \cup {None}
    BY <1>3 DEF RobItem
  <1>7. req \in Request
    BY <1>6 DEF Request
  <1>8. req = Undoing(New, Old, s)
    BY <1>5 DEF Undoing
  <1>9. MapInv /\ Table = rat
    BY AtCommit DEF RenameInv
  <1>10. Entries(New, Old, Dest, arf, s) /\ Agrees(rat, New, Dest, arf, 0, s)
    BY <1>9, TableTyped
  <1> HIDE DEF req, item, s
  <1>11. s - 1 \in 0 .. s /\ s - 1 < s /\ 0 \in 0 .. s - 1 /\ (s - 1) + 1 = s
    BY <1>1
  <1>12. Agrees(Apply(rat, Undoing(New, Old, (s - 1) + 1)), New, Dest, arf, 0, s - 1)
    BY <1>10, <1>11, UndoOne
  <1>13. Applied(rat, << req >>) = Apply(rat, req)
    <2>1. << >> \in Seq(Request) /\ Append(<< >>, req) = << req >> /\ Len(<< >>) = 0
      OBVIOUS
    <2>2. Applied(rat, Append(<< >>, req)) = Apply(Applied(rat, << >>), req)
      BY <1>7, <2>1, AppliedAppend
    <2>3. Applied(rat, << >>) = rat
      BY <2>1, AppliedNone
    <2>4. QED
      BY <2>1, <2>2, <2>3
  <1>14. Agrees(Applied(rat, << req >>), New, Dest, arf, 0, s - 1)
    BY <1>8, <1>11, <1>12, <1>13
  <1>15. QED
    BY <1>3, <1>5, <1>7, <1>14 DEF req, item, s

(* A walk back continues or ends.                                           *)
LEMMA CommitWalkBackStep ==
    ASSUME RenameInv, CommitWalkBack
    PROVE  RenameInv'
  <1> DEFINE s == Standing
             item == rob.buf[restore_rob_item_id]
             req == [op |-> "restore_map", new |-> item.new, old |-> item.old]
             clr == [op |-> "clear", phy |-> item.new]
  <1>1. TypeOK /\ rat.ok /\ Queues /\ Pass /\ MapInv /\ BitsInv
    BY DEF RenameInv
  <1>2. /\ stage = "commit" /\ cur_state # "normal" /\ stage' = "execute"
        /\ feedback' = [flush |-> TRUE, jump_enable |-> FALSE]
        /\ rat_q' = << req >> /\ reg_q' = << clr >>
        /\ UNCHANGED <<arf, rob_q, data_valid, cpb, cp_q, fifo>>
        /\ UNCHANGED <<jump_wait, backend, wb_commit>>
        /\ rat' = [rat EXCEPT !.ok = @ /\ InRing(rob, RobSize, restore_rob_item_id)]
        /\ WalkBackDone => /\ rob' = EmptyRob /\ restore_rob_item_id' = 0 /\ rob_item_id' = 0
                           /\ cur_state' = "normal"
        /\ ~ WalkBackDone => /\ rob' = rob /\ restore_rob_item_id' = get_prev_id
                             /\ rob_item_id' = rob_item_id /\ cur_state' = cur_state
    BY DEF CommitWalkBack
  <1>3. /\ s \in 1 .. Left /\ Left \in 1 .. RobSize /\ rob.rptr \in RobId
        /\ restore_rob_item_id = Ids[s] /\ InRing(rob, RobSize, restore_rob_item_id)
        /\ WalkBackDone <=> s = 1
        /\ s # 1 => get_prev_id = Ids[s - 1]
    BY <1>2, WalkBackEnds
  <1>4. /\ item.new = New[s] /\ item.old = Old[s] /\ item \in RobItem
        /\ req \in Request
        /\ Agrees(Applied(rat, << req >>), New, Dest, arf, 0, s - 1)
    BY <1>2, WalkBackTable
  <1>5. /\ Left = rob.cnt /\ Pops = 0 /\ Table = rat /\ Bits = data_valid
        /\ \A k \in 1 .. Left : Ids[k] = Ring(rob.rptr, k) /\ Es[k] = rob.buf[Ids[k]] /\ Es[k] \in RobItem
        /\ cp_q = [pop |-> FALSE, set |-> << >>] /\ rob_q = [pop |-> 0, done |-> {}]
    BY <1>2, AtCommit
  <1>6. RobSize \in Nat \ {0}
    BY SizesAssumption
  <1> HIDE DEF req, item, s, clr
  <1>7. rat' = rat
    <2>1. rat \in RatType
      BY <1>1 DEF TypeOK
    <2>2. QED
      BY <1>1, <1>2, <1>3, <2>1, Asserted
  <1>8. Table' = Applied(rat, << req >>)
    BY <1>2, <1>7 DEF Table
  <1>9. rob_q' = rob_q /\ rob_q.pop = 0 /\ rob_q.done = {}
    BY <1>2, <1>5
  <1>10. /\ Pops' = 0 /\ Standing' = s - 1 /\ Left' = rob'.cnt /\ Left' \in 0 .. RobSize
         /\ rob' \in [buf : [RobId -> RobItem \cup {NoItem}], rptr : RobId, cnt : 0 .. RobSize]
         /\ rob_item_id' \in RobId /\ restore_rob_item_id' \in RobId
         /\ s = 1 => Left' = 0
         /\ s # 1 => Left' = Left /\ rob' = rob
    <2>1. CASE s = 1
      <3>1. rob' = EmptyRob /\ cur_state' = "normal" /\ restore_rob_item_id' = 0 /\ rob_item_id' = 0
        BY <1>2, <1>3, <2>1
      <3>2. rob'.cnt = 0 /\ 0 \in RobId /\ EmptyRob.buf = [i \in RobId |-> NoItem]
        BY <1>6, <3>1 DEF EmptyRob, RobId
      <3>3. Pops' = 0 /\ Left' = 0
        BY <3>2 DEF Pops, Left
      <3>4. Standing' = 0
        BY <3>1, <3>3 DEF Standing
      <3>5. rob' \in [buf : [RobId -> RobItem \cup {NoItem}], rptr : RobId, cnt : 0 .. RobSize]
        <4>1. 0 \in 0 .. RobSize
          BY <1>6
        <4>2. QED
          BY <3>1, <3>2, <4>1 DEF EmptyRob
      <3>6. QED
        BY <1>6, <2>1, <3>1, <3>2, <3>3, <3>4, <3>5
    <2>2. CASE s # 1
      <3>1. /\ rob' = rob /\ restore_rob_item_id' = get_prev_id
            /\ rob_item_id' = rob_item_id /\ cur_state' = cur_state
        BY <1>2, <1>3, <2>2
      <3>2. Pops' = 0 /\ Left' = Left
        BY <1>5, <1>9, <3>1 DEF Pops, Left
      <3>3. s - 1 \in 1 .. Left /\ s - 1 \in 1 .. RobSize
        <4>1. s \in 1 .. Left /\ Left \in 1 .. RobSize
          BY <1>3
        <4>2. QED
          BY ONLY <1>6, <2>2, <4>1
      <3>4. restore_rob_item_id' = Ring(rob.rptr, s - 1) /\ restore_rob_item_id' = Ids[s - 1]
        BY <1>3, <1>5, <2>2, <3>1, <3>3
      <3>5. ((Ring(rob.rptr, s - 1) + RobSize - rob.rptr) % RobSize) + 1 = s - 1
        BY <1>3, <3>3, RingPosition
      <3>6. Standing' = (((restore_rob_item_id' + RobSize - rob'.rptr) % RobSize) + 1) - Pops'
        BY <1>2, <3>1 DEF Standing, Position
      <3>7. Standing' = (s - 1) - 0
        BY <3>1, <3>2, <3>4, <3>5, <3>6
      <3>8. Ids[s - 1] \in RobId
        BY <1>1, <3>3, RobFields
      <3>9. rob \in [buf : [RobId -> RobItem \cup {NoItem}], rptr : RobId, cnt : 0 .. RobSize]
            /\ rob_item_id \in RobId
        BY <1>1 DEF TypeOK
      <3>10. QED
        BY <1>3, <1>5, <1>6, <2>2, <3>1, <3>2, <3>3, <3>4, <3>7, <3>8, <3>9
    <2>3. QED
      BY <2>1, <2>2
  <1>11. s # 1 => Ids' = Ids /\ Es' = Es
    <2>1. SUFFICES ASSUME s # 1 PROVE Ids' = Ids /\ Es' = Es
      OBVIOUS
    <2>2. rob' = rob /\ Left' = Left /\ Pops' = Pops
      BY <1>5, <1>10, <2>1
    <2>3. QED
      BY <1>9, <2>2 DEF Ids, Es
  <1>12. \A k \in 1 .. s - 1 : New'[k] = New[0 + k] /\ Old'[k] = Old[0 + k]
    <2>1. ASSUME NEW k \in 1 .. s - 1 PROVE New'[k] = New[0 + k] /\ Old'[k] = Old[0 + k]
      <3>1. s # 1 /\ k \in 1 .. s /\ 0 + k = k
        BY <1>3
      <3>2. Es' = Es /\ k \in 1 .. Standing' /\ k \in 1 .. Standing
        BY <1>10, <1>11, <3>1 DEF s
      <3>3. QED
        BY <3>1, <3>2 DEF New, Old
    <2>2. QED
      BY <2>1
  <1>13. Entries(New, Old, Dest, arf, s) /\ Agrees(Table, New, Dest, arf, 0, s)
    BY <1>1, TableTyped DEF s
  <1>14. MapInv'
    <2>1. Keeps(New, Old, Dest, arf, s, 0, s - 1, Table', New', Old', arf)
      <3>1. 0 \in Nat /\ s - 1 \in Nat /\ 0 + (s - 1) <= s /\ 0 + (s - 1) = s - 1
        BY <1>3
      <3>2. Agrees(Table', New, Dest, arf, 0, 0 + (s - 1))
        BY <1>4, <1>8, <3>1
      <3>3. arf \in [Arch -> Phy] /\ \A a \in Arch : arf[a] = Latest(New, Dest, arf, a, 0)
        BY <1>1, LatestNone DEF TypeOK
      <3>4. QED
        BY <1>12, <1>13, <3>1, <3>2, <3>3 DEF Keeps
    <2>2. MapOK(Table', New', Old', arf, s - 1)
      BY <2>1, MapPart
    <2>3. QED
      BY <1>2, <1>10, <2>2 DEF MapInv
  <1>15. BitsInv'
    <2>1. ~ Calm'
      BY <1>2 DEF Calm
    <2>2. item.new \in Phy \cup {None}
      BY <1>4 DEF RobItem
    <2>3. Len(<< clr >>) = 1 /\ \A k \in 1 .. 1 : << clr >>[k].op = "clear" /\ << clr >>[k].phy = << item.new >>[k]
      BY DEF clr
    <2>4. ASSUME NEW p \in Phy PROVE p \in Bits' <=> p \in Bits /\ item.new # p
      <3>1. p \in RegSync(data_valid, << clr >>) <=>
               p \in data_valid /\ \A k \in 1 .. Len(<< clr >>) : << item.new >>[k] # p
        BY <2>3, RegClears
      <3>2. Bits' = RegSync(data_valid, << clr >>)
        BY <1>2 DEF Bits
      <3>3. (\A k \in 1 .. 1 : << item.new >>[k] # p) <=> item.new # p
        OBVIOUS
      <3>4. QED
        BY <1>5, <2>3, <3>1, <3>2, <3>3
    <2>5. Bits' \subseteq Phy /\ Bits \subseteq Phy
      BY RegTyped DEF Bits
    <2>6. /\ Table.valid = Now(New, Dest, arf, 0) \cup ({New[k] : k \in 0 + 1 .. s} \ {None})
          /\ Table'.valid = Now(New, Dest, arf, 0) \cup ({New[k] : k \in 0 + 1 .. s - 1} \ {None})
      BY <1>4, <1>8, <1>13 DEF Agrees
    <2>7. {arf[a] : a \in Arch} \subseteq Bits /\ Bits \subseteq Table.valid
      BY <1>1 DEF BitsInv
    <2>8. \A a \in Arch : arf[a] # item.new
      BY <1>3, <1>4, <1>13 DEF Entries
    <2>9. {arf'[a] : a \in Arch} \subseteq Bits'
      <3>1. ASSUME NEW a \in Arch PROVE arf[a] \in Bits'
        BY <2>4, <2>5, <2>7, <2>8
      <3>2. QED
        BY <1>2, <3>1
    <2>10. Bits' \subseteq Table'.valid
      <3>1. ASSUME NEW p \in Bits' PROVE p \in Table'.valid
        <4>1. p \in Phy /\ p \in Table.valid /\ p # New[s]
          BY <1>4, <2>4, <2>5, <2>7
        <4>2. \A k \in 0 + 1 .. s : k = s \/ k \in 0 + 1 .. s - 1
          BY <1>3
        <4>3. QED
          BY <2>6, <4>1, <4>2
      <3>2. QED
        BY <3>1
    <2>11. QED
      BY <2>1, <2>9, <2>10 DEF BitsInv
  <1>16. feedback'.flush /\ ~ Calm'
    BY <1>2 DEF Calm
  <1>17. OpsInv' /\ KindInv' /\ CpInv' /\ Ahead'
    BY <1>16 DEF OpsInv, KindInv, CpInv, Ahead
  <1>18. WalkInv'
    <2>1. SUFFICES ASSUME cur_state' # "normal" PROVE Standing' \in 1 .. Left'
                       /\ restore_rob_item_id' = Ids'[Standing'] /\ rob_item_id' = Ids'[1]
      BY DEF WalkInv
    <2>2. s # 1
      BY <1>2, <1>3, <2>1
    <2>3. s - 1 \in 1 .. Left
      BY <1>3, <2>2
    <2>4. rob_item_id = Ids[1]
      BY <1>2 DEF RenameInv, WalkInv
    <2>5. QED
      BY <1>2, <1>3, <1>10, <1>11, <2>2, <2>3, <2>4
  <1>19. Queues'
    <2>1. clr \in RegRequest
      BY <1>4 DEF clr, RegRequest, RobItem
    <2>2. reg_q' \in Seq(RegRequest)
      BY <1>2, <2>1
    <2>3. ASSUME NEW k \in 1 .. Left' PROVE rob'.buf[Ids'[k]] \in RobItem
      <3>1. s # 1
        BY <1>10
      <3>2. QED
        BY <1>5, <1>10, <1>11, <3>1
    <2>4. Pops' <= rob'.cnt
      BY <1>10
    <2>5. cp_q' \in [pop : BOOLEAN, set : Seq(CpRequest)] /\ rob_q' \in [pop : 0 .. CommitWidth, done : SUBSET Result]
      BY <1>1, <1>2 DEF Queues
    <2>6. rob_q'.done = {}
      BY <1>9
    <2>7. QED
      BY <2>2, <2>3, <2>4, <2>5, <2>6 DEF Queues
  <1>20. Pass'
    <2>1. cp_q' = cp_q /\ cp_q.set = << >>
      BY <1>2, <1>5
    <2>2. cur_state' = "normal" => rob'.cnt = 0
      BY <1>2, <1>3, <1>10
    <2>3. QED
      BY <1>2, <1>16, <2>1, <2>2 DEF Pass
  <1>21. TypeOK'
    <2>1. feedback' \in [flush : BOOLEAN, jump_enable : BOOLEAN]
      BY <1>2
    <2>2. rat_q' \in Seq(Request)
      BY <1>2, <1>4
    <2>3. cur_state' \in {"normal", "flush", "interrupt_flush"}
      BY <1>1, <1>2 DEF TypeOK
    <2>4. QED
      BY <1>1, <1>2, <1>7, <1>10, <2>1, <2>2, <2>3 DEF TypeOK
  <1>22. rat'.ok
    BY <1>1, <1>7
  <1>23. QED
    BY <1>14, <1>15, <1>17, <1>18, <1>19, <1>20, <1>21, <1>22 DEF RenameInv

(* An injective image of a finite set is of the same size.                  *)
LEMMA ImageSize ==
    ASSUME NEW S, IsFiniteSet(S), NEW T, NEW g \in [S -> T],
           \A a, b \in S : g[a] = g[b] => a = b, \A t \in T : \E a \in S : g[a] = t
    PROVE  IsFiniteSet(T) /\ Cardinality(T) = Cardinality(S)
  <1>1. g \in Bijection(S, T)
    BY Fun_IsBij
  <1>2. ExistsBijection(S, T)
    BY <1>1 DEF ExistsBijection
  <1>3. QED
    BY <1>2, FS_Bijection

(* There are as many mappings as architectural registers.                   *)
LEMMA NowSize ==
    ASSUME NEW nw, NEW od, NEW w, NEW f, NEW m, Entries(nw, od, w, f, m), NEW i \in 0 .. m
    PROVE  IsFiniteSet(Now(nw, w, f, i)) /\ Cardinality(Now(nw, w, f, i)) = Cardinality(Arch)
  <1> DEFINE g == [a \in Arch |-> Latest(nw, w, f, a, i)]
             T == Now(nw, w, f, i)
  <1>1. g \in [Arch -> T] /\ \A t \in T : \E a \in Arch : g[a] = t
    BY DEF Now
  <1>2. \A a, b \in Arch : g[a] = g[b] => a = b
    BY LatestInjective
  <1>3. IsFiniteSet(Arch)
    BY RegistersAssumption
  <1> HIDE DEF g, T
  <1>4. IsFiniteSet(T) /\ Cardinality(T) = Cardinality(Arch)
    BY <1>1, <1>2, <1>3, ImageSize
  <1>5. QED
    BY <1>4 DEF T

(* The checkpoint of the mispredicted branch.                               *)
LEMMA EditedIs ==
    ASSUME RenameInv, stage = "commit", cur_state = "normal", LastBranch.used, LastBranch.miss
    PROVE  /\ EditedCp(LastBranch) \in CheckpointType
           /\ EditedCp(LastBranch).valid = Now(New, Dest, arf, RetireNum)
           /\ EditedCp(LastBranch).visible = Now(New, Dest, arf, RetireNum)
           /\ EditedCpOk(LastBranch)
  <1> DEFINE n == RetireNum
             x == RobAt(RetireNum)
             c == cpb.buf[x.cp]
             V == Now(New, Dest, arf, n)
  <1>1. n > 0 /\ LastBranch = x
    BY DEF LastBranch, NoItem
  <1>2. /\ n \in Nat /\ n \in 0 .. Left /\ Left \in Nat
        /\ \A k \in 1 .. Left : Old[k] = RobAt(k).old /\ RobAt(k) = Es[k]
        /\ \A k \in 1 .. n : k \in 1 .. Left /\ Es[k].finish
        /\ Entries(New, Old, Dest, arf, Left)
    BY RetireFacts
  <1>3. n \in 1 .. n /\ n \in 1 .. Left /\ n \in n .. Left /\ n <= Left
    BY <1>1, <1>2
  <1>4. x = Es[n] /\ Es[n].finish /\ x.old = Old[n]
    BY <1>2, <1>3
  <1>5. Calm /\ Contents = cpb.buf
    BY AtCommit
  <1>6. x.cp # None
    <2>1. KindOK(Left, Es, LiveResults)
      BY <1>5 DEF RenameInv, KindInv
    <2>2. Es[n].miss
      BY <1>1, <1>4
    <2>3. QED
      BY <1>3, <1>4, <2>1, <2>2 DEF KindOK
  <1>7. n \in 1 .. Left + Len(fifo)
    <2>1. Len(fifo) \in Nat
      BY LenProperties DEF RenameInv, TypeOK
    <2>2. QED
      BY <1>2, <1>3, <2>1
  <1>8. Claims[n] = x.cp
    <2>1. Claims[n] = CpOf(Ids, Es, Ops(backend, LiveResults), n)
      BY <1>3, <1>7 DEF Claims
    <2>2. QED
      BY <1>4, <2>1 DEF CpOf
  <1>9. x.cp \in CpId
    BY <1>5, <1>6, <1>7, <1>8 DEF RenameInv, CpInv, ClaimsOK
  <1>10. c \in CheckpointType
    BY <1>9 DEF RenameInv, TypeOK
  <1>11. /\ c.visible = V /\ c.visible \subseteq c.valid
         /\ x.old # None => x.old \in c.valid
    <2>1. KeptOK(Left, Claims, cpb.buf, New, Dest, arf, Es)
      BY <1>5 DEF RenameInv, CpInv
    <2>2. QED
      BY <1>3, <1>4, <1>6, <1>8, <2>1 DEF KeptOK
  <1>12. x.old \notin V
    <2>1. \A a \in Arch : Latest(New, Dest, arf, a, n) # Old[n]
      BY <1>2, <1>3, ReplacedIs
    <2>2. QED
      BY <1>4, <2>1 DEF Now
  <1>13. Cardinality(V) = Cardinality(Arch)
    BY <1>2, NowSize
  <1> HIDE DEF V, x
  <1>14. EditedCp(x) = [valid |-> (c.valid \ {x.old}) \cap c.visible, visible |-> c.visible]
    BY DEF EditedCp
  <1>15. EditedCp(x).valid = (c.valid \ {x.old}) \cap c.visible /\ EditedCp(x).visible = c.visible
    BY <1>14
  <1>16. EditedCp(x).valid = V /\ EditedCp(x).visible = V
    BY <1>11, <1>12, <1>15
  <1>17. EditedCp(x) \in CheckpointType
    BY <1>10, <1>14 DEF CheckpointType
  <1>18. EditedCpOk(x)
    BY <1>11, <1>12, <1>13 DEF EditedCpOk
  <1>19. QED
    BY <1>1, <1>16, <1>17, <1>18 DEF V

(* A misprediction restores the checkpoint and empties the ROB.             *)
LEMMA CommitMispredictStep ==
    ASSUME RenameInv, CommitMispredict
    PROVE  RenameInv'
  <1> DEFINE n == RetireNum
             cp == EditedCp(LastBranch)
             V == Now(New, Dest, arf, n)
             req == [op |-> "restore", cp |-> cp]
             reg == [op |-> "restore", valid |-> cp.visible]
  <1>1. TypeOK /\ rat.ok /\ Queues
    BY DEF RenameInv
  <1>2. /\ stage = "commit" /\ cur_state = "normal" /\ stage' = "execute"
        /\ LastBranch.used /\ LastBranch.miss
        /\ rat_q' = Append(RetireRequests, req) /\ reg_q' = Append(RetireRegs, reg)
        /\ rat' = [rat EXCEPT !.ok = @ /\ EditedCpOk(LastBranch)]
        /\ RetireArf /\ rob_q' = [pop |-> n, done |-> {}]
        /\ rob' = EmptyRob /\ cpb' = EmptyCpb
        /\ feedback' = [flush |-> TRUE, jump_enable |-> TRUE]
        /\ UNCHANGED <<cur_state, rob_item_id, restore_rob_item_id>>
        /\ UNCHANGED <<data_valid, cp_q, fifo, jump_wait, backend, wb_commit>>
    BY DEF CommitMispredict
  <1>3. cp \in CheckpointType /\ cp.valid = V /\ cp.visible = V /\ EditedCpOk(LastBranch)
    BY <1>2, EditedIs
  <1>4. /\ n \in Nat /\ n \in 0 .. Left /\ n \in 0 .. CommitWidth /\ Left \in Nat
        /\ Entries(New, Old, Dest, arf, Left)
    BY <1>2, RetireFacts
  <1>5. /\ RetireRequests \in Seq(Request) /\ RetireRegs \in Seq(RegRequest)
    BY <1>2, RetireQueue
  <1>6. Agrees(Applied(rat, RetireRequests), New, Dest, arf, n, Left)
    BY <1>2, RetireTable
  <1>7. arf' \in [Arch -> Phy] /\ \A a \in Arch : arf'[a] = Latest(New, Dest, arf, a, n)
    BY <1>2, RetireArfIs
  <1>8. V \subseteq Phy /\ V = {arf'[a] : a \in Arch}
    BY <1>4, <1>7, NowTyped DEF Now
  <1> HIDE DEF n, cp, V
  <1>9. rat' = rat
    <2>1. rat \in RatType
      BY <1>1 DEF TypeOK
    <2>2. QED
      BY <1>1, <1>2, <1>3, <2>1, Asserted
  <1>10. req \in Request /\ req.op = "restore" /\ req.cp = cp
    BY <1>3 DEF Request
  <1>11. reg \in RegRequest /\ reg.op = "restore" /\ reg.valid = V
    BY <1>3, <1>8 DEF RegRequest
  <1> HIDE DEF req, reg
  <1>12. Table' = restore(Applied(rat, RetireRequests), cp)
    <2>1. Table' = Applied(rat, Append(RetireRequests, req))
      BY <1>2, <1>9 DEF Table
    <2>2. Table' = Apply(Applied(rat, RetireRequests), req)
      BY <1>5, <1>10, <2>1, AppliedAppend
    <2>3. QED
      BY <1>10, <2>2 DEF Apply
  <1>13. Agrees(Table', New, Dest, arf, n, n)
    BY <1>3, <1>4, <1>6, <1>12, RestoreAll DEF V
  <1>14. rob'.cnt = 0 /\ Pops' = 0 /\ Left' = 0 /\ Standing' = 0
    <2>1. rob'.cnt = 0
      BY <1>2 DEF EmptyRob
    <2>2. QED
      BY <1>2, <2>1 DEF Pops, Left, Standing
  <1>15. MapInv'
    <2>1. Keeps(New, Old, Dest, arf, Left, n, 0, Table', New', Old', arf')
      <3>1. n + 0 = n /\ n + 0 <= Left /\ 0 \in Nat
        BY <1>4
      <3>2. Agrees(Table', New, Dest, arf, n, n + 0)
        BY <1>13, <3>1
      <3>3. QED
        BY <1>4, <1>7, <3>1, <3>2 DEF Keeps
    <2>2. MapOK(Table', New', Old', arf', 0)
      BY <2>1, MapPart
    <2>3. QED
      BY <1>14, <2>2 DEF MapInv
  <1>16. feedback'.flush /\ ~ Calm'
    BY <1>2 DEF Calm
  <1>17. BitsInv'
    <2>1. ASSUME NEW p \in Phy PROVE p \in Bits' <=> p \in V
      <3>1. Concerns(reg, p) /\ (Validates(reg, p) <=> p \in V)
        BY <1>11 DEF Concerns, Validates
      <3>2. p \in RegSync(data_valid, Append(RetireRegs, reg)) <=>
               IF Concerns(reg, p) THEN Validates(reg, p) ELSE p \in RegSync(data_valid, RetireRegs)
        BY <1>5, <1>11, RegAppend
      <3>3. Bits' = RegSync(data_valid, Append(RetireRegs, reg))
        BY <1>2 DEF Bits
      <3>4. QED
        BY <3>1, <3>2, <3>3
    <2>2. Bits' = V
      <3>1. Bits' \subseteq Phy
        BY RegTyped DEF Bits
      <3>2. QED
        BY <1>8, <2>1, <3>1
    <2>3. V \subseteq Table'.valid
      BY <1>13 DEF Agrees, V
    <2>4. QED
      BY <1>8, <1>16, <2>2, <2>3 DEF BitsInv
  <1>18. OpsInv' /\ KindInv' /\ CpInv' /\ Ahead' /\ WalkInv'
    BY <1>2, <1>16 DEF OpsInv, KindInv, CpInv, Ahead, WalkInv
  <1>19. cp_q = [pop |-> FALSE, set |-> << >>]
    BY <1>2, AtCommit
  <1>20. rob_q' \in [pop : 0 .. CommitWidth, done : SUBSET Result] /\ rob_q'.done = {}
    BY <1>2, <1>4
  <1>21. Queues'
    <2>1. reg_q' \in Seq(RegRequest)
      BY <1>2, <1>5, <1>11, AppendProperties
    <2>2. cp_q' \in [pop : BOOLEAN, set : Seq(CpRequest)]
      BY <1>1, <1>2 DEF Queues
    <2>3. Pops' <= rob'.cnt
      BY <1>14
    <2>4. QED
      BY <1>14, <1>20, <2>1, <2>2, <2>3 DEF Queues
  <1>22. Pass'
    <2>1. cp_q' = cp_q /\ cp_q.set = << >>
      BY <1>2, <1>19
    <2>2. QED
      BY <1>2, <1>14, <1>16, <2>1 DEF Pass
  <1>23. TypeOK'
    <2>1. feedback' \in [flush : BOOLEAN, jump_enable : BOOLEAN]
      BY <1>2
    <2>2. rat_q' \in Seq(Request)
      BY <1>2, <1>5, <1>10, AppendProperties
    <2>3. rob' \in [buf : [RobId -> RobItem \cup {NoItem}], rptr : RobId, cnt : 0 .. RobSize]
      <3>1. 0 \in 0 .. RobSize /\ 0 \in RobId
        BY SizesAssumption DEF RobId
      <3>2. QED
        BY <1>2, <3>1 DEF EmptyRob
    <2>4. cpb' \in [buf : [CpId -> CheckpointType], rptr : CpId, cnt : 0 .. CpSize]
      <3>1. 0 \in 0 .. CpSize /\ 0 \in CpId
        BY SizesAssumption DEF CpId
      <3>2. NoCp \in CheckpointType
        BY DEF NoCp, CheckpointType
      <3>3. QED
        BY <1>2, <3>1, <3>2 DEF EmptyCpb
    <2>5. rob_q'.pop \in 0 .. CommitWidth /\ rob_q'.done \in SUBSET Result
      BY <1>20
    <2>6. QED
      BY <1>1, <1>2, <1>7, <1>9, <2>1, <2>2, <2>3, <2>4, <2>5 DEF TypeOK
  <1>24. rat'.ok
    BY <1>1, <1>9
  <1>25. QED
    BY <1>15, <1>17, <1>18, <1>21, <1>22, <1>23, <1>24 DEF RenameInv

(* A group of n instructions with targets new for the registers rd is put   *)
(* behind L entries; r is the table rename sees, t the one with the queued  *)
(* requests of commit applied.                                              *)
GroupOld(r, new, rd, k) ==
    IF rd[k] = None THEN None
    ELSE LET ks == {j \in 1 .. k - 1 : rd[j] = rd[k]}
         IN  IF ks = {} THEN get_phy_id(r, rd[k]) ELSE new[Newest(ks)]
Grown(nw, od, w, f, L, t, r, n, new, rd, nx, ox, wx) ==
    /\ L \in Nat /\ n \in Nat
    /\ Entries(nw, od, w, f, L) /\ Agrees(t, nw, w, f, 0, L) /\ Hides(t, r)
    /\ \A k \in 1 .. L : nx[k] = nw[k] /\ ox[k] = od[k] /\ wx[k] = w[k]
    /\ \A k \in 1 .. n : /\ new[k] \in (Phy \ r.valid) \cup {None} /\ rd[k] \in Arch \cup {None}
                         /\ (new[k] = None <=> rd[k] = None)
                         /\ nx[L + k] = new[k] /\ wx[L + k] = rd[k]
                         /\ ox[L + k] = GroupOld(r, new, rd, k)
    /\ \A j, k \in 1 .. n : new[j] = new[k] /\ new[j] # None => j = k

(* Rename finds the mapping of the table with the requests applied.         *)
LEMMA HidesMapped ==
    ASSUME NEW nw, NEW od, NEW w, NEW f, NEW L, Entries(nw, od, w, f, L),
           NEW t, Agrees(t, nw, w, f, 0, L), NEW r, Hides(t, r), NEW a \in Arch
    PROVE  /\ Mapped(r, a) = {Latest(nw, w, f, a, L)} /\ Cardinality(Mapped(r, a)) = 1
           /\ get_phy_id(r, a) = Latest(nw, w, f, a, L)
  <1>1. L \in Nat /\ L \in 0 .. L /\ 0 \in 0 .. L
    BY DEF Entries
  <1>2. /\ Mapped(t, a) = {Latest(nw, w, f, a, L)} /\ Cardinality(Mapped(t, a)) = 1
    BY <1>1, MappedIs
  <1>3. Mapped(r, a) = Mapped(t, a)
    BY DEF Hides, Mapped
  <1> QED
    BY <1>2, <1>3 DEF get_phy_id

(* old_phy_reg_id is the mapping right before the instruction.              *)
LEMMA GrownLatest ==
    ASSUME NEW nw, NEW od, NEW w, NEW f, NEW L, NEW t, NEW r, NEW n, NEW new, NEW rd,
           NEW nx, NEW ox, NEW wx, Grown(nw, od, w, f, L, t, r, n, new, rd, nx, ox, wx), NEW a
    PROVE  /\ \A i \in 0 .. L : Latest(nx, wx, f, a, i) = Latest(nw, w, f, a, i)
           /\ \A k \in 1 .. n : rd[k] = a /\ a \in Arch =>
                 Latest(nx, wx, f, a, L + k - 1) = GroupOld(r, new, rd, k)
  <1>1. /\ L \in Nat /\ n \in Nat /\ Entries(nw, od, w, f, L) /\ Agrees(t, nw, w, f, 0, L) /\ Hides(t, r)
        /\ \A k \in 1 .. L : nx[k] = nw[k] /\ wx[k] = w[k]
        /\ \A k \in 1 .. n : nx[L + k] = new[k] /\ wx[L + k] = rd[k]
    BY DEF Grown
  <1>2. \A k \in 1 .. L : nw[k] = nx[k] /\ w[k] = wx[k]
    BY <1>1
  <1>3. ASSUME NEW i \in 0 .. L PROVE Latest(nx, wx, f, a, i) = Latest(nw, w, f, a, i)
    <2>1. \A k \in 1 .. L : 0 + k = k
      OBVIOUS
    <2>2. Shifted(nx, wx, f, nw, w, f, a, 0, L)
      BY <1>2, <2>1, LatestNone DEF Shifted
    <2>3. \A j \in Nat : Shifted(nx, wx, f, nw, w, f, a, j, L) =>
             Latest(nw, w, f, a, i) = Latest(nx, wx, f, a, j + i)
      <3>1. L \in Nat
        BY <1>1
      <3> QED
        BY <3>1, LatestShift
    <2>4. 0 \in Nat /\ 0 + i = i
      BY <1>1
    <2> QED
      BY <2>2, <2>3, <2>4
  <1>4. ASSUME NEW k \in 1 .. n, rd[k] = a, a \in Arch
        PROVE  Latest(nx, wx, f, a, L + k - 1) = GroupOld(r, new, rd, k)
    <2> DEFINE h == [b \in Arch |-> Latest(nx, wx, f, b, L)]
               ks == {j \in 1 .. k - 1 : rd[j] = a}
    <2>1. h[a] = Latest(nx, wx, f, a, L) /\ L \in 0 .. L /\ n \in 0 .. n
      BY <1>1, <1>4
    <2>2. Shifted(nx, wx, f, new, rd, h, a, L, n)
      BY <1>1, <2>1 DEF Shifted
    <2>3. k - 1 \in 0 .. n /\ k - 1 \in Nat /\ L + (k - 1) = L + k - 1
      BY <1>1
    <2> HIDE DEF h
    <2>4. Latest(new, rd, h, a, k - 1) = Latest(nx, wx, f, a, L + (k - 1))
      <3>1. \A i \in 0 .. n : Latest(new, rd, h, a, i) = Latest(nx, wx, f, a, L + i)
        BY <1>1, <2>2, LatestShift
      <3> QED
        BY <2>3, <3>1
    <2>5. h[a] = get_phy_id(r, a)
      BY <1>1, <1>3, <1>4, <2>1, HidesMapped
    <2>6. Latest(new, rd, h, a, k - 1) = IF ks = {} THEN h[a] ELSE new[Newest(ks)]
      BY DEF Latest
    <2>7. GroupOld(r, new, rd, k) = IF ks = {} THEN get_phy_id(r, a) ELSE new[Newest(ks)]
      BY <1>4, NoneAssumption DEF GroupOld
    <2> HIDE DEF ks
    <2> QED
      BY <2>3, <2>4, <2>5, <2>6, <2>7
  <1> QED
    BY <1>3, <1>4

(* The group follows the entries as further entries.                        *)
LEMMA GrownEntries ==
    ASSUME NEW nw, NEW od, NEW w, NEW f, NEW L, NEW t, NEW r, NEW n, NEW new, NEW rd,
           NEW nx, NEW ox, NEW wx, Grown(nw, od, w, f, L, t, r, n, new, rd, nx, ox, wx)
    PROVE  /\ Entries(nx, ox, wx, f, L + n) /\ Agrees(t, nx, wx, f, 0, L)
           /\ \A i \in 0 .. L : Now(nx, wx, f, i) = Now(nw, w, f, i)
  <1>1. /\ L \in Nat /\ n \in Nat /\ Entries(nw, od, w, f, L) /\ Agrees(t, nw, w, f, 0, L) /\ Hides(t, r)
        /\ \A k \in 1 .. L : nx[k] = nw[k] /\ ox[k] = od[k] /\ wx[k] = w[k]
        /\ \A k \in 1 .. n : /\ new[k] \in (Phy \ r.valid) \cup {None} /\ rd[k] \in Arch \cup {None}
                             /\ (new[k] = None <=> rd[k] = None)
                             /\ nx[L + k] = new[k] /\ wx[L + k] = rd[k]
                             /\ ox[L + k] = GroupOld(r, new, rd, k)
        /\ \A j, k \in 1 .. n : new[j] = new[k] /\ new[j] # None => j = k
    BY DEF Grown
  <1>2. \A a : \A i \in 0 .. L : Latest(nx, wx, f, a, i) = Latest(nw, w, f, a, i)
    BY GrownLatest
  <1>3. \A i \in 0 .. L : Now(nx, wx, f, i) = Now(nw, w, f, i)
    BY <1>2 DEF Now
  <1>4. Agrees(t, nx, wx, f, 0, L)
    <2>1. 0 \in 0 .. L /\ L \in 0 .. L
      BY <1>1
    <2>2. {nx[k] : k \in 0 + 1 .. L} = {nw[k] : k \in 0 + 1 .. L}
      BY <1>1
    <2> QED
      BY <1>1, <1>2, <1>3, <2>1, <2>2 DEF Agrees
  <1>5. \A a \in Arch : f[a] \in t.valid
    <2>1. \A a \in Arch : Latest(nw, w, f, a, 0) = f[a]
      BY LatestNone
    <2> QED
      BY <1>1, <2>1 DEF Agrees, Now
  <1>6. \A k \in 1 .. L : nw[k] # None => nw[k] \in t.valid
    BY <1>1 DEF Agrees
  <1>7. \A k \in 1 .. L + n : k \in 1 .. L \/ \E i \in 1 .. n : k = L + i
    <2>1. \A k \in 1 .. L + n : k \in 1 .. L \/ (k - L \in 1 .. n /\ k = L + (k - L))
      BY <1>1
    <2> QED
      BY <2>1
  <1>8. t.valid \subseteq r.valid
    BY <1>1 DEF Hides
  <1>9. L + n \in Nat /\ f \in [Arch -> Phy] /\ \A a, b \in Arch : f[a] = f[b] => a = b
    BY <1>1 DEF Entries
  <1>10. ASSUME NEW k \in 1 .. L + n
         PROVE  /\ nx[k] \in Phy \cup {None} /\ wx[k] \in Arch \cup {None}
                /\ wx[k] = None <=> nx[k] = None
                /\ \A a \in Arch : nx[k] # f[a]
    <2>1. CASE k \in 1 .. L
      BY <1>1, <2>1 DEF Entries
    <2>2. ASSUME NEW i \in 1 .. n, k = L + i PROVE <1>10!2
      BY <1>1, <1>5, <1>8, <1>9, <2>2, NoneAssumption
    <2> QED
      BY <1>7, <2>1, <2>2
  <1>11. ASSUME NEW j \in 1 .. L + n, NEW k \in 1 .. L + n, nx[j] = nx[k], nx[j] # None PROVE j = k
    <2>1. \A i \in 1 .. L : \A l \in 1 .. n : nx[i] # None => nx[i] # nx[L + l]
      BY <1>1, <1>6, <1>8
    <2>2. CASE j \in 1 .. L /\ k \in 1 .. L
      BY <1>1, <1>11, <2>2 DEF Entries
    <2>3. ASSUME NEW i \in 1 .. n, NEW l \in 1 .. n, j = L + i, k = L + l PROVE j = k
      BY <1>1, <1>11, <2>3
    <2> QED
      BY <1>7, <1>11, <2>1, <2>2, <2>3
  <1>12. ASSUME NEW k \in 1 .. L + n
         PROVE  ox[k] = IF wx[k] = None THEN None ELSE Latest(nx, wx, f, wx[k], k - 1)
    <2>1. CASE k \in 1 .. L
      <3>1. k - 1 \in 0 .. L
        BY <1>1, <2>1
      <3>2. Latest(nx, wx, f, wx[k], k - 1) = Latest(nw, w, f, w[k], k - 1)
        BY <1>1, <1>2, <2>1, <3>1
      <3> QED
        BY <1>1, <2>1, <3>2 DEF Entries
    <2>2. ASSUME NEW i \in 1 .. n, k = L + i PROVE <1>12!2
      <3>1. ox[k] = GroupOld(r, new, rd, i) /\ wx[k] = rd[i] /\ rd[i] \in Arch \cup {None}
        BY <1>1, <2>2
      <3>2. CASE rd[i] = None
        BY <3>1, <3>2 DEF GroupOld
      <3>3. CASE rd[i] # None
        <4>1. rd[i] \in Arch
          BY <3>1, <3>3
        <4>2. Latest(nx, wx, f, rd[i], L + i - 1) = GroupOld(r, new, rd, i)
          BY <4>1, GrownLatest
        <4>3. k - 1 = L + i - 1
          BY <1>1, <2>2
        <4> QED
          BY <3>1, <3>3, <4>2, <4>3
      <3> QED
        BY <3>2, <3>3
    <2> QED
      BY <1>7, <2>1, <2>2
  <1>13. Entries(nx, ox, wx, f, L + n)
    BY <1>9, <1>10, <1>11, <1>12 DEF Entries
  <1> QED
    BY <1>3, <1>4, <1>13

(* The requests of the group, behind b others.                              *)
Queued(q, b, n, new, rd) ==
    /\ Len(q) \in Nat /\ b \in Nat /\ b + n <= Len(q)
    /\ \A k \in 1 .. n : q[b + k] = [op |-> "set_map", arch |-> rd[k], new |-> new[k]]

(* The set_map requests of the group, one after the other.                  *)
LEMMA GrownMap ==
    ASSUME NEW nw, NEW od, NEW w, NEW f, NEW L, NEW t, NEW r, NEW n, NEW new, NEW rd,
           NEW nx, NEW ox, NEW wx, Grown(nw, od, w, f, L, t, r, n, new, rd, nx, ox, wx),
           NEW u, NEW q, NEW b, Queued(q, b, n, new, rd), Tables(u, q)[b] = t, NEW i \in 0 .. n
    PROVE  Agrees(Tables(u, q)[b + i], nx, wx, f, 0, L + i)
  <1>1. /\ L \in Nat /\ n \in Nat /\ Len(q) \in Nat /\ b \in Nat /\ b + n <= Len(q)
        /\ \A k \in 1 .. n : nx[L + k] = new[k] /\ wx[L + k] = rd[k]
        /\ \A k \in 1 .. n : q[b + k] = [op |-> "set_map", arch |-> rd[k], new |-> new[k]]
    BY DEF Grown, Queued
  <1>2. Entries(nx, ox, wx, f, L + n) /\ Agrees(t, nx, wx, f, 0, L)
    BY GrownEntries
  <1>3. /\ L \in 0 .. L + n /\ i \in Nat /\ L + i <= L + n /\ b + i <= Len(q)
        /\ \A k \in 1 .. i : k \in 1 .. n
    BY <1>1
  <1>4. \A k \in 1 .. i : q[b + k] = Mapping(nx, wx, L + k)
    BY <1>1, <1>3 DEF Mapping
  <1>5. Agrees(Tables(u, q)[b], nx, wx, f, 0, L)
    BY <1>2
  <1> QED
    BY <1>1, <1>2, <1>3, <1>4, <1>5, MapMany

(* What rename saves in the checkpoints differs from the table only in the  *)
(* registers that are about to be freed.                                    *)
LEMMA GrownHides ==
    ASSUME NEW nw, NEW od, NEW w, NEW f, NEW L, NEW t, NEW r, NEW n, NEW new, NEW rd,
           NEW nx, NEW ox, NEW wx, Grown(nw, od, w, f, L, t, r, n, new, rd, nx, ox, wx),
           NEW q, Queued(q, 0, n, new, rd), NEW g \in 0 .. n
    PROVE  Hides(Tables(t, q)[g], Tables(r, q)[g])
  <1> DEFINE T == {i \in Nat : i <= n => Hides(Tables(t, q)[i], Tables(r, q)[i])}
  <1>1. /\ n \in Nat /\ Len(q) \in Nat /\ n <= Len(q) /\ Hides(t, r)
        /\ \A k \in 1 .. n : /\ q[k] = [op |-> "set_map", arch |-> rd[k], new |-> new[k]]
                             /\ new[k] \in Phy \cup {None} /\ rd[k] \in Arch \cup {None}
                             /\ (new[k] = None <=> rd[k] = None)
    <2>1. /\ n \in Nat /\ Len(q) \in Nat /\ 0 + n <= Len(q) /\ Hides(t, r)
          /\ \A k \in 1 .. n : 0 + k = k
          /\ \A k \in 1 .. n : q[0 + k] = [op |-> "set_map", arch |-> rd[k], new |-> new[k]]
      BY DEF Grown, Queued
    <2>2. \A k \in 1 .. n : /\ new[k] \in Phy \cup {None} /\ rd[k] \in Arch \cup {None}
                            /\ (new[k] = None <=> rd[k] = None)
      BY DEF Grown
    <2> QED
      BY <2>1, <2>2
  <1>2. 0 \in T
    BY <1>1, TablesNext
  <1>3. ASSUME NEW i \in Nat, i \in T PROVE i + 1 \in T
    <2>1. CASE i + 1 <= n
      <3> DEFINE x == Tables(t, q)[i]
                 y == Tables(r, q)[i]
                 req == q[i + 1]
      <3>1. i \in 0 .. Len(q) - 1 /\ i <= n /\ i + 1 \in 1 .. n
        BY <1>1, <2>1
      <3>2. Hides(x, y)
        BY <1>3, <3>1
      <3>3. Tables(t, q)[i + 1] = Apply(x, req) /\ Tables(r, q)[i + 1] = Apply(y, req)
        BY <1>1, <3>1, TablesNext
      <3>4. req = [op |-> "set_map", arch |-> rd[i + 1], new |-> new[i + 1]]
        BY <1>1, <3>1
      <3> HIDE DEF x, y, req
      <3>5. CASE new[i + 1] = None
        <4>1. Apply(x, req) = x /\ Apply(y, req) = y
          BY <3>4, <3>5 DEF Apply
        <4> QED
          BY <2>1, <3>2, <3>3, <4>1
      <3>6. CASE new[i + 1] # None
        <4>1. rd[i + 1] \in Arch /\ new[i + 1] \in Phy
          BY <1>1, <3>1, <3>6
        <4>2. /\ Apply(x, req) = set_map(x, rd[i + 1], new[i + 1])
              /\ Apply(y, req) = set_map(y, rd[i + 1], new[i + 1])
          BY <3>4, <3>6 DEF Apply
        <4>3. Hides(Apply(x, req), Apply(y, req))
          BY <3>2, <4>1, <4>2, HidesOne
        <4> QED
          BY <2>1, <3>3, <4>3
      <3> QED
        BY <3>5, <3>6
    <2>2. CASE ~ (i + 1 <= n)
      BY <2>2
    <2> QED
      BY <2>1, <2>2
  <1>4. g \in Nat
    BY <1>1
  <1>5. g \in T
    <2> HIDE DEF T
    <2> QED
      BY <1>2, <1>3, <1>4, NatInductionSet
  <1> QED
    BY <1>1, <1>5

(* The checkpoint of the k-th instruction of the group.                     *)
LEMMA GrownCp ==
    ASSUME NEW nw, NEW od, NEW w, NEW f, NEW L, NEW t, NEW r, NEW n, NEW new, NEW rd,
           NEW nx, NEW ox, NEW wx, Grown(nw, od, w, f, L, t, r, n, new, rd, nx, ox, wx),
           NEW q, Queued(q, 0, n, new, rd), NEW g \in 1 .. n
    PROVE  LET y == Tables(r, q)[g]
           IN  /\ y \in RatType /\ y.visible = Now(nx, wx, f, L + g) /\ y.visible \subseteq y.valid
               /\ ox[L + g] # None => ox[L + g] \in y.valid
  <1> DEFINE x == Tables(t, q)[g]
             y == Tables(r, q)[g]
  <1>1. L \in Nat /\ n \in Nat /\ g \in 0 .. n /\ Len(q) \in Nat /\ L + g \in 1 .. L + n /\ g \in Nat
    BY DEF Grown, Queued
  <1>2. Hides(x, y)
    BY <1>1, GrownHides
  <1>3. Tables(t, q)[0] = t
    BY <1>1, TablesNext
  <1>4. Agrees(x, nx, wx, f, 0, L + g)
    <2>1. \A b : Queued(q, b, n, new, rd) /\ Tables(t, q)[b] = t =>
             Agrees(Tables(t, q)[b + g], nx, wx, f, 0, L + g)
      BY <1>1, GrownMap
    <2>2. 0 + g = g
      BY <1>1
    <2> QED
      BY <1>3, <2>1, <2>2
  <1>5. Entries(nx, ox, wx, f, L + n)
    BY GrownEntries
  <1> HIDE DEF x, y
  <1>6. ASSUME ox[L + g] # None PROVE ox[L + g] \in x.valid
    <2> DEFINE k == L + g
               a == wx[k]
    <2>1. a \in Arch /\ ox[k] = Latest(nx, wx, f, a, k - 1)
      BY <1>1, <1>5, <1>6 DEF Entries
    <2>2. x.valid = Now(nx, wx, f, 0) \cup ({nx[j] : j \in 1 .. k} \ {None})
      <3>1. 0 + 1 = 1
        OBVIOUS
      <3> QED
        BY <1>4, <3>1 DEF Agrees
    <2>3. k - 1 \in Nat /\ k - 1 \in 0 .. L + n
      BY <1>1
    <2>4. Latest(nx, wx, f, a, k - 1) \in Phy
      BY <1>5, <2>1, <2>3, LatestTyped
    <2> HIDE DEF a
    <2>5. CASE Latest(nx, wx, f, a, k - 1) = f[a]
      BY <2>1, <2>2, <2>5, NowArf
    <2>6. ASSUME NEW j \in 1 .. k - 1, Latest(nx, wx, f, a, k - 1) = nx[j] PROVE ox[k] \in x.valid
      <3>1. j \in 1 .. k
        BY <1>1
      <3> QED
        BY <2>1, <2>2, <2>4, <2>6, <3>1, NoneAssumption
    <2> QED
      BY <2>3, <2>5, <2>6, LatestCases
  <1> QED
    BY <1>2, <1>4, <1>6 DEF Hides, Agrees, y

(* The size of the group.                                                   *)
LEMMA RenameNumIs ==
    ASSUME TypeOK
    PROVE  /\ RenameNum \in Nat /\ RenameNum \in 0 .. Len(fifo) /\ Len(fifo) \in Nat
           /\ rob.cnt + RenameNum <= RobSize
  <1> DEFINE T == {m \in 0 .. RenameWidth : m <= Len(fifo) /\ Renamable(m)}
  <1>1. /\ Len(fifo) \in Nat /\ RenameWidth \in Nat /\ rob.cnt \in Nat /\ RobSize \in Nat
        /\ rob.cnt <= RobSize
    BY SizesAssumption, LenProperties DEF TypeOK
  <1>2. 0 \in T
    BY <1>1 DEF Renamable
  <1>3. PICK x \in T : \A y \in T : y <= x
    <2>1. T \subseteq 0 .. RenameWidth /\ T # {}
      BY <1>2
    <2> HIDE DEF T
    <2> QED
      BY <1>1, <2>1, Greatest
  <1>4. /\ x \in 0 .. RenameWidth /\ x <= Len(fifo) /\ Renamable(x)
        /\ \A m \in x + 1 .. RenameWidth : ~ (m <= Len(fifo) /\ Renamable(m))
    <2>1. \A m \in x + 1 .. RenameWidth : m \in 0 .. RenameWidth /\ ~ (m <= x)
      BY <1>1
    <2> QED
      BY <1>3, <2>1
  <1>5. /\ RenameNum \in 0 .. RenameWidth /\ RenameNum <= Len(fifo) /\ Renamable(RenameNum)
    BY <1>4 DEF RenameNum
  <1>6. CASE RenameNum = 0
    BY <1>1, <1>5, <1>6
  <1>7. CASE RenameNum # 0
    <2>1. RenameNum \in 1 .. RenameNum
      BY <1>1, <1>5, <1>7
    <2>2. RenameNum <= get_free_space
      BY <1>5, <2>1 DEF Renamable
    <2> QED
      BY <1>1, <1>5, <2>2 DEF get_free_space
  <1> QED
    BY <1>6, <1>7

(* The entries with the group behind them.                                  *)
NewWith(new, n) == [k \in 1 .. Left + n |-> IF k <= Left THEN New[k] ELSE new[k - Left]]
OldWith(new, n) == [k \in 1 .. Left + n |-> IF k <= Left THEN Old[k] ELSE OldPhy(new, k - Left)]
DestWith(n) == [k \in 1 .. Left + n |-> IF k <= Left THEN Dest[k] ELSE fifo[k - Left].rd]
Rds(n) == [k \in 1 .. n |-> fifo[k].rd]

Choice(n, new) ==
    /\ stage = "rename" /\ ~ feedback.flush
    /\ n \in Nat /\ n \in 0 .. Len(fifo) /\ rob.cnt + n <= RobSize
    /\ new \in Allocations(n)

(* The instructions of the fifo.                                            *)
LEMMA FifoOps ==
    ASSUME TypeOK, NEW k \in 1 .. Len(fifo)
    PROVE  fifo[k] \in Op /\ fifo[k].rd \in Arch \cup {None} /\ fifo[k].cp \in CpId \cup {None}
           /\ fifo[k].kind \in Kind
  <1>1. fifo[k] \in Op
    BY ElementOfSeq DEF TypeOK
  <1> QED
    BY <1>1 DEF Op

(* Rename runs when no flush is going on.                                   *)
LEMMA ChoiceCalm ==
    ASSUME RenameInv, NEW n, NEW new, Choice(n, new)
    PROVE  /\ cur_state = "normal" /\ Calm /\ cp_q.set = << >> /\ Hides(Table, rat)
           /\ rob_q.pop <= rob.cnt /\ (cp_q.pop => cpb.cnt > 0)
           /\ Left \in Nat /\ Standing = Left
           /\ Entries(New, Old, Dest, arf, Left) /\ Agrees(Table, New, Dest, arf, 0, Left)
  <1>1. TypeOK /\ Queues /\ Pass /\ MapInv /\ Ahead
    BY DEF RenameInv
  <1>2. stage = "rename" /\ ~ feedback.flush
    BY DEF Choice
  <1>3. cur_state = "normal" /\ cp_q.set = << >>
    BY <1>1, <1>2 DEF Pass
  <1>4. Calm
    BY <1>2, <1>3 DEF Calm
  <1>5. rob_q.pop <= rob.cnt /\ (cp_q.pop => cpb.cnt > 0)
    BY <1>1, <1>4 DEF Pass
  <1>6. Hides(Table, rat)
    BY <1>1, <1>2, <1>4 DEF Ahead
  <1>7. Left \in Nat /\ Standing = Left
    BY <1>1, <1>3, NewIs
  <1> QED
    BY <1>1, <1>3, <1>4, <1>5, <1>6, <1>7, TableTyped

(* The group of a pass.                                                     *)
LEMMA ChoiceGrown ==
    ASSUME RenameInv, NEW n, NEW new, Choice(n, new)
    PROVE  /\ Grown(New, Old, Dest, arf, Left, Table, rat, n, new, Rds(n),
                    NewWith(new, n), OldWith(new, n), DestWith(n))
           /\ \A k \in 1 .. n : /\ k \in 1 .. Len(fifo)
                                /\ NewWith(new, n)[Left + k] = new[k]
                                /\ OldWith(new, n)[Left + k] = OldPhy(new, k)
                                /\ DestWith(n)[Left + k] = fifo[k].rd
                                /\ new[k] \in Phy \cup {None} /\ OldPhy(new, k) \in Phy \cup {None}
                                /\ new[k] \notin rat.valid
                                /\ (fifo[k].rd # None => Cardinality(Mapped(rat, fifo[k].rd)) = 1)
           /\ \A k \in 1 .. Left : NewWith(new, n)[k] = New[k] /\ OldWith(new, n)[k] = Old[k]
                                   /\ DestWith(n)[k] = Dest[k]
  <1> DEFINE nx == NewWith(new, n)
             ox == OldWith(new, n)
             wx == DestWith(n)
             rd == Rds(n)
  <1>1. /\ TypeOK /\ Left \in Nat /\ Entries(New, Old, Dest, arf, Left)
        /\ Agrees(Table, New, Dest, arf, 0, Left) /\ Hides(Table, rat)
    BY ChoiceCalm DEF RenameInv
  <1>2. n \in Nat /\ n \in 0 .. Len(fifo) /\ Len(fifo) \in Nat /\ new \in Allocations(n)
    BY <1>1, RenameNumIs DEF Choice
  <1>3. /\ \A k \in 1 .. n : /\ k \in 1 .. Len(fifo) /\ Left + k \in 1 .. Left + n
                             /\ ~ (Left + k <= Left) /\ (Left + k) - Left = k
        /\ \A k \in 1 .. Left : k \in 1 .. Left + n /\ k <= Left
    BY <1>1, <1>2
  <1>4. /\ \A k \in 1 .. n : new[k] \in Free(rat) \cup {None} /\ (new[k] = None <=> fifo[k].rd = None)
        /\ \A j, k \in 1 .. n : j # k /\ new[j] = new[k] => new[j] = None
    BY <1>2 DEF Allocations
  <1>5. \A k \in 1 .. n : nx[Left + k] = new[k] /\ wx[Left + k] = fifo[k].rd /\ rd[k] = fifo[k].rd
    BY <1>3 DEF NewWith, DestWith, Rds
  <1>6. \A k \in 1 .. n : ox[Left + k] = OldPhy(new, k)
    <2> TAKE k \in 1 .. n
    <2>1. ox[Left + k] = OldPhy(new, (Left + k) - Left)
      BY <1>3 DEF OldWith
    <2>2. (Left + k) - Left = k
      BY <1>3
    <2> QED
      BY <2>1, <2>2
  <1>7. \A k \in 1 .. Left : nx[k] = New[k] /\ ox[k] = Old[k] /\ wx[k] = Dest[k]
    BY <1>3 DEF NewWith, OldWith, DestWith
  <1>8. \A k \in 1 .. n : fifo[k].rd \in Arch \cup {None}
    BY <1>1, <1>3, FifoOps
  <1>9. \A k \in 1 .. n : OldPhy(new, k) = GroupOld(rat, new, rd, k)
    <2> TAKE k \in 1 .. n
    <2>1. GroupWriters(k) = {j \in 1 .. k - 1 : rd[j] = rd[k]}
      <3>1. \A j \in 1 .. k - 1 : j \in 1 .. n
        BY <1>2
      <3> QED
        BY <1>5, <3>1 DEF GroupWriters
    <2> QED
      BY <1>5, <2>1 DEF OldPhy, GroupOld
  <1>10. Grown(New, Old, Dest, arf, Left, Table, rat, n, new, rd, nx, ox, wx)
    <2> HIDE DEF nx, ox, wx, rd
    <2>1. \A k \in 1 .. n : /\ new[k] \in (Phy \ rat.valid) \cup {None} /\ rd[k] \in Arch \cup {None}
                            /\ (new[k] = None <=> rd[k] = None)
                            /\ nx[Left + k] = new[k] /\ wx[Left + k] = rd[k]
                            /\ ox[Left + k] = GroupOld(rat, new, rd, k)
      BY <1>4, <1>5, <1>6, <1>8, <1>9 DEF Free
    <2>2. \A j, k \in 1 .. n : new[j] = new[k] /\ new[j] # None => j = k
      BY <1>4
    <2> QED
      BY <1>1, <1>2, <1>7, <2>1, <2>2 DEF Grown
  <1>11. \A k \in 1 .. n : OldPhy(new, k) \in Phy \cup {None}
    <2> TAKE k \in 1 .. n
    <2>1. Entries(nx, ox, wx, arf, Left + n)
      BY <1>10, GrownEntries
    <2>2. Left + k \in 1 .. Left + n /\ (Left + k) - 1 \in 0 .. Left + n
      BY <1>1, <1>2, <1>3
    <2> HIDE DEF nx, ox, wx
    <2>3. /\ wx[Left + k] \in Arch \cup {None}
          /\ ox[Left + k] = IF wx[Left + k] = None THEN None
                            ELSE Latest(nx, wx, arf, wx[Left + k], (Left + k) - 1)
      BY <2>1, <2>2 DEF Entries
    <2>4. CASE wx[Left + k] = None
      BY <1>6, <2>3, <2>4
    <2>5. CASE wx[Left + k] # None
      <3>1. wx[Left + k] \in Arch
        BY <2>3, <2>5
      <3>2. Latest(nx, wx, arf, wx[Left + k], (Left + k) - 1) \in Phy
        BY <2>1, <2>2, <3>1, LatestTyped
      <3> QED
        BY <1>6, <2>3, <2>5, <3>2
    <2> QED
      BY <2>4, <2>5
  <1>12. \A k \in 1 .. n : new[k] \in Phy \cup {None} /\ new[k] \notin rat.valid
    <2>1. rat.valid \subseteq Phy
      BY <1>1 DEF TypeOK, RatType
    <2> QED
      BY <1>4, <2>1, NoneAssumption DEF Free
  <1>13. \A k \in 1 .. n : fifo[k].rd # None => Cardinality(Mapped(rat, fifo[k].rd)) = 1
    BY <1>1, <1>8, HidesMapped
  <1> QED
    BY <1>3, <1>5, <1>6, <1>7, <1>10, <1>11, <1>12, <1>13

NewOps(new, n) == {[rob_id |-> NewRobId(k), rd_phy |-> new[k],
                    kind |-> fifo[k].kind, cp |-> fifo[k].cp] : k \in 1 .. n}
Placed(n, new) == rob' = [rob EXCEPT !.buf = [i \in RobId |->
                                   IF \E k \in 1 .. n : NewRobId(k) = i
                                   THEN NewItem(new, CHOOSE k \in 1 .. n : NewRobId(k) = i)
                                   ELSE @[i]],
                                 !.cnt = @ + n]

(* A new ROB entry.                                                         *)
LEMMA NewItemIs ==
    ASSUME RenameInv, NEW n, NEW new, Choice(n, new), NEW k \in 1 .. n
    PROVE  /\ NewItem(new, k) \in RobItem
           /\ NewItem(new, k).new = new[k] /\ NewItem(new, k).old = OldPhy(new, k)
           /\ NewItem(new, k).finish = FALSE /\ NewItem(new, k).has_exception = FALSE
           /\ NewItem(new, k).miss = FALSE
  <1>1. new[k] \in Phy \cup {None} /\ OldPhy(new, k) \in Phy \cup {None}
    BY ChoiceGrown
  <1> QED
    BY <1>1 DEF NewItem, RobItem

(* The ids of the group are the next ones of the ring.                      *)
LEMMA NewIds ==
    ASSUME RenameInv, NEW n, NEW new, Choice(n, new)
    PROVE  /\ \A k \in 1 .. n : /\ NewRobId(k) = Ring(rob.rptr, rob.cnt + k) /\ NewRobId(k) \in RobId
                                /\ rob.cnt + k \in 1 .. RobSize
           /\ \A j, k \in 1 .. n : NewRobId(j) = NewRobId(k) => j = k
           /\ \A j \in 1 .. rob.cnt : \A k \in 1 .. n : Ring(rob.rptr, j) # NewRobId(k)
           /\ \A j \in 1 .. Left : \A k \in 1 .. n : Ids[j] # NewRobId(k)
           /\ \A j, k \in 1 .. Left : Ids[j] = Ids[k] => j = k
  <1>1. TypeOK /\ Queues
    BY DEF RenameInv
  <1>2. /\ rob.rptr \in RobId /\ rob.cnt \in 0 .. RobSize /\ RobSize \in Nat \ {0}
        /\ Pops \in 0 .. RobSize /\ Left \in 0 .. RobSize /\ Pops + Left = rob.cnt
        /\ \A k \in 1 .. Left : Pops + k \in 1 .. rob.cnt /\ Pops + k \in 1 .. RobSize
        /\ \A k \in 1 .. Left : Ids[k] = Ring(rob.rptr, Pops + k)
    BY <1>1, RobFields
  <1>3. n \in Nat /\ rob.cnt + n <= RobSize
    BY DEF Choice
  <1>4. ASSUME NEW k \in 1 .. n
        PROVE  /\ rob.cnt + k \in 1 .. RobSize /\ NewRobId(k) = Ring(rob.rptr, rob.cnt + k)
               /\ NewRobId(k) \in RobId
    <2>1. rob.cnt + k \in 1 .. RobSize /\ rob.cnt + k \in 1 .. RobSize + 1
      BY <1>2, <1>3
    <2>2. rob.rptr \in Int /\ rob.rptr + rob.cnt + k - 1 = rob.rptr + (rob.cnt + k) - 1
      BY <1>2, <2>1 DEF RobId
    <2>3. NewRobId(k) = Ring(rob.rptr, rob.cnt + k)
      BY <2>2 DEF NewRobId, Ring
    <2> QED
      BY <1>2, <2>1, <2>3, RingIs
  <1>5. ASSUME NEW j \in 1 .. n, NEW k \in 1 .. n, NewRobId(j) = NewRobId(k) PROVE j = k
    <2>1. rob.cnt + j = rob.cnt + k
      BY <1>2, <1>4, <1>5, RingInjective
    <2> QED
      BY <1>2, <1>3, <2>1
  <1>6. ASSUME NEW j \in 1 .. rob.cnt, NEW k \in 1 .. n PROVE Ring(rob.rptr, j) # NewRobId(k)
    <2>1. j \in 1 .. RobSize /\ j # rob.cnt + k
      BY <1>2, <1>3
    <2> QED
      BY <1>2, <1>4, <2>1, RingInjective
  <1>7. ASSUME NEW j \in 1 .. Left, NEW k \in 1 .. n PROVE Ids[j] # NewRobId(k)
    BY <1>2, <1>6
  <1>8. ASSUME NEW j \in 1 .. Left, NEW k \in 1 .. Left, Ids[j] = Ids[k] PROVE j = k
    <2>1. Pops + j = Pops + k
      BY <1>2, <1>8, RingInjective
    <2> QED
      BY <1>2, <2>1
  <1> QED
    BY <1>4, <1>5, <1>6, <1>7, <1>8

(* The ROB with the group.                                                  *)
LEMMA RenamedRob ==
    ASSUME RenameInv, NEW n, NEW new, Choice(n, new), Placed(n, new), rob_q' = rob_q
    PROVE  /\ rob' \in [buf : [RobId -> RobItem \cup {NoItem}], rptr : RobId, cnt : 0 .. RobSize]
           /\ rob'.cnt = rob.cnt + n /\ rob'.rptr = rob.rptr
           /\ Pops' = Pops /\ Left' = Left + n
           /\ \A k \in 1 .. Left : /\ k \in 1 .. Left + n /\ Ids'[k] = Ids[k] /\ Es'[k] = Es[k]
                                   /\ rob'.buf[Ids'[k]] \in RobItem
           /\ \A k \in 1 .. n : /\ Ids'[Left + k] = NewRobId(k) /\ Es'[Left + k] = NewItem(new, k)
                                /\ rob'.buf[Ids'[Left + k]] \in RobItem
  <1>1. TypeOK /\ Queues
    BY DEF RenameInv
  <1>2. /\ rob.rptr \in RobId /\ rob.cnt \in 0 .. RobSize /\ RobSize \in Nat \ {0}
        /\ rob.buf \in [RobId -> RobItem \cup {NoItem}]
        /\ Pops \in 0 .. RobSize /\ Left \in 0 .. RobSize /\ Pops + Left = rob.cnt
        /\ \A k \in 1 .. Left : /\ Pops + k \in 1 .. rob.cnt
                                /\ Ids[k] = Ring(rob.rptr, Pops + k) /\ Ids[k] \in RobId
                                /\ Es[k] = After(Ids[k], rob.buf, rob_q.done)
    BY <1>1, RobFields
  <1>3. n \in Nat /\ rob.cnt + n <= RobSize
    BY DEF Choice
  <1> DEFINE item(i) == IF \E k \in 1 .. n : NewRobId(k) = i
                        THEN NewItem(new, CHOOSE k \in 1 .. n : NewRobId(k) = i) ELSE rob.buf[i]
  <1>4. rob'.buf = [i \in RobId |-> item(i)] /\ rob'.cnt = rob.cnt + n /\ rob'.rptr = rob.rptr
    BY <1>1 DEF Placed, TypeOK
  <1>5. \A k \in 1 .. n : rob'.buf[NewRobId(k)] = NewItem(new, k)
    <2> TAKE k \in 1 .. n
    <2>1. (CHOOSE j \in 1 .. n : NewRobId(j) = NewRobId(k)) = k
      BY NewIds
    <2>2. item(NewRobId(k)) = NewItem(new, k)
      BY <2>1
    <2> HIDE DEF item
    <2> QED
      BY <1>4, <2>2, NewIds
  <1>6. \A k \in 1 .. Left : rob'.buf[Ids[k]] = rob.buf[Ids[k]]
    BY <1>2, <1>4, NewIds
  <1>7. rob' \in [buf : [RobId -> RobItem \cup {NoItem}], rptr : RobId, cnt : 0 .. RobSize]
    <2>1. ASSUME NEW i \in RobId PROVE item(i) \in RobItem \cup {NoItem}
      <3>1. CASE \E k \in 1 .. n : NewRobId(k) = i
        <4>1. (CHOOSE k \in 1 .. n : NewRobId(k) = i) \in 1 .. n
          BY <3>1
        <4> QED
          BY <3>1, <4>1, NewItemIs
      <3>2. CASE ~ \E k \in 1 .. n : NewRobId(k) = i
        BY <1>2, <3>2
      <3> QED
        BY <3>1, <3>2
    <2> HIDE DEF item
    <2>2. rob'.buf \in [RobId -> RobItem \cup {NoItem}]
      BY <1>4, <2>1
    <2>3. rob'.cnt \in 0 .. RobSize /\ rob'.rptr \in RobId
      BY <1>2, <1>3, <1>4
    <2>4. rob' = [buf |-> rob'.buf, rptr |-> rob'.rptr, cnt |-> rob'.cnt]
      BY <1>1 DEF Placed, TypeOK
    <2> QED
      BY <2>2, <2>3, <2>4
  <1> HIDE DEF item
  <1>8. Pops' = Pops
    <2>1. rob.cnt = 0 => rob_q.pop = 0
      <3>1. rob_q.pop <= rob.cnt /\ rob_q.pop \in Nat
        BY <1>1, ChoiceCalm, SizesAssumption DEF Queues
      <3> QED
        BY <3>1
    <2>2. rob.cnt # 0 => rob'.cnt # 0
      BY <1>2, <1>3, <1>4
    <2> QED
      BY <1>4, <2>1, <2>2 DEF Pops
  <1>9. Left' = Left + n
    BY <1>2, <1>3, <1>4, <1>8 DEF Left
  <1>10. \A k \in 1 .. Left + n : Ids'[k] = Ring(rob.rptr, Pops + k)
    BY <1>4, <1>8, <1>9 DEF Ids
  <1>11. \A k \in 1 .. Left + n : Es'[k] = After(Ids'[k], rob'.buf, rob_q.done)
    BY <1>4, <1>8, <1>9, <1>10 DEF Es
  <1>12. ASSUME NEW k \in 1 .. Left
         PROVE  /\ k \in 1 .. Left + n /\ Ids'[k] = Ids[k] /\ Es'[k] = Es[k]
                /\ rob'.buf[Ids'[k]] \in RobItem
    <2>1. k \in 1 .. Left + n
      BY <1>2, <1>3
    <2>2. Ids'[k] = Ids[k]
      BY <1>2, <1>10, <2>1
    <2>3. Es'[k] = Es[k]
      <3>1. Es'[k] = After(Ids[k], rob'.buf, rob_q.done) /\ Es[k] = After(Ids[k], rob.buf, rob_q.done)
        BY <1>2, <1>11, <2>1, <2>2
      <3>2. rob'.buf[Ids[k]] = rob.buf[Ids[k]]
        BY <1>6
      <3>3. ASSUME NEW i, NEW b, NEW c, b[i] = c[i] PROVE After(i, b, rob_q.done) = After(i, c, rob_q.done)
        BY <3>3 DEF After
      <3> QED
        BY <3>1, <3>2, <3>3
    <2>4. rob.buf[Ids[k]] \in RobItem
      BY <1>1 DEF Queues
    <2> QED
      BY <1>6, <2>1, <2>2, <2>3, <2>4
  <1>13. ASSUME NEW k \in 1 .. n
         PROVE  /\ Ids'[Left + k] = NewRobId(k) /\ Es'[Left + k] = NewItem(new, k)
                /\ rob'.buf[Ids'[Left + k]] \in RobItem
    <2>1. Left + k \in 1 .. Left + n /\ Pops + (Left + k) = rob.cnt + k
      BY <1>2, <1>3
    <2>2. Ids'[Left + k] = NewRobId(k)
      BY <1>10, <2>1, NewIds
    <2>3. \A r \in rob_q.done : r.op.rob_id # NewRobId(k)
      BY <1>1, NewIds DEF Queues
    <2>4. Es'[Left + k] = NewItem(new, k)
      BY <1>5, <1>11, <2>1, <2>2, <2>3 DEF After
    <2>5. rob'.buf[Ids'[Left + k]] = NewItem(new, k)
      BY <1>5, <2>2
    <2>6. NewItem(new, k) \in RobItem
      BY NewItemIs
    <2> QED
      BY <2>2, <2>4, <2>5, <2>6
  <1> QED
    BY <1>4, <1>7, <1>8, <1>9, <1>12, <1>13

(* The requests of the group.                                               *)
LEMMA MapQueue ==
    ASSUME RenameInv, NEW n, NEW new, Choice(n, new), NEW m \in 0 .. n
    PROVE  /\ MapRequests(new, m) \in Seq(Request) /\ Len(MapRequests(new, m)) = m /\ m \in Nat
           /\ \A k \in 1 .. m : /\ k \in 1 .. n
                                /\ MapRequests(new, m)[k] =
                                      [op |-> "set_map", arch |-> Rds(n)[k], new |-> new[k]]
  <1> DEFINE q == MapRequests(new, m)
  <1>1. n \in Nat /\ m \in Nat /\ TypeOK
    BY DEF Choice, RenameInv
  <1>2. \A k \in 1 .. m : k \in 1 .. n
    BY <1>1
  <1>3. ASSUME NEW k \in 1 .. m
        PROVE  q[k] = [op |-> "set_map", arch |-> Rds(n)[k], new |-> new[k]] /\ q[k] \in Request
    <2>1. k \in 1 .. Len(fifo) /\ new[k] \in Phy \cup {None}
      BY <1>2, ChoiceGrown
    <2>2. fifo[k].rd \in Arch \cup {None}
      BY <1>1, <2>1, FifoOps
    <2>3. q[k] = [op |-> "set_map", arch |-> fifo[k].rd, new |-> new[k]]
      BY DEF MapRequests
    <2>4. q[k] \in [op : {"set_map"}, arch : Arch \cup {None}, new : Phy \cup {None}]
      BY <2>1, <2>2, <2>3
    <2>5. Rds(n)[k] = fifo[k].rd
      BY <1>2 DEF Rds
    <2> QED
      BY <2>3, <2>4, <2>5 DEF Request
  <1>4. q \in Seq(Request) /\ Len(q) = m
    <2>1. q = [k \in 1 .. m |-> q[k]]
      BY DEF MapRequests
    <2> QED
      BY <1>1, <1>3, <2>1, IsASeq
  <1> QED
    BY <1>1, <1>2, <1>3, <1>4

(* The table with the requests of commit and of the group applied.          *)
LEMMA RenamedTable ==
    ASSUME RenameInv, NEW n, NEW new, Choice(n, new)
    PROVE  /\ rat_q \o MapRequests(new, n) \in Seq(Request)
           /\ Agrees(Applied(rat, rat_q \o MapRequests(new, n)),
                     NewWith(new, n), DestWith(n), arf, 0, Left + n)
  <1> DEFINE g == MapRequests(new, n)
             q == rat_q \o g
             b == Len(rat_q)
  <1>1. n \in Nat /\ n \in 0 .. n
    BY DEF Choice
  <1>2. rat_q \in Seq(Request) /\ b \in Nat
    BY LenProperties DEF RenameInv, TypeOK
  <1>3. /\ g \in Seq(Request) /\ Len(g) = n
        /\ \A k \in 1 .. n : g[k] = [op |-> "set_map", arch |-> Rds(n)[k], new |-> new[k]]
    BY <1>1, MapQueue
  <1>4. /\ q \in Seq(Request) /\ Len(q) = b + n
        /\ \A i \in 1 .. b + n : q[i] = IF i <= b THEN rat_q[i] ELSE g[i - b]
    <2> HIDE DEF g
    <2> QED
      BY <1>2, <1>3, ConcatProperties
  <1> HIDE DEF g, q, b
  <1>5. \A k \in 1 .. n : q[b + k] = [op |-> "set_map", arch |-> Rds(n)[k], new |-> new[k]]
    <2> TAKE k \in 1 .. n
    <2>1. b + k \in 1 .. b + n /\ ~ (b + k <= b) /\ (b + k) - b = k
      BY <1>1, <1>2
    <2>2. q[b + k] = g[(b + k) - b]
      BY <1>4, <2>1
    <2>3. q[b + k] = g[k]
      BY <2>1, <2>2
    <2> QED
      BY <1>3, <2>3
  <1>6. Queued(q, b, n, new, Rds(n))
    BY <1>1, <1>2, <1>4, <1>5 DEF Queued
  <1>7. Tables(rat, q)[b] = Table
    <2>1. \A k \in 1 .. b : q[k] = rat_q[k]
      BY <1>1, <1>2, <1>4
    <2>2. Len(q) \in Nat /\ Len(rat_q) \in Nat /\ b <= Len(q) /\ b <= Len(rat_q)
      BY <1>1, <1>2, <1>4 DEF b
    <2>3. Tables(rat, q)[b] = Tables(rat, rat_q)[b]
      BY <1>2, <2>1, <2>2, TablesSame
    <2> QED
      BY <2>3 DEF Table, Applied, b
  <1>8. Agrees(Tables(rat, q)[b + n], NewWith(new, n), DestWith(n), arf, 0, Left + n)
    BY <1>1, <1>6, <1>7, ChoiceGrown, GrownMap
  <1>9. Applied(rat, q) = Tables(rat, q)[b + n]
    BY <1>4 DEF Applied
  <1> QED
    BY <1>4, <1>8, <1>9 DEF q, g

(* The mapping with the group.                                              *)
LEMMA RenamedMap ==
    ASSUME RenameInv, NEW n, NEW new, Choice(n, new), Placed(n, new), rob_q' = rob_q,
           rat' = rat, rat_q' = rat_q \o MapRequests(new, n), arf' = arf, cur_state' = cur_state
    PROVE  /\ MapInv' /\ Standing' = Left + n
           /\ \A i \in 0 .. Left + n : Now(New', Dest', arf, i) = Now(NewWith(new, n), DestWith(n), arf, i)
           /\ \A i \in 0 .. Left : Now(New', Dest', arf, i) = Now(New, Dest, arf, i)
           /\ Table'.valid = Table.valid \cup ({new[k] : k \in 1 .. n} \ {None})
  <1> DEFINE nx == NewWith(new, n)
             ox == OldWith(new, n)
             wx == DestWith(n)
             m == Left + n
  <1>1. n \in Nat /\ Left \in Nat /\ cur_state = "normal" /\ Standing = Left
    BY ChoiceCalm DEF Choice
  <1>2. Standing' = m
    <2>1. Left' = Left + n
      BY RenamedRob
    <2> QED
      BY <1>1, <2>1 DEF Standing
  <1>3. \A k \in 1 .. m : k \in 1 .. Left \/ \E i \in 1 .. n : k = Left + i
    <2>1. \A k \in 1 .. m : k \in 1 .. Left \/ (k - Left \in 1 .. n /\ k = Left + (k - Left))
      BY <1>1
    <2> QED
      BY <2>1
  <1>4. ASSUME NEW k \in 1 .. m PROVE New'[k] = nx[k] /\ Old'[k] = ox[k]
    <2>1. New'[k] = Es'[k].new /\ Old'[k] = Es'[k].old
      BY <1>2 DEF New, Old
    <2>2. CASE k \in 1 .. Left
      <3>1. New[k] = Es[k].new /\ Old[k] = Es[k].old
        BY <1>1, <2>2, NewIs DEF RenameInv
      <3>2. Es'[k] = Es[k]
        BY <2>2, RenamedRob
      <3>3. nx[k] = New[k] /\ ox[k] = Old[k]
        BY <2>2, ChoiceGrown
      <3> QED
        BY <2>1, <3>1, <3>2, <3>3
    <2>3. ASSUME NEW i \in 1 .. n, k = Left + i PROVE <1>4!2
      <3>1. Es'[Left + i] = NewItem(new, i)
        BY RenamedRob
      <3>2. NewItem(new, i).new = new[i] /\ NewItem(new, i).old = OldPhy(new, i)
        BY NewItemIs, ZenonT(30)
      <3>3. nx[Left + i] = new[i] /\ ox[Left + i] = OldPhy(new, i)
        BY ChoiceGrown
      <3> QED
        BY <2>1, <2>3, <3>1, <3>2, <3>3
    <2> QED
      BY <1>3, <2>2, <2>3
  <1>5. Grown(New, Old, Dest, arf, Left, Table, rat, n, new, Rds(n), nx, ox, wx)
    BY ChoiceGrown
  <1>6. Entries(nx, ox, wx, arf, m) /\ \A i \in 0 .. Left : Now(nx, wx, arf, i) = Now(New, Dest, arf, i)
    BY <1>5, GrownEntries
  <1>7. Table' = Applied(rat, rat_q \o MapRequests(new, n))
    BY DEF Table
  <1>8. Agrees(Table', nx, wx, arf, 0, m)
    BY <1>7, RenamedTable
  <1> HIDE DEF nx, ox, wx
  <1>9. Keeps(nx, ox, wx, arf, m, 0, m, Table', New', Old', arf)
    <2>1. 0 \in Nat /\ m \in Nat /\ 0 + m <= m /\ 0 + m = m
      BY <1>1
    <2>2. Agrees(Table', nx, wx, arf, 0, 0 + m)
      BY <1>8, <2>1
    <2>3. \A k \in 1 .. m : 0 + k = k
      BY <1>1
    <2>4. \A k \in 1 .. m : New'[k] = nx[0 + k] /\ Old'[k] = ox[0 + k]
      BY <1>4, <2>3
    <2>5. arf \in [Arch -> Phy] /\ \A a \in Arch : arf[a] = Latest(nx, wx, arf, a, 0)
      BY <1>6, LatestNone DEF Entries
    <2> QED
      BY <1>6, <2>1, <2>2, <2>4, <2>5 DEF Keeps
  <1>10. /\ MapOK(Table', New', Old', arf, m)
         /\ \A i \in 0 .. m : Now(New', Writes(Table', New', m), arf, i) = Now(nx, wx, arf, i)
    <2>1. /\ MapOK(Table', New', Old', arf, m)
          /\ \A i \in 0 .. m : Now(New', Writes(Table', New', m), arf, i) = Now(nx, wx, arf, 0 + i)
      BY <1>9, MapPart
    <2>2. \A i \in 0 .. m : 0 + i = i
      BY <1>1
    <2> QED
      BY <2>1, <2>2
  <1>11. MapInv' /\ Dest' = Writes(Table', New', m)
    BY <1>2, <1>10 DEF MapInv, Dest
  <1>12. \A i \in 0 .. Left : i \in 0 .. m
    BY <1>1
  <1>13. Table'.valid = Table.valid \cup ({new[k] : k \in 1 .. n} \ {None})
    <2>1. Table'.valid = Now(nx, wx, arf, 0) \cup ({nx[k] : k \in 0 + 1 .. m} \ {None})
      BY <1>8 DEF Agrees
    <2>2. Table.valid = Now(New, Dest, arf, 0) \cup ({New[k] : k \in 0 + 1 .. Left} \ {None})
      BY ChoiceCalm DEF Agrees
    <2>3. Now(nx, wx, arf, 0) = Now(New, Dest, arf, 0)
      BY <1>1, <1>6
    <2>4. {nx[k] : k \in 1 .. m} = {New[k] : k \in 1 .. Left} \cup {new[k] : k \in 1 .. n}
      <3>1. \A k \in 1 .. Left : k \in 1 .. m /\ nx[k] = New[k]
        BY <1>1, ChoiceGrown DEF nx
      <3>2. \A k \in 1 .. n : Left + k \in 1 .. m /\ nx[Left + k] = new[k]
        BY <1>1, ChoiceGrown DEF nx
      <3> QED
        BY <1>3, <3>1, <3>2
    <2>5. 0 + 1 = 1
      OBVIOUS
    <2> QED
      BY <2>1, <2>2, <2>3, <2>4, <2>5
  <1> QED
    BY <1>2, <1>6, <1>10, <1>11, <1>12, <1>13 DEF nx, wx

(* n unfinished entries ex[L + 1 ..] join L others, their instructions gs   *)
(* join those in flight.                                                    *)
Group(gs, n) == {gs[k] : k \in 1 .. n}
Joins(n, L, ids, es, ix, ex, gs) ==
    /\ L \in Nat /\ n \in Nat
    /\ \A k \in 1 .. L : ix[k] = ids[k] /\ ex[k] = es[k]
    /\ \A k \in 1 .. n : /\ ~ ex[L + k].finish /\ ~ ex[L + k].has_exception /\ ~ ex[L + k].miss
                         /\ gs[k].rob_id = ix[L + k] /\ gs[k].rd_phy = ex[L + k].new
    /\ \A j \in 1 .. L : \A k \in 1 .. n : ids[j] # ix[L + k]
    /\ \A j, k \in 1 .. n : ix[L + j] = ix[L + k] => j = k

(* An entry is one of the old or one of the group.                          *)
LEMMA JoinsCases ==
    ASSUME NEW L \in Nat, NEW n \in Nat, NEW k \in 1 .. L + n
    PROVE  k \in 1 .. L \/ \E i \in 1 .. n : k = L + i
  <1>1. k \in 1 .. L \/ (k - L \in 1 .. n /\ k = L + (k - L))
    OBVIOUS
  <1> QED
    BY <1>1

(* The instructions in flight still match the entries.                      *)
LEMMA JoinsOps ==
    ASSUME NEW n, NEW L, NEW ids, NEW es, NEW ix, NEW ex, NEW gs, NEW b, NEW rs,
           Joins(n, L, ids, es, ix, ex, gs), OpsOK(L, ids, es, b, rs)
    PROVE  OpsOK(L + n, ix, ex, b \cup Group(gs, n), rs)
  <1> DEFINE c == b \cup Group(gs, n)
  <1>1. /\ L \in Nat /\ n \in Nat
        /\ \A k \in 1 .. L : k \in 1 .. L + n /\ ix[k] = ids[k] /\ ex[k] = es[k]
        /\ \A k \in 1 .. n : /\ L + k \in 1 .. L + n /\ ~ ex[L + k].finish
                             /\ gs[k].rob_id = ix[L + k] /\ gs[k].rd_phy = ex[L + k].new
        /\ \A j \in 1 .. L : \A k \in 1 .. n : ids[j] # ix[L + k]
        /\ \A j, k \in 1 .. n : ix[L + j] = ix[L + k] => j = k
    BY DEF Joins
  <1>2. Ops(c, rs) = Ops(b, rs) \cup Group(gs, n)
    BY DEF Ops
  <1>3. \A o \in Ops(b, rs) : \E k \in 1 .. L : ids[k] = o.rob_id /\ ~ es[k].finish /\ es[k].new = o.rd_phy
    BY DEF OpsOK
  <1>4. \A o \in Ops(b, rs) : \A k \in 1 .. n : o.rob_id # gs[k].rob_id
    BY <1>1, <1>3
  <1>5. \A o \in Ops(c, rs) : \E k \in 1 .. L + n :
           ix[k] = o.rob_id /\ ~ ex[k].finish /\ ex[k].new = o.rd_phy
    <2>1. ASSUME NEW o \in Ops(b, rs)
          PROVE  \E k \in 1 .. L + n : ix[k] = o.rob_id /\ ~ ex[k].finish /\ ex[k].new = o.rd_phy
      BY <1>1, <1>3
    <2>2. ASSUME NEW i \in 1 .. n
          PROVE  \E k \in 1 .. L + n : ix[k] = gs[i].rob_id /\ ~ ex[k].finish /\ ex[k].new = gs[i].rd_phy
      BY <1>1
    <2> QED
      BY <1>2, <2>1, <2>2 DEF Group
  <1>6. \A o1, o2 \in Ops(c, rs) : o1.rob_id = o2.rob_id => o1 = o2
    <2>1. \A o1, o2 \in Ops(b, rs) : o1.rob_id = o2.rob_id => o1 = o2
      BY DEF OpsOK
    <2>2. \A j, k \in 1 .. n : gs[j].rob_id = gs[k].rob_id => gs[j] = gs[k]
      BY <1>1
    <2> QED
      BY <1>2, <1>4, <2>1, <2>2 DEF Group
  <1>7. \A r1, r2 \in rs : r1.op = r2.op => r1 = r2
    BY DEF OpsOK
  <1>8. \A r \in rs : r.op \notin c
    <2>1. \A r \in rs : r.op \in Ops(b, rs) /\ r.op \notin b
      BY DEF OpsOK, Ops
    <2> QED
      BY <1>4, <2>1 DEF Group
  <1>9. ASSUME NEW k \in 1 .. L + n, ~ ex[k].finish PROVE \E o \in Ops(c, rs) : o.rob_id = ix[k]
    <2>1. CASE k \in 1 .. L
      <3>1. \E o \in Ops(b, rs) : o.rob_id = ids[k]
        BY <1>1, <1>9, <2>1 DEF OpsOK
      <3> QED
        BY <1>1, <1>2, <2>1, <3>1
    <2>2. ASSUME NEW i \in 1 .. n, k = L + i PROVE \E o \in Ops(c, rs) : o.rob_id = ix[k]
      <3>1. gs[i] \in Ops(c, rs)
        BY <1>2 DEF Group
      <3> QED
        BY <1>1, <2>2, <3>1
    <2> QED
      BY <1>1, <2>1, <2>2, JoinsCases
  <1> HIDE DEF c
  <1> QED
    BY <1>5, <1>6, <1>7, <1>8, <1>9 DEF OpsOK, c

(* A new entry is neither faulty nor mispredicted.                          *)
LEMMA JoinsKind ==
    ASSUME NEW n, NEW L, NEW ids, NEW es, NEW ix, NEW ex, NEW gs, NEW rs,
           Joins(n, L, ids, es, ix, ex, gs), KindOK(L, es, rs)
    PROVE  KindOK(L + n, ex, rs)
  <1>1. /\ L \in Nat /\ n \in Nat /\ \A k \in 1 .. L : ex[k] = es[k]
        /\ \A k \in 1 .. n : ~ ex[L + k].has_exception /\ ~ ex[L + k].miss
    BY DEF Joins
  <1>2. \A k \in 1 .. L + n : \/ k \in 1 .. L /\ ex[k] = es[k]
                              \/ ~ ex[k].has_exception /\ ~ ex[k].miss
    <2>1. ASSUME NEW k \in 1 .. L + n
          PROVE  \/ k \in 1 .. L /\ ex[k] = es[k]
                 \/ ~ ex[k].has_exception /\ ~ ex[k].miss
      <3>1. CASE k \in 1 .. L
        BY <1>1, <3>1
      <3>2. ASSUME NEW i \in 1 .. n, k = L + i
            PROVE  ~ ex[k].has_exception /\ ~ ex[k].miss
        BY <1>1, <3>2
      <3>3. k \in 1 .. L \/ \E i \in 1 .. n : k = L + i
        BY <1>1, JoinsCases
      <3> QED
        BY <3>1, <3>2, <3>3
    <2> QED
      BY <2>1
  <1> QED
    BY <1>2 DEF KindOK

(* The targets of the group are not written yet.                            *)
LEMMA JoinsUnwritten ==
    ASSUME NEW n, NEW L, NEW ids, NEW es, NEW ix, NEW ex, NEW gs, NEW b, NEW rs,
           Joins(n, L, ids, es, ix, ex, gs)
    PROVE  Unwritten(L + n, ex, b \cup Group(gs, n), rs) =
              Unwritten(L, es, b, rs) \cup {gs[k].rd_phy : k \in 1 .. n}
  <1>1. /\ L \in Nat /\ n \in Nat /\ \A k \in 1 .. L : k \in 1 .. L + n /\ ex[k] = es[k]
        /\ \A k \in 1 .. n : ~ ex[L + k].has_exception
    BY DEF Joins
  <1>2. \A k \in 1 .. L + n : k \in 1 .. L \/ ~ ex[k].has_exception
    BY <1>1, JoinsCases
  <1>3. {ex[k].new : k \in {j \in 1 .. L + n : ex[j].has_exception}} =
           {es[k].new : k \in {j \in 1 .. L : es[j].has_exception}}
    <2>1. {j \in 1 .. L + n : ex[j].has_exception} = {j \in 1 .. L : es[j].has_exception}
      BY <1>1, <1>2
    <2>2. \A k \in {j \in 1 .. L : es[j].has_exception} : ex[k] = es[k]
      BY <1>1
    <2> QED
      BY <2>1, <2>2
  <1>4. {o.rd_phy : o \in b \cup Group(gs, n)} =
           {o.rd_phy : o \in b} \cup {gs[k].rd_phy : k \in 1 .. n}
    BY DEF Group
  <1> QED
    BY <1>3, <1>4 DEF Unwritten

(* The checkpoint of an instruction stays its own.                          *)
LEMMA JoinsCp ==
    ASSUME NEW n, NEW L, NEW ids, NEW es, NEW ix, NEW ex, NEW gs, NEW b, NEW rs,
           Joins(n, L, ids, es, ix, ex, gs), OpsOK(L, ids, es, b, rs)
    PROVE  /\ \A k \in 1 .. L : CpOf(ix, ex, Ops(b \cup Group(gs, n), rs), k) = CpOf(ids, es, Ops(b, rs), k)
           /\ \A k \in 1 .. n : CpOf(ix, ex, Ops(b \cup Group(gs, n), rs), L + k) = gs[k].cp
  <1> DEFINE os == Ops(b, rs)
             ot == Ops(b \cup Group(gs, n), rs)
  <1>1. /\ L \in Nat /\ n \in Nat
        /\ \A k \in 1 .. L : ix[k] = ids[k] /\ ex[k] = es[k]
        /\ \A k \in 1 .. n : ~ ex[L + k].finish /\ gs[k].rob_id = ix[L + k]
        /\ \A j \in 1 .. L : \A k \in 1 .. n : ids[j] # ix[L + k]
    BY DEF Joins
  <1>2. ot = os \cup Group(gs, n)
    BY DEF Ops
  <1>3. OpsOK(L + n, ix, ex, b \cup Group(gs, n), rs)
    BY JoinsOps
  <1>4. \A o1, o2 \in ot : o1.rob_id = o2.rob_id => o1 = o2
    BY <1>3 DEF OpsOK
  <1>5. \A k \in 1 .. L : ~ es[k].finish => \E o \in os : o.rob_id = ids[k]
    BY DEF OpsOK
  <1> HIDE DEF os, ot
  <1>6. ASSUME NEW k \in 1 .. L PROVE CpOf(ix, ex, ot, k) = CpOf(ids, es, os, k)
    <2>1. CASE es[k].finish
      BY <1>1, <2>1 DEF CpOf
    <2>2. CASE ~ es[k].finish
      <3>1. PICK o \in os : o.rob_id = ids[k]
        BY <1>5, <2>2
      <3>2. (CHOOSE x \in os : x.rob_id = ids[k]) = o
        BY <1>2, <1>4, <3>1
      <3>3. (CHOOSE x \in ot : x.rob_id = ix[k]) = o
        BY <1>1, <1>2, <1>4, <3>1
      <3>4. ~ ex[k].finish
        BY <1>1, <2>2
      <3>5. CpOf(ix, ex, ot, k) = o.cp
        BY <3>3, <3>4 DEF CpOf
      <3>6. CpOf(ids, es, os, k) = o.cp
        BY <2>2, <3>2 DEF CpOf
      <3> QED
        BY <3>5, <3>6
    <2> QED
      BY <2>1, <2>2
  <1>7. ASSUME NEW k \in 1 .. n PROVE CpOf(ix, ex, ot, L + k) = gs[k].cp
    <2>1. gs[k] \in ot /\ gs[k].rob_id = ix[L + k]
      BY <1>1, <1>2 DEF Group
    <2>2. (CHOOSE x \in ot : x.rob_id = ix[L + k]) = gs[k]
      BY <1>4, <2>1
    <2> QED
      BY <1>1, <2>2 DEF CpOf
  <1> QED
    BY <1>6, <1>7 DEF os, ot

(* global_cp holds the mapping right after the instruction.                 *)
LEMMA GlobalCpIs ==
    ASSUME RenameInv, NEW n, NEW new, Choice(n, new), NEW k \in 1 .. n
    PROVE  /\ GlobalCp(new, k) \in CheckpointType
           /\ GlobalCp(new, k).visible = Now(NewWith(new, n), DestWith(n), arf, Left + k)
           /\ GlobalCp(new, k).visible \subseteq GlobalCp(new, k).valid
           /\ OldPhy(new, k) # None => OldPhy(new, k) \in GlobalCp(new, k).valid
  <1> DEFINE q == MapRequests(new, n)
             s == MapRequests(new, k)
             y == Tables(rat, q)[k]
  <1>1. n \in Nat /\ n \in 0 .. n /\ k \in 0 .. n /\ k \in Nat /\ k <= n
    BY DEF Choice
  <1>2. /\ Len(q) = n
        /\ \A j \in 1 .. n : q[j] = [op |-> "set_map", arch |-> Rds(n)[j], new |-> new[j]]
    <2>1. \A m \in 0 .. n : /\ Len(MapRequests(new, m)) = m
                            /\ \A j \in 1 .. m : MapRequests(new, m)[j] =
                                  [op |-> "set_map", arch |-> Rds(n)[j], new |-> new[j]]
      BY MapQueue
    <2> QED
      BY <1>1, <2>1
  <1>3. /\ Len(s) = k
        /\ \A j \in 1 .. k : /\ j \in 1 .. n
                             /\ s[j] = [op |-> "set_map", arch |-> Rds(n)[j], new |-> new[j]]
    <2>1. \A m \in 0 .. n : /\ Len(MapRequests(new, m)) = m
                            /\ \A j \in 1 .. m : /\ j \in 1 .. n
                                                   /\ MapRequests(new, m)[j] =
                                                        [op |-> "set_map", arch |-> Rds(n)[j], new |-> new[j]]
      BY MapQueue
    <2> QED
      BY <1>1, <2>1
  <1> HIDE DEF q, s
  <1>4. Tables(rat, q)[k] = Tables(rat, s)[k]
    <2>1. \A j \in 1 .. k : q[j] = s[j]
      BY <1>2, <1>3
    <2> QED
      BY <1>1, <1>2, <1>3, <2>1, TablesSame
  <1>5. GlobalCp(new, k) = [valid |-> y.valid, visible |-> y.visible]
    BY <1>3, <1>4 DEF GlobalCp, Applied, s
  <1>6. Queued(q, 0, n, new, Rds(n))
    <2>1. 0 \in Nat /\ 0 + n <= n /\ \A j \in 1 .. n : 0 + j = j
      BY <1>1
    <2> QED
      BY <1>1, <1>2, <2>1 DEF Queued
  <1>7. /\ y \in RatType /\ y.visible = Now(NewWith(new, n), DestWith(n), arf, Left + k)
        /\ y.visible \subseteq y.valid
        /\ OldWith(new, n)[Left + k] # None => OldWith(new, n)[Left + k] \in y.valid
    BY <1>6, ChoiceGrown, GrownCp
  <1>8. OldWith(new, n)[Left + k] = OldPhy(new, k)
    BY ChoiceGrown
  <1> HIDE DEF y
  <1>9. y.valid \in SUBSET Phy /\ y.visible \in SUBSET Phy
    BY <1>7 DEF RatType
  <1> QED
    BY <1>5, <1>7, <1>8, <1>9 DEF CheckpointType

(* The checkpoints the group fills.                                         *)
LEMMA CheckpointQueue ==
    ASSUME RenameInv, NEW n, NEW new, Choice(n, new)
    PROVE  /\ CheckpointRequests(new, n) \in Seq(CpRequest) /\ Len(CheckpointRequests(new, n)) = n
           /\ \A k \in 1 .. n : /\ CheckpointRequests(new, n)[k].id = fifo[k].cp
                                /\ CheckpointRequests(new, n)[k].cp = GlobalCp(new, k)
  <1> DEFINE q == CheckpointRequests(new, n)
  <1>1. n \in Nat /\ TypeOK
    BY DEF Choice, RenameInv
  <1>2. ASSUME NEW k \in 1 .. n
        PROVE  q[k].id = fifo[k].cp /\ q[k].cp = GlobalCp(new, k) /\ q[k] \in CpRequest
    <2>1. q[k] = [id |-> fifo[k].cp, cp |-> GlobalCp(new, k)]
      BY DEF CheckpointRequests
    <2>2. k \in 1 .. Len(fifo)
      BY ChoiceGrown
    <2>3. fifo[k].cp \in CpId \cup {None}
      BY <1>1, <2>2, FifoOps
    <2>4. GlobalCp(new, k) \in CheckpointType
      BY GlobalCpIs
    <2> QED
      BY <2>1, <2>3, <2>4 DEF CpRequest
  <1>3. q \in Seq(CpRequest) /\ Len(q) = n
    <2>1. q = [k \in 1 .. n |-> q[k]]
      BY DEF CheckpointRequests
    <2> QED
      BY <1>1, <1>2, <2>1, IsASeq
  <1> QED
    BY <1>2, <1>3

(* The instructions of the group in the back end.                           *)
InBackEnd(new, n) == [k \in 1 .. n |-> [rob_id |-> NewRobId(k), rd_phy |-> new[k],
                                        kind |-> fifo[k].kind, cp |-> fifo[k].cp]]

(* The group joins the entries and the back end.                            *)
LEMMA RenamedJoins ==
    ASSUME RenameInv, NEW n, NEW new, Choice(n, new), Placed(n, new), rob_q' = rob_q
    PROVE  /\ Joins(n, Left, Ids, Es, Ids', Es', InBackEnd(new, n))
           /\ Group(InBackEnd(new, n), n) = NewOps(new, n) /\ NewOps(new, n) \subseteq InFlight
           /\ \A k \in 1 .. n : InBackEnd(new, n)[k].cp = fifo[k].cp /\ InBackEnd(new, n)[k].rd_phy = new[k]
  <1> DEFINE gs == InBackEnd(new, n)
  <1>1. n \in Nat /\ Left \in Nat /\ TypeOK
    BY ChoiceCalm DEF Choice, RenameInv
  <1>2. \A k \in 1 .. n : gs[k] = [rob_id |-> NewRobId(k), rd_phy |-> new[k],
                                   kind |-> fifo[k].kind, cp |-> fifo[k].cp]
    BY DEF InBackEnd
  <1>3. Group(gs, n) = NewOps(new, n)
    BY <1>2 DEF Group, NewOps
  <1> HIDE DEF gs
  <1>4. ASSUME NEW k \in 1 .. n
        PROVE  /\ gs[k].rob_id = NewRobId(k) /\ gs[k].rd_phy = new[k] /\ gs[k].cp = fifo[k].cp
               /\ gs[k] \in InFlight
    <2> DEFINE i == NewRobId(k)
               d == fifo[k].kind
               c == fifo[k].cp
    <2>1. k \in 1 .. Len(fifo) /\ new[k] \in Phy \cup {None}
      BY ChoiceGrown
    <2>2. c \in CpId \cup {None} /\ d \in Kind
      BY <1>1, <2>1, FifoOps
    <2>3. i \in RobId
      BY NewIds
    <2>4. gs[k] = [rob_id |-> i, rd_phy |-> new[k], kind |-> d, cp |-> c]
      BY <1>2
    <2> HIDE DEF i, d, c
    <2>5. gs[k].rob_id = i /\ gs[k].rd_phy = new[k] /\ gs[k].cp = c /\ gs[k] \in InFlight
      BY <2>1, <2>2, <2>3, <2>4 DEF InFlight
    <2> QED
      BY <2>5 DEF i, d, c
  <1>6. \A k \in 1 .. Left : Ids'[k] = Ids[k] /\ Es'[k] = Es[k]
    BY RenamedRob
  <1>7. \A k \in 1 .. n : /\ ~ Es'[Left + k].finish /\ ~ Es'[Left + k].has_exception /\ ~ Es'[Left + k].miss
                          /\ Ids'[Left + k] = NewRobId(k) /\ Es'[Left + k].new = new[k]
    <2> TAKE k \in 1 .. n
    <2>1. Ids'[Left + k] = NewRobId(k) /\ Es'[Left + k] = NewItem(new, k)
      BY RenamedRob
    <2>2. /\ NewItem(new, k).new = new[k]
          /\ NewItem(new, k).finish = FALSE /\ NewItem(new, k).has_exception = FALSE
          /\ NewItem(new, k).miss = FALSE
      BY DEF NewItem
    <2> QED
      BY <2>1, <2>2
  <1>8. /\ \A j \in 1 .. Left : \A k \in 1 .. n : Ids[j] # Ids'[Left + k]
        /\ \A j, k \in 1 .. n : Ids'[Left + j] = Ids'[Left + k] => j = k
    BY <1>7, NewIds
  <1>9. Joins(n, Left, Ids, Es, Ids', Es', gs)
    BY <1>1, <1>4, <1>6, <1>7, <1>8 DEF Joins
  <1>10. Group(gs, n) \subseteq InFlight
    BY <1>4 DEF Group
  <1> QED
    BY <1>3, <1>4, <1>9, <1>10 DEF gs

Taken(n) == fifo' = SubSeq(fifo, n + 1, Len(fifo))

(* The fifo without the group.                                              *)
LEMMA TakenIs ==
    ASSUME TypeOK, NEW n \in 0 .. Len(fifo), Taken(n)
    PROVE  /\ fifo' \in Seq(Op) /\ Len(fifo') = Len(fifo) - n /\ Len(fifo) \in Nat
           /\ \A k \in 1 .. Len(fifo) - n : fifo'[k] = fifo[n + k]
  <1>1. fifo \in Seq(Op) /\ Len(fifo) \in Nat
    BY LenProperties DEF TypeOK
  <1>2. n \in Nat /\ n + 1 \in 1 .. Len(fifo) + 1 /\ Len(fifo) \in n .. Len(fifo)
    BY <1>1
  <1>3. fifo' = SubSeq(fifo, n + 1, Len(fifo))
    BY DEF Taken
  <1>4. fifo' \in Seq(Op) /\ Len(fifo') = Len(fifo) - n
    BY <1>1, <1>2, <1>3, SubSeqProperties
  <1>5. ASSUME NEW k \in 1 .. Len(fifo) - n PROVE fifo'[k] = fifo[n + k]
    <2>1. (n + 1) + k - 1 = n + k
      BY <1>2
    <2>2. fifo'[k] = fifo[(n + 1) + k - 1]
      BY <1>1, <1>2, <1>3, SubSeqProperties
    <2> QED
      BY <2>1, <2>2
  <1> QED
    BY <1>1, <1>4, <1>5

Issued(n, new) ==
    /\ Choice(n, new) /\ Placed(n, new) /\ rob_q' = rob_q /\ Taken(n)
    /\ backend' = backend \cup NewOps(new, n) /\ wb_commit' = wb_commit
    /\ stage' = "fetch" /\ cpb' = cpb
    /\ cp_q' = [cp_q EXCEPT !.set = CheckpointRequests(new, n)]

(* No claim on a checkpoint changes.                                        *)
LEMMA RenamedClaims ==
    ASSUME RenameInv, NEW n, NEW new, Issued(n, new)
    PROVE  /\ Claims' = Claims /\ Left' + Len(fifo') = Left + Len(fifo)
           /\ \A k \in 1 .. n : Claims[Left + k] = fifo[k].cp
           /\ \A k \in 1 .. n : Left + k \in 1 .. Left + Len(fifo)
  <1> DEFINE gs == InBackEnd(new, n)
             N == Left + Len(fifo)
             os == Ops(backend, wb_commit)
  <1>0. /\ Choice(n, new) /\ Placed(n, new) /\ rob_q' = rob_q /\ Taken(n)
        /\ backend' = backend \cup NewOps(new, n) /\ wb_commit' = wb_commit
        /\ stage = "rename" /\ stage' = "fetch" /\ n \in 0 .. Len(fifo) /\ n \in Nat
    BY DEF Issued, Choice
  <1>1. TypeOK /\ OpsInv /\ Left \in Nat /\ Calm
    BY <1>0, ChoiceCalm DEF RenameInv
  <1>2. /\ Len(fifo) \in Nat /\ Len(fifo') = Len(fifo) - n
        /\ \A k \in 1 .. Len(fifo) - n : fifo'[k] = fifo[n + k]
    BY <1>0, <1>1, TakenIs
  <1>3. Left' = Left + n
    BY <1>0, RenamedRob
  <1>4. Left' + Len(fifo') = N
    BY <1>0, <1>1, <1>2, <1>3
  <1>5. LiveResults = wb_commit /\ LiveResults' = wb_commit
    BY <1>0 DEF LiveResults
  <1>6. OpsOK(Left, Ids, Es, backend, wb_commit)
    BY <1>1, <1>5 DEF OpsInv
  <1>7. /\ Joins(n, Left, Ids, Es, Ids', Es', gs) /\ Group(gs, n) = NewOps(new, n)
        /\ \A k \in 1 .. n : gs[k].cp = fifo[k].cp
    BY <1>0, RenamedJoins
  <1> HIDE DEF gs
  <1>8. /\ \A k \in 1 .. Left : CpOf(Ids', Es', Ops(backend', wb_commit), k) = CpOf(Ids, Es, os, k)
        /\ \A k \in 1 .. n : CpOf(Ids', Es', Ops(backend', wb_commit), Left + k) = fifo[k].cp
    <2> DEFINE c == backend \cup Group(gs, n)
    <2>1. /\ \A k \in 1 .. Left : CpOf(Ids', Es', Ops(c, wb_commit), k) = CpOf(Ids, Es, Ops(backend, wb_commit), k)
          /\ \A k \in 1 .. n : CpOf(Ids', Es', Ops(c, wb_commit), Left + k) = gs[k].cp
      <3>1. ASSUME NEW ix, NEW ex, NEW b, NEW rs, NEW ids, NEW es, NEW L,
                   Joins(n, L, ids, es, ix, ex, gs), OpsOK(L, ids, es, b, rs)
            PROVE  /\ \A k \in 1 .. L : CpOf(ix, ex, Ops(b \cup Group(gs, n), rs), k) =
                                            CpOf(ids, es, Ops(b, rs), k)
                   /\ \A k \in 1 .. n : CpOf(ix, ex, Ops(b \cup Group(gs, n), rs), L + k) = gs[k].cp
        BY ONLY <3>1, JoinsCp, SMTT(30)
      <3> QED
        BY ONLY <1>6, <1>7, <3>1
    <2>2. backend' = c
      BY <1>0, <1>7
    <2> HIDE DEF c
    <2> QED
      BY <1>7, <2>1, <2>2
  <1> DEFINE ot == Ops(backend', wb_commit)
  <1> HIDE DEF os, ot
  <1>9. Claims = [k \in 1 .. N |-> IF k <= Left THEN CpOf(Ids, Es, os, k) ELSE fifo[k - Left].cp]
    BY <1>5 DEF Claims, os
  <1>10. Claims' = [k \in 1 .. N |-> IF k <= Left + n THEN CpOf(Ids', Es', ot, k)
                                     ELSE fifo'[k - (Left + n)].cp]
    BY <1>3, <1>4, <1>5 DEF Claims, ot
  <1>11. ASSUME NEW k \in 1 .. N PROVE Claims'[k] = Claims[k]
    <2>1. CASE k \in 1 .. Left
      <3>1. k <= Left /\ k <= Left + n
        BY <1>0, <1>1, <2>1
      <3> QED
        BY <1>8, <1>9, <1>10, <2>1, <3>1 DEF ot
    <2>2. ASSUME NEW i \in 1 .. n, k = Left + i PROVE Claims'[k] = Claims[k]
      <3>1. ~ (k <= Left) /\ k <= Left + n /\ k - Left = i
        BY <1>0, <1>1, <2>2
      <3>2. Claims[k] = fifo[i].cp
        BY <1>9, <3>1
      <3>3. Claims'[k] = CpOf(Ids', Es', ot, k)
        BY <1>10, <3>1
      <3> QED
        BY <1>8, <2>2, <3>2, <3>3 DEF ot
    <2>3. CASE k > Left + n
      <3>1. /\ ~ (k <= Left) /\ ~ (k <= Left + n) /\ k - (Left + n) \in 1 .. Len(fifo) - n
            /\ n + (k - (Left + n)) = k - Left
        BY <1>0, <1>1, <1>2, <2>3
      <3>2. Claims[k] = fifo[k - Left].cp /\ Claims'[k] = fifo'[k - (Left + n)].cp
        BY <1>9, <1>10, <3>1
      <3>3. fifo'[k - (Left + n)] = fifo[n + (k - (Left + n))]
        BY <1>2, <3>1
      <3> QED
        BY <3>1, <3>2, <3>3
    <2>4. k \in 1 .. Left + n \/ k > Left + n
      BY <1>0, <1>1, <1>2
    <2> QED
      BY <1>0, <1>1, <2>1, <2>2, <2>3, <2>4, JoinsCases
  <1>12. Claims' = Claims
    BY <1>9, <1>10, <1>11
  <1>13. ASSUME NEW k \in 1 .. n PROVE Claims[Left + k] = fifo[k].cp /\ Left + k \in 1 .. N
    <2>1. Left + k \in 1 .. N /\ ~ (Left + k <= Left) /\ (Left + k) - Left = k
      BY <1>0, <1>1, <1>2
    <2>2. Claims[Left + k] = fifo[(Left + k) - Left].cp
      BY <1>9, <2>1
    <2> QED
      BY <2>1, <2>2
  <1> QED
    BY <1>4, <1>12, <1>13

(* Only the checkpoints of the group are filled.                            *)
LEMMA RenamedContents ==
    ASSUME RenameInv, NEW n, NEW new, Issued(n, new)
    PROVE  /\ \A k \in 1 .. Left : Claims[k] # None => Contents'[Claims[k]] = Contents[Claims[k]]
           /\ \A k \in 1 .. n : fifo[k].cp # None => Contents'[fifo[k].cp] = GlobalCp(new, k)
           /\ CpPops' = CpPops /\ cp_q' \in [pop : BOOLEAN, set : Seq(CpRequest)] /\ cp_q'.pop = cp_q.pop
  <1> DEFINE q == CheckpointRequests(new, n)
             N == Left + Len(fifo)
  <1>0. /\ Choice(n, new) /\ cpb' = cpb /\ n \in Nat /\ n \in 0 .. Len(fifo)
        /\ cp_q' = [cp_q EXCEPT !.set = q]
    BY DEF Issued, Choice
  <1>1. TypeOK /\ Queues /\ CpInv /\ Left \in Nat /\ Calm /\ cp_q.set = << >>
    BY <1>0, ChoiceCalm DEF RenameInv
  <1>2. Len(fifo) \in Nat
    BY <1>1, LenProperties DEF TypeOK
  <1>3. /\ q \in Seq(CpRequest) /\ Len(q) = n
        /\ \A k \in 1 .. n : q[k].id = fifo[k].cp /\ q[k].cp = GlobalCp(new, k)
    BY <1>0, CheckpointQueue
  <1> HIDE DEF q
  <1>4. cp_q' \in [pop : BOOLEAN, set : Seq(CpRequest)] /\ cp_q'.pop = cp_q.pop /\ cp_q'.set = q
    BY <1>0, <1>1, <1>3 DEF Queues
  <1>5. CpPops' = CpPops
    BY <1>0, <1>4 DEF CpPops
  <1>6. ClaimsOK(N, Claims, cpb.rptr, CpPops, cpb.cnt)
    BY <1>1 DEF CpInv
  <1>7. \A k \in 1 .. n : Claims[Left + k] = fifo[k].cp /\ Left + k \in 1 .. N
    BY RenamedClaims
  <1>8. ASSUME NEW i \in 1 .. N, NEW j \in 1 .. N, Claims[i] # None, Claims[i] = Claims[j]
        PROVE  i = j
    <2>1. \A k \in 1 .. N : Claims[k] # None => Place(cpb.rptr, Claims[k]) \in Int
      <3>1. cpb.rptr \in CpId
        BY <1>1 DEF TypeOK
      <3>2. \A k \in 1 .. N : Claims[k] # None => Claims[k] \in CpId
        BY <1>6 DEF ClaimsOK
      <3> QED
        BY <3>1, <3>2, PlaceIs
    <2>2. ~ (i < j) /\ ~ (j < i)
      BY <1>6, <1>8, <2>1 DEF ClaimsOK
    <2>3. i \in Int /\ j \in Int
      BY <1>1, <1>2
    <2> QED
      BY <2>2, <2>3
  <1>9. \A c \in CpId : Contents[c] = cpb.buf[c]
    <2>1. \A c \in CpId : Filled(c, cp_q.set) = {}
      BY <1>1 DEF Filled
    <2> QED
      BY <2>1 DEF Contents
  <1>10. \A c \in CpId : Contents'[c] = IF Filled(c, q) = {} THEN cpb.buf[c]
                                        ELSE q[Newest(Filled(c, q))].cp
    BY <1>0, <1>4 DEF Contents
  <1>11. ASSUME NEW k \in 1 .. Left, Claims[k] # None PROVE Contents'[Claims[k]] = Contents[Claims[k]]
    <2>1. k \in 1 .. N /\ \A j \in 1 .. n : k # Left + j
      BY <1>0, <1>1, <1>2
    <2>2. Claims[k] \in CpId
      BY <1>6, <1>11, <2>1 DEF ClaimsOK
    <2>3. \A j \in 1 .. n : q[j].id # Claims[k]
      BY <1>3, <1>7, <1>8, <1>11, <2>1
    <2>4. Filled(Claims[k], q) = {}
      BY <1>3, <2>3 DEF Filled
    <2> QED
      BY <1>9, <1>10, <2>2, <2>4
  <1>12. ASSUME NEW k \in 1 .. n, fifo[k].cp # None PROVE Contents'[fifo[k].cp] = GlobalCp(new, k)
    <2>1. fifo[k].cp \in CpId
      BY <1>6, <1>7, <1>12 DEF ClaimsOK
    <2>2. \A j \in 1 .. n : fifo[j].cp = fifo[k].cp => j = k
      <3> TAKE j \in 1 .. n
      <3>1. fifo[j].cp = fifo[k].cp => Left + j = Left + k
        BY <1>7, <1>8, <1>12
      <3> QED
        BY <1>0, <1>1, <3>1
    <2>3. Filled(fifo[k].cp, q) = {k}
      BY <1>3, <2>2 DEF Filled
    <2>4. Newest({k}) = k
      <3>1. {k} \subseteq Int /\ k \in {k} /\ \A j \in {k} : j <= k
        BY <1>0
      <3> QED
        BY <3>1, NewestUnique
    <2>5. Filled(fifo[k].cp, q) # {} /\ Newest(Filled(fifo[k].cp, q)) = k
      BY <2>3, <2>4
    <2> QED
      BY <1>3, <1>10, <2>1, <2>5
  <1> QED
    BY <1>4, <1>5, <1>11, <1>12

(* A group is renamed.                                                      *)
LEMMA RenameStep ==
    ASSUME RenameInv, Rename
    PROVE  RenameInv'
  <1> DEFINE n == RenameNum
  <1>1. TypeOK /\ rat.ok /\ Queues /\ Pass /\ BitsInv /\ OpsInv /\ KindInv /\ CpInv
    BY DEF RenameInv
  <1>2. PICK new \in Allocations(n) :
           /\ rat_q' = rat_q \o MapRequests(new, n)
           /\ rat' = [rat EXCEPT !.ok = @ /\ \A k \in 1 .. n : fifo[k].rd # None =>
                                        Cardinality(Mapped(rat, fifo[k].rd)) = 1]
           /\ Placed(n, new)
           /\ cp_q' = [cp_q EXCEPT !.set = CheckpointRequests(new, n)]
           /\ backend' = backend \cup NewOps(new, n)
           /\ Taken(n)
    BY DEF Rename, Placed, NewOps, Taken
  <1>3. /\ stage = "rename" /\ ~ feedback.flush /\ stage' = "fetch"
        /\ UNCHANGED <<cur_state, rob_item_id, restore_rob_item_id, arf>>
        /\ UNCHANGED <<feedback, rob_q, data_valid, reg_q, cpb, jump_wait, wb_commit>>
    BY DEF Rename, commitVars
  <1>4. n \in Nat /\ n \in 0 .. Len(fifo) /\ rob.cnt + n <= RobSize /\ Len(fifo) \in Nat
    BY <1>1, RenameNumIs
  <1> HIDE DEF n
  <1>5. Choice(n, new)
    BY <1>2, <1>3, <1>4 DEF Choice
  <1>6. Issued(n, new)
    BY <1>2, <1>3, <1>5 DEF Issued
  <1>7. rat' = rat
    <2>1. \A k \in 1 .. n : fifo[k].rd # None => Cardinality(Mapped(rat, fifo[k].rd)) = 1
      BY <1>5, ChoiceGrown
    <2> DEFINE A == \A k \in 1 .. n : fifo[k].rd # None => Cardinality(Mapped(rat, fifo[k].rd)) = 1
    <2>2. rat' = [rat EXCEPT !.ok = @ /\ A] /\ A
      BY <1>2, <2>1
    <2>3. rat \in RatType
      BY <1>1 DEF TypeOK
    <2> HIDE DEF A
    <2> QED
      BY <1>1, <2>2, <2>3, Asserted
  <1>8. /\ cur_state = "normal" /\ Calm /\ Left \in Nat /\ Standing = Left
        /\ rob_q.pop <= rob.cnt /\ (cp_q.pop => cpb.cnt > 0) /\ Hides(Table, rat)
    BY <1>5, ChoiceCalm
  <1>9. /\ rob' \in [buf : [RobId -> RobItem \cup {NoItem}], rptr : RobId, cnt : 0 .. RobSize]
        /\ rob'.cnt = rob.cnt + n /\ Pops' = Pops /\ Left' = Left + n
        /\ \A k \in 1 .. Left : k \in 1 .. Left + n /\ Ids'[k] = Ids[k] /\ Es'[k] = Es[k]
        /\ \A k \in 1 .. Left : rob'.buf[Ids'[k]] \in RobItem
        /\ \A k \in 1 .. n : Es'[Left + k] = NewItem(new, k) /\ rob'.buf[Ids'[Left + k]] \in RobItem
    BY <1>2, <1>3, <1>5, RenamedRob
  <1>10. /\ MapInv' /\ Standing' = Left + n
         /\ \A i \in 0 .. Left + n : Now(New', Dest', arf, i) = Now(NewWith(new, n), DestWith(n), arf, i)
         /\ \A i \in 0 .. Left : Now(New', Dest', arf, i) = Now(New, Dest, arf, i)
         /\ Table'.valid = Table.valid \cup ({new[k] : k \in 1 .. n} \ {None})
    BY <1>2, <1>3, <1>5, <1>7, RenamedMap
  <1>11. Calm' /\ LiveResults = wb_commit /\ LiveResults' = wb_commit /\ Bits' = Bits
    BY <1>3, <1>8 DEF Calm, LiveResults, Bits
  <1>12. /\ Joins(n, Left, Ids, Es, Ids', Es', InBackEnd(new, n))
         /\ Group(InBackEnd(new, n), n) = NewOps(new, n) /\ NewOps(new, n) \subseteq InFlight
         /\ \A k \in 1 .. n : InBackEnd(new, n)[k].rd_phy = new[k]
    BY <1>2, <1>3, <1>5, RenamedJoins
  <1>13. rat_q' \in Seq(Request)
    BY <1>2, <1>5, RenamedTable
  <1>14. /\ \A k \in 1 .. Left : Claims[k] # None => Contents'[Claims[k]] = Contents[Claims[k]]
         /\ \A k \in 1 .. n : fifo[k].cp # None => Contents'[fifo[k].cp] = GlobalCp(new, k)
         /\ CpPops' = CpPops /\ cp_q' \in [pop : BOOLEAN, set : Seq(CpRequest)] /\ cp_q'.pop = cp_q.pop
    BY <1>6, RenamedContents
  <1>15. /\ Claims' = Claims /\ Left' + Len(fifo') = Left + Len(fifo)
         /\ \A k \in 1 .. n : Claims[Left + k] = fifo[k].cp
    BY <1>6, RenamedClaims
  <1>16. fifo' \in Seq(Op) /\ Len(fifo') = Len(fifo) - n
    BY <1>1, <1>2, <1>4, TakenIs
  <1>17. TypeOK'
    <2>1. Len(fifo') <= FifoSize
      <3>1. Len(fifo) <= FifoSize /\ FifoSize \in Nat
        BY <1>1, SizesAssumption DEF TypeOK
      <3> QED
        BY <1>4, <1>16, <3>1
    <2>2. backend' \in SUBSET InFlight
      BY <1>1, <1>2, <1>12 DEF TypeOK
    <2>3. cp_q'.pop \in BOOLEAN
      BY <1>14
    <2> QED
      BY <1>1, <1>3, <1>7, <1>9, <1>13, <1>16, <2>1, <2>2, <2>3 DEF TypeOK
  <1>18. Queues'
    <2>1. Pops' <= rob'.cnt
      <3>1. Pops \in 0 .. RobSize /\ Pops + Left = rob.cnt
        BY <1>1, RobFields
      <3> QED
        BY <1>4, <1>8, <1>9, <3>1
    <2>2. \A r \in rob_q'.done : \E k \in 1 .. Left' : r.op.rob_id = Ids'[k]
      BY <1>1, <1>3, <1>9 DEF Queues
    <2>3. \A k \in 1 .. Left' : rob'.buf[Ids'[k]] \in RobItem
      BY <1>4, <1>8, <1>9, JoinsCases, SMTT(30)
    <2>4. reg_q' \in Seq(RegRequest) /\ rob_q' \in [pop : 0 .. CommitWidth, done : SUBSET Result]
      BY <1>1, <1>3 DEF Queues
    <2> QED
      BY <1>14, <2>1, <2>2, <2>3, <2>4 DEF Queues
  <1>19. Pass'
    <2>1. rob_q'.pop <= rob'.cnt /\ (cp_q'.pop => cpb'.cnt > 0)
      <3>1. rob_q.pop \in Nat /\ rob.cnt \in Nat
        BY <1>1, SizesAssumption DEF Queues, TypeOK
      <3>2. cp_q'.pop = cp_q.pop /\ cpb' = cpb /\ rob_q' = rob_q
        BY <1>3, <1>14
      <3> QED
        BY <1>4, <1>8, <1>9, <3>1, <3>2
    <2> QED
      BY <1>3, <1>8, <1>11, <2>1 DEF Pass, Calm
  <1>20. WalkInv' /\ Ahead'
    BY <1>3, <1>8 DEF WalkInv, Ahead
  <1>21. backend' = backend \cup Group(InBackEnd(new, n), n)
    BY <1>2, <1>12
  <1>22. OpsInv' /\ KindInv'
    <2>1. OpsOK(Left, Ids, Es, backend, wb_commit) /\ KindOK(Left, Es, wb_commit)
      BY <1>1, <1>8, <1>11 DEF OpsInv, KindInv
    <2>2. OpsOK(Left + n, Ids', Es', backend', wb_commit)
      BY <1>12, <1>21, <2>1, JoinsOps
    <2>3. KindOK(Left + n, Es', wb_commit)
      BY <1>12, <2>1, JoinsKind
    <2> QED
      BY <1>9, <1>11, <2>2, <2>3 DEF OpsInv, KindInv
  <1>23. BitsInv'
    <2> DEFINE G == {new[k] : k \in 1 .. n}
               U == Unwritten(Left, Es, backend, wb_commit)
    <2>1. Unwritten(Left + n, Es', backend', wb_commit) = U \cup G
      <3>1. Unwritten(Left + n, Es', backend', wb_commit) =
               U \cup {InBackEnd(new, n)[k].rd_phy : k \in 1 .. n}
        BY <1>12, <1>21, JoinsUnwritten
      <3> QED
        BY <1>12, <3>1
    <2>2. Bits = Table.valid \ U /\ Bits \subseteq Table.valid /\ {arf[a] : a \in Arch} \subseteq Bits
      BY <1>1, <1>8, <1>11 DEF BitsInv
    <2>3. \A p \in G : p \notin Table.valid
      <3>1. Table.valid \subseteq rat.valid
        BY <1>8 DEF Hides
      <3>2. \A k \in 1 .. n : new[k] \notin rat.valid
        BY <1>5, ChoiceGrown
      <3> QED
        BY <3>1, <3>2
    <2> HIDE DEF G, U
    <2>4. Table'.valid = Table.valid \cup (G \ {None})
      BY <1>10 DEF G
    <2>5. Bits' = Table'.valid \ (U \cup G)
      BY <1>11, <2>2, <2>3, <2>4
    <2>6. Bits' \subseteq Table'.valid /\ {arf'[a] : a \in Arch} \subseteq Bits'
      BY <1>3, <1>11, <2>2, <2>4
    <2> QED
      BY <1>9, <1>11, <2>1, <2>5, <2>6 DEF BitsInv
  <1>24. CpInv'
    <2>1. /\ ClaimsOK(Left + Len(fifo), Claims, cpb.rptr, CpPops, cpb.cnt)
          /\ KeptOK(Left, Claims, Contents, New, Dest, arf, Es)
      BY <1>1, <1>8 DEF CpInv
    <2>2. ASSUME NEW k \in 1 .. Left + n, Claims[k] # None
          PROVE  /\ Contents'[Claims[k]].visible = Now(New', Dest', arf, k)
                 /\ Contents'[Claims[k]].visible \subseteq Contents'[Claims[k]].valid
                 /\ Es'[k].old # None => Es'[k].old \in Contents'[Claims[k]].valid
      <3>1. CASE k \in 1 .. Left
        <4>1. Contents'[Claims[k]] = Contents[Claims[k]] /\ Es'[k] = Es[k]
          BY <1>9, <1>14, <2>2, <3>1
        <4>2. k \in 0 .. Left
          BY <1>8, <3>1
        <4>3. Now(New', Dest', arf, k) = Now(New, Dest, arf, k)
          BY <1>10, <4>2
        <4> QED
          BY <2>1, <2>2, <3>1, <4>1, <4>3 DEF KeptOK
      <3>2. ASSUME NEW i \in 1 .. n, k = Left + i PROVE <2>2!3
        <4>1. Claims[k] = fifo[i].cp /\ Es'[k] = NewItem(new, i)
          BY <1>9, <1>15, <3>2
        <4>2. Contents'[Claims[k]] = GlobalCp(new, i)
          BY <1>14, <2>2, <4>1
        <4>3. NewItem(new, i).old = OldPhy(new, i)
          BY <1>5, NewItemIs, ZenonT(30)
        <4>4. k \in 0 .. Left + n
          BY <1>4, <1>8
        <4>5. Now(New', Dest', arf, k) = Now(NewWith(new, n), DestWith(n), arf, k)
          BY <1>10, <4>4
        <4>6. /\ GlobalCp(new, i).visible = Now(NewWith(new, n), DestWith(n), arf, Left + i)
              /\ GlobalCp(new, i).visible \subseteq GlobalCp(new, i).valid
              /\ OldPhy(new, i) # None => OldPhy(new, i) \in GlobalCp(new, i).valid
          BY <1>5, GlobalCpIs
        <4> QED
          BY <3>2, <4>1, <4>2, <4>3, <4>5, <4>6
      <3> QED
        BY <1>4, <1>8, <3>1, <3>2, JoinsCases
    <2>3. KeptOK(Left + n, Claims, Contents', New', Dest', arf, Es')
      BY <2>2 DEF KeptOK
    <2>4. cpb' = cpb /\ arf' = arf
      BY <1>3
    <2> QED
      BY <1>9, <1>14, <1>15, <2>1, <2>3, <2>4 DEF CpInv
  <1> QED
    BY <1>1, <1>7, <1>10, <1>17, <1>18, <1>19, <1>20, <1>22, <1>23, <1>24 DEF RenameInv

(* The table init() leaves.                                                 *)
LEMMA InitTable ==
    ASSUME NEW m \in [Arch -> Phy], \A a, b \in Arch : m[a] = m[b] => a = b, NEW nw, NEW w
    PROVE  Agrees(init_rat(m), nw, w, m, 0, 0)
  <1> DEFINE r == init_rat(m)
             V == {m[a] : a \in Arch}
             t == [p \in Phy |-> IF \E a \in Arch : m[a] = p
                                 THEN CHOOSE a \in Arch : m[a] = p ELSE None]
  <1>1. r = [table |-> t, valid |-> V, visible |-> V, commit |-> V, ok |-> TRUE]
    BY DEF init_rat
  <1>2. V \subseteq Phy
    OBVIOUS
  <1>3. t \in [Phy -> Arch \cup {None}]
    <2>1. ASSUME NEW p \in Phy PROVE t[p] \in Arch \cup {None}
      BY DEF t
    <2> QED
      BY <2>1
  <1>4. ASSUME NEW a \in Arch PROVE t[m[a]] = a
    <2>1. (CHOOSE b \in Arch : m[b] = m[a]) = a
      OBVIOUS
    <2>2. m[a] \in Phy /\ \E b \in Arch : m[b] = m[a]
      OBVIOUS
    <2> QED
      BY <2>1, <2>2
  <1> HIDE DEF V, t, r
  <1>5. r \in RatType /\ r.table = t /\ r.valid = V /\ r.visible = V /\ r.commit = V /\ r.ok
    BY <1>1, <1>2, <1>3 DEF RatType
  <1>6. Now(nw, w, m, 0) = V
    BY NowArf DEF V
  <1>7. {nw[k] : k \in 0 + 1 .. 0} = {} /\ \A k \in 0 + 1 .. 0 : FALSE
    OBVIOUS
  <1>8. \A a \in Arch : r.table[Latest(nw, w, m, a, 0)] = a
    BY <1>4, <1>5, LatestNone
  <1> QED
    BY <1>5, <1>6, <1>7, <1>8 DEF Agrees, r

(* The invariant holds at reset.                                            *)
LEMMA RenameInit ==
    ASSUME Init
    PROVE  RenameInv
  <1>1. /\ stage = "commit" /\ cur_state = "normal" /\ rob_item_id = 0 /\ restore_rob_item_id = 0
        /\ feedback = NoFeedback /\ rat = init_rat(arf) /\ rat_q = << >>
        /\ rob = EmptyRob /\ rob_q = [pop |-> 0, done |-> {}]
        /\ data_valid = {arf[a] : a \in Arch} /\ reg_q = << >>
        /\ cpb = EmptyCpb /\ cp_q = [pop |-> FALSE, set |-> << >>]
        /\ fifo = << >> /\ jump_wait = FALSE /\ backend = {} /\ wb_commit = {}
        /\ arf \in [Arch -> Phy] /\ \A a, b \in Arch : arf[a] = arf[b] => a = b
    BY DEF Init
  <1>2. /\ rob.cnt = 0 /\ rob.rptr = 0 /\ rob.buf = [i \in RobId |-> NoItem]
        /\ cpb.cnt = 0 /\ cpb.rptr = 0 /\ cpb.buf = [i \in CpId |-> NoCp]
    BY <1>1 DEF EmptyRob, EmptyCpb
  <1>3. 0 \in RobId /\ 0 \in CpId /\ 0 \in 0 .. RobSize /\ 0 \in 0 .. CpSize /\ 0 \in 0 .. CommitWidth
        /\ 0 <= FifoSize
    BY SizesAssumption DEF RobId, CpId
  <1>4. \A nw, w : Agrees(init_rat(arf), nw, w, arf, 0, 0)
    BY <1>1, InitTable
  <1>5. rat \in RatType /\ rat.ok /\ rat.valid = {arf[a] : a \in Arch}
    BY <1>1, <1>4, NowArf DEF init_rat, Agrees
  <1>6. Pops = 0 /\ Left = 0 /\ Standing = 0
    BY <1>1, <1>2 DEF Pops, Left, Standing
  <1>7. Table = rat
    BY <1>1, AppliedNone DEF Table
  <1>8. Bits = data_valid /\ data_valid \subseteq Phy
    BY <1>1, RegNone DEF Bits
  <1>9. Calm /\ LiveResults = {}
    BY <1>1 DEF Calm, NoFeedback, LiveResults
  <1>10. TypeOK
    <2>1. rob \in [buf : [RobId -> RobItem \cup {NoItem}], rptr : RobId, cnt : 0 .. RobSize]
      BY <1>1, <1>3 DEF EmptyRob
    <2>2. cpb \in [buf : [CpId -> CheckpointType], rptr : CpId, cnt : 0 .. CpSize]
      BY <1>1, <1>3 DEF EmptyCpb, NoCp, CheckpointType
    <2>3. rob_q.pop = 0 /\ rob_q.done = {} /\ cp_q.pop = FALSE
      BY <1>1
    <2>4. feedback \in [flush : BOOLEAN, jump_enable : BOOLEAN]
      BY <1>1 DEF NoFeedback
    <2>5. Len(fifo) <= FifoSize /\ fifo \in Seq(Op) /\ rat_q \in Seq(Request)
      BY <1>1, <1>3
    <2> QED
      BY <1>1, <1>3, <1>5, <1>8, <2>1, <2>2, <2>3, <2>4, <2>5 DEF TypeOK
  <1>11. Queues
    <2>1. rob_q.done = {}
      BY <1>1
    <2>2. reg_q \in Seq(RegRequest) /\ cp_q \in [pop : BOOLEAN, set : Seq(CpRequest)]
      BY <1>1
    <2>3. rob_q \in [pop : 0 .. CommitWidth, done : SUBSET Result]
      BY <1>1, <1>3
    <2> QED
      BY <1>2, <1>6, <2>1, <2>2, <2>3 DEF Queues
  <1>12. Pass
    BY <1>1, <1>2 DEF Pass, Calm, NoFeedback
  <1>13. WalkInv /\ Ahead
    BY <1>1 DEF WalkInv, Ahead
  <1>14. MapInv
    <2>1. Entries(New, Old, Dest, arf, 0)
      BY <1>1 DEF Entries
    <2> QED
      BY <1>1, <1>4, <1>6, <1>7, <2>1 DEF MapInv, MapOK, Dest
  <1>15. OpsInv /\ KindInv
    BY <1>1, <1>6, <1>9 DEF OpsInv, KindInv, OpsOK, KindOK, Ops
  <1>16. BitsInv
    <2>1. Unwritten(Left, Es, backend, LiveResults) = {}
      BY <1>1, <1>6, <1>9 DEF Unwritten
    <2> QED
      BY <1>1, <1>5, <1>7, <1>8, <2>1 DEF BitsInv
  <1>17. CpInv
    <2>1. Left + Len(fifo) = 0
      BY <1>1, <1>6
    <2> QED
      BY <1>6, <2>1 DEF CpInv, ClaimsOK, KeptOK
  <1> QED
    BY <1>5, <1>10, <1>11, <1>12, <1>13, <1>14, <1>15, <1>16, <1>17 DEF RenameInv

(* A step that changes nothing.                                             *)
LEMMA StutterStep ==
    ASSUME RenameInv, UNCHANGED vars
    PROVE  RenameInv'
  <1>1. /\ TypeOK /\ rat.ok /\ Queues /\ Pass /\ WalkInv /\ MapInv /\ BitsInv
        /\ OpsInv /\ KindInv /\ CpInv /\ Ahead
    BY DEF RenameInv
  <1>2. /\ stage' = stage /\ fifo' = fifo /\ jump_wait' = jump_wait /\ backend' = backend
        /\ wb_commit' = wb_commit /\ data_valid' = data_valid /\ reg_q' = reg_q
        /\ cpb' = cpb /\ cp_q' = cp_q /\ arf' = arf /\ rat' = rat /\ rat_q' = rat_q
        /\ rob' = rob /\ rob_q' = rob_q /\ feedback' = feedback /\ cur_state' = cur_state
        /\ rob_item_id' = rob_item_id /\ restore_rob_item_id' = restore_rob_item_id
    BY DEF vars, commitVars
  <1>3. StillVars' = StillVars
    BY <1>2 DEF StillVars
  <1>4. /\ Pops' = Pops /\ Left' = Left /\ Ids' = Ids /\ Es' = Es /\ Table' = Table
        /\ Standing' = Standing /\ New' = New /\ Old' = Old /\ Dest' = Dest
        /\ Calm' = Calm /\ MapInv' = MapInv /\ WalkInv' = WalkInv
    BY <1>3, Still
  <1>5. /\ Bits' = Bits /\ LiveResults' = LiveResults /\ Contents' = Contents /\ CpPops' = CpPops
    BY <1>2 DEF Bits, LiveResults, Contents, CpPops
  <1>6. Claims' = Claims
    BY <1>2, <1>4, <1>5 DEF Claims
  <1>7. TypeOK' /\ Queues' /\ Pass'
    BY <1>1, <1>2, <1>4 DEF TypeOK, Queues, Pass
  <1>8. Ahead' /\ BitsInv' /\ OpsInv' /\ KindInv'
    BY <1>1, <1>2, <1>4, <1>5 DEF Ahead, BitsInv, OpsInv, KindInv
  <1>9. CpInv'
    BY <1>1, <1>2, <1>4, <1>5, <1>6 DEF CpInv
  <1> QED
    BY <1>1, <1>2, <1>4, <1>7, <1>8, <1>9 DEF RenameInv

(* Every step keeps the invariant.                                          *)
LEMMA NextStep ==
    ASSUME RenameInv, [Next]_vars
    PROVE  RenameInv'
  <1>1. CASE CommitRetire
    BY <1>1, CommitRetireStep
  <1>2. CASE CommitMispredict
    BY <1>2, CommitMispredictStep
  <1>3. CASE CommitException
    BY <1>3, CommitExceptionStep
  <1>4. CASE CommitInterrupt
    BY <1>4, CommitInterruptStep
  <1>5. CASE CommitWalkBack
    BY <1>5, CommitWalkBackStep
  <1>6. CASE ExecuteFlush
    BY <1>6, ExecuteFlushStep
  <1>7. CASE Execute
    BY <1>7, ExecuteStep
  <1>8. CASE Rename
    BY <1>8, RenameStep
  <1>9. CASE RenameSkip
    BY <1>9, RenameSkipStep
  <1>10. CASE FetchFlush
    BY <1>10, FetchFlushStep
  <1>11. CASE FetchPlain \/ FetchWait
    BY <1>11, FetchPlainStep
  <1>12. CASE FetchPredicted \/ FetchUnpredicted
    BY <1>12, FetchJumpStep
  <1>13. CASE Sync
    BY <1>13, SyncStep
  <1>14. CASE UNCHANGED vars
    BY <1>14, StutterStep
  <1> QED
    BY <1>1, <1>2, <1>3, <1>4, <1>5, <1>6, <1>7, <1>8, <1>9, <1>10, <1>11, <1>12, <1>13, <1>14
       DEF Next, Commit, Fetch

(* The inductive invariant holds in every execution of the main loop: it    *)
(* ties the table, the entries, the valid bits and the checkpoints, with the*)
(* queued requests of the pass applied, to program order.                   *)
THEOREM Invariance == Spec => []RenameInv
  <1>1. Init => RenameInv
    BY RenameInit
  <1>2. RenameInv /\ [Next]_vars => RenameInv'
    BY NextStep
  <1> QED
    BY <1>1, <1>2, PTL DEF Spec

(* The entries in force at the start of a pass.                             *)
LEMMA InForceIs ==
    ASSUME RenameInv, stage = "commit"
    PROVE  /\ InForce = Standing /\ Standing \in Nat /\ Standing \in 0 .. Standing
           /\ Standing \in 0 .. Left /\ Left \in Nat
           /\ \A k \in 1 .. Standing : k \in 1 .. Left /\ New[k] = RobAt(k).new
  <1>1. TypeOK /\ Queues /\ WalkInv /\ MapInv
    BY DEF RenameInv
  <1>2. /\ Pops = 0 /\ Left = rob.cnt /\ \A k \in 1 .. Left : Ids[k] = Ring(rob.rptr, k) /\ Es[k] = RobAt(k)
    BY AtCommit
  <1>3. Left \in 0 .. RobSize /\ rob.rptr \in RobId /\ RobSize \in Nat \ {0}
    BY <1>1, RobFields
  <1>4. CASE cur_state = "normal"
    <2>1. InForce = Left /\ Standing = Left
      BY <1>2, <1>4 DEF InForce, Standing
    <2>2. \A k \in 1 .. Standing : k \in 1 .. Left /\ New[k] = RobAt(k).new
      BY <1>2, <2>1 DEF New
    <2> QED
      BY <1>3, <2>1, <2>2
  <1>5. CASE cur_state # "normal"
    <2>1. Standing \in 1 .. Left /\ restore_rob_item_id = Ids[Standing]
      BY <1>1, <1>5 DEF WalkInv
    <2>2. Standing \in 1 .. RobSize /\ restore_rob_item_id = Ring(rob.rptr, Standing)
      BY <1>2, <1>3, <2>1
    <2>3. Position(restore_rob_item_id) = Standing
      BY <1>3, <2>2, RingPosition DEF Position
    <2>4. InForce = Standing
      BY <1>5, <2>3 DEF InForce
    <2>5. \A k \in 1 .. Standing : k \in 1 .. Left
      BY <1>3, <2>1
    <2>6. \A k \in 1 .. Standing : k \in 1 .. Left /\ New[k] = RobAt(k).new
      BY <1>2, <2>5 DEF New
    <2> QED
      BY <1>3, <2>1, <2>4, <2>6
  <1> QED
    BY <1>4, <1>5

(* The table at the start of a pass.                                        *)
LEMMA CommitTable ==
    ASSUME RenameInv, stage = "commit"
    PROVE  Entries(New, Old, Dest, arf, Standing) /\ Agrees(rat, New, Dest, arf, 0, Standing)
  <1>1. Table = rat
    BY AtCommit
  <1> QED
    BY <1>1, TableTyped DEF RenameInv

(* The invariant implies the properties.                                    *)
LEMMA MappingHolds == ASSUME RenameInv PROVE MappingExact
  <1> SUFFICES ASSUME stage = "commit", NEW a \in Arch
               PROVE  Mapped(rat, a) = {MapAfter(a, InForce)}
    BY DEF MappingExact, Boundary
  <1>1. InForce = Standing /\ Standing \in Nat /\ Standing \in 0 .. Standing /\ 0 \in 0 .. Standing
    BY InForceIs
  <1>2. MapAfter(a, Standing) = Latest(New, Dest, arf, a, Standing)
    BY <1>1, MapAfterIs
  <1>3. Mapped(rat, a) = {Latest(New, Dest, arf, a, Standing)}
    BY <1>1, CommitTable, MappedIs
  <1> QED
    BY <1>1, <1>2, <1>3

(* The committed mapping.                                                   *)
LEMMA CommittedHolds == ASSUME RenameInv PROVE CommittedExact
  <1> SUFFICES ASSUME stage = "commit", NEW a \in Arch
               PROVE  Committed(rat, a) = {arf[a]} /\ arf[a] \in data_valid
    BY DEF CommittedExact, Boundary
  <1>1. rat.commit \cap rat.valid = {arf[b] : b \in Arch}
    BY CommitTable, NowArf DEF Agrees
  <1>2. \A b \in Arch : rat.table[arf[b]] = b
    <2>1. \A b \in Arch : rat.table[Latest(New, Dest, arf, b, 0)] = b
      BY CommitTable DEF Agrees
    <2> QED
      BY <2>1, LatestNone
  <1>3. Committed(rat, a) = {arf[a]}
    BY <1>1, <1>2 DEF Committed
  <1>4. arf[a] \in data_valid
    BY AtCommit DEF RenameInv, BitsInv
  <1> QED
    BY <1>3, <1>4

(* The registers in use.                                                    *)
LEMMA LeakHolds == ASSUME RenameInv PROVE NoRegisterLeak
  <1> SUFFICES ASSUME stage = "commit"
               PROVE  /\ rat.valid = {arf[a] : a \in Arch} \cup InFlightPhys
                      /\ Cardinality(rat.valid) = Cardinality(Arch)
                            + Cardinality({k \in 1 .. InForce : RobAt(k).new # None})
    BY DEF NoRegisterLeak, Boundary
  <1> DEFINE m == Standing
             K == {k \in 1 .. m : New[k] # None}
             A == {arf[a] : a \in Arch}
             B == {New[k] : k \in 1 .. m} \ {None}
  <1>1. /\ InForce = m /\ m \in Nat /\ 0 \in 0 .. m
        /\ \A k \in 1 .. m : New[k] = RobAt(k).new
    BY InForceIs
  <1>2. /\ Entries(New, Old, Dest, arf, m) /\ Agrees(rat, New, Dest, arf, 0, m)
    BY CommitTable
  <1>3. InFlightPhys = B /\ {k \in 1 .. InForce : RobAt(k).new # None} = K
    BY <1>1 DEF InFlightPhys
  <1>4. rat.valid = A \cup B
    <2>1. 0 + 1 = 1
      OBVIOUS
    <2> QED
      BY <1>2, <2>1, NowArf DEF Agrees
  <1>5. IsFiniteSet(A) /\ Cardinality(A) = Cardinality(Arch)
    <2>1. Now(New, Dest, arf, 0) = A
      BY NowArf
    <2>2. IsFiniteSet(Now(New, Dest, arf, 0)) /\ Cardinality(Now(New, Dest, arf, 0)) = Cardinality(Arch)
      BY <1>1, <1>2, NowSize
    <2> QED
      BY <2>1, <2>2
  <1>6. IsFiniteSet(B) /\ Cardinality(B) = Cardinality(K)
    <2>1. IsFiniteSet(K)
      <3>1. IsFiniteSet(1 .. m) /\ K \subseteq 1 .. m
        BY <1>1, FS_Interval
      <3> QED
        BY <3>1, FS_Subset
    <2> DEFINE g == [k \in K |-> New[k]]
    <2>2. g \in [K -> B] /\ \A t \in B : \E k \in K : g[k] = t
      OBVIOUS
    <2>3. \A j, k \in K : g[j] = g[k] => j = k
      BY <1>2 DEF Entries
    <2> HIDE DEF g, K, B
    <2> QED
      BY <2>1, <2>2, <2>3, ImageSize
  <1>7. A \cap B = {}
    BY <1>2 DEF Entries
  <1> HIDE DEF A, B, K
  <1>8. Cardinality(A \cup B) = Cardinality(A) + Cardinality(B) - Cardinality(A \cap B)
    BY <1>5, <1>6, FS_Union
  <1>9. Cardinality(A \cap B) = 0
    BY <1>7, FS_EmptySet
  <1>10. Cardinality(A) \in Nat /\ Cardinality(B) \in Nat
    BY <1>5, <1>6, FS_CardinalityType
  <1>11. Cardinality(A \cup B) = Cardinality(A) + Cardinality(B)
    BY <1>8, <1>9, <1>10
  <1> QED
    BY <1>3, <1>4, <1>5, <1>6, <1>11 DEF A

(* The valid bits.                                                          *)
LEMMA BitsHold == ASSUME RenameInv PROVE ValidBitsExact
  <1> SUFFICES ASSUME stage = "commit", cur_state = "normal"
               PROVE  data_valid = rat.valid \ Pending
    BY DEF ValidBitsExact, Boundary
  <1>1. /\ Left = rob.cnt /\ Table = rat /\ Bits = data_valid /\ LiveResults = wb_commit /\ Calm
        /\ \A k \in 1 .. Left : Es[k] = RobAt(k)
    BY AtCommit
  <1>2. Bits = Table.valid \ Unwritten(Left, Es, backend, wb_commit)
    BY <1>1 DEF RenameInv, BitsInv
  <1>3. Unwritten(Left, Es, backend, wb_commit) = Pending
    <2>1. {j \in 1 .. Left : Es[j].has_exception} = {j \in 1 .. rob.cnt : RobAt(j).has_exception}
      BY <1>1
    <2>2. {Es[k].new : k \in {j \in 1 .. Left : Es[j].has_exception}} =
             {RobAt(k).new : k \in {j \in 1 .. rob.cnt : RobAt(j).has_exception}}
      BY <1>1, <2>1
    <2> QED
      BY <2>2 DEF Unwritten, Pending
  <1> QED
    BY <1>1, <1>2, <1>3

(* The instructions in flight.                                              *)
LEMMA ResultsHold == ASSUME RenameInv PROVE ResultsMatchEntries
  <1> SUFFICES ASSUME stage = "commit", cur_state = "normal",
                      NEW o \in backend \cup {r.op : r \in wb_commit}
               PROVE  /\ InRing(rob, RobSize, o.rob_id)
                      /\ ~ rob.buf[o.rob_id].finish /\ rob.buf[o.rob_id].new = o.rd_phy
    BY DEF ResultsMatchEntries, Boundary
  <1>1. /\ Left = rob.cnt /\ LiveResults = wb_commit /\ Calm
        /\ \A k \in 1 .. Left : Es[k] = rob.buf[Ids[k]] /\ Ids[k] = RobIdAt(k)
    BY AtCommit
  <1>2. o \in Ops(backend, wb_commit)
    BY DEF Ops
  <1>3. PICK k \in 1 .. Left : Ids[k] = o.rob_id /\ ~ Es[k].finish /\ Es[k].new = o.rd_phy
    BY <1>1, <1>2 DEF RenameInv, OpsInv, OpsOK
  <1>4. rob.cnt \in Nat /\ rob.rptr \in Nat
    BY SizesAssumption DEF RenameInv, TypeOK, RobId
  <1>5. InRing(rob, RobSize, o.rob_id)
    BY <1>1, <1>3, <1>4, InRingIs
  <1> QED
    BY <1>1, <1>3, <1>5

(* A checkpoint with a place is in the ring.                                *)
LEMMA PlaceRing ==
    ASSUME NEW p \in CpId, NEW c \in CpId, NEW n \in 0 .. CpSize, Place(p, c) <= n
    PROVE  \E k \in 0 .. n - 1 : c = (p + k) % CpSize
  <1> DEFINE k == Place(p, c) - 1
             x == p + k
  <1>1. CpSize \in Nat \ {0} /\ p \in 0 .. CpSize - 1 /\ c \in 0 .. CpSize - 1
    BY SizesAssumption DEF CpId
  <1>2. x = (IF c >= p THEN c ELSE c + CpSize) /\ k \in 0 .. n - 1
    BY <1>1, PlaceIs DEF Place
  <1>3. x \in 0 .. 2 * CpSize - 1 /\ (x < CpSize => x = c) /\ (~ (x < CpSize) => x - CpSize = c)
    BY <1>1, <1>2
  <1> HIDE DEF x
  <1>4. x % CpSize = IF x < CpSize THEN x ELSE x - CpSize
    BY <1>1, <1>3, Lap
  <1>5. x % CpSize = c
    BY <1>3, <1>4
  <1> QED
    BY <1>2, <1>5 DEF x

(* The checkpoints.                                                         *)
LEMMA CheckpointsHold == ASSUME RenameInv PROVE CheckpointsExact
  <1> SUFFICES ASSUME stage = "commit", cur_state = "normal"
               PROVE  LET inRob == {k \in 1 .. rob.cnt : RobCp(k) # None}
                          inFifo == {k \in 1 .. Len(fifo) : fifo[k].cp # None}
                      IN  /\ \A k \in inRob : /\ InRing(cpb, CpSize, RobCp(k))
                                              /\ cpb.buf[RobCp(k)].visible = {MapAfter(a, k) : a \in Arch}
                          /\ \A k \in inFifo : InRing(cpb, CpSize, fifo[k].cp)
                          /\ \A j, k \in inRob : j # k => RobCp(j) # RobCp(k)
                          /\ \A j, k \in inFifo : j # k => fifo[j].cp # fifo[k].cp
                          /\ \A j \in inRob, k \in inFifo : RobCp(j) # fifo[k].cp
    BY DEF CheckpointsExact, Boundary
  <1> DEFINE L == rob.cnt
             N == L + Len(fifo)
  <1>1. /\ Left = L /\ LiveResults = wb_commit /\ Calm /\ CpPops = 0 /\ Contents = cpb.buf
        /\ \A k \in 1 .. L : Es[k] = RobAt(k) /\ Ids[k] = RobIdAt(k)
    BY AtCommit
  <1>2. TypeOK /\ CpInv
    BY DEF RenameInv
  <1>3. /\ L \in Nat /\ Len(fifo) \in Nat /\ cpb.rptr \in CpId /\ cpb.cnt \in 0 .. CpSize
    BY <1>2, SizesAssumption, LenProperties DEF TypeOK
  <1>4. /\ ClaimsOK(N, Claims, cpb.rptr, 0, cpb.cnt)
        /\ KeptOK(L, Claims, cpb.buf, New, Dest, arf, Es)
    BY <1>1, <1>2 DEF CpInv
  <1>5. ASSUME NEW k \in 1 .. L PROVE Claims[k] = RobCp(k) /\ k \in 1 .. N
    <2>1. k \in 1 .. N /\ k <= L
      BY <1>3
    <2>2. Claims[k] = CpOf(Ids, Es, Ops(backend, wb_commit), k)
      BY <1>1, <2>1 DEF Claims
    <2>3. Es[k] = RobAt(k) /\ Ids[k] = RobIdAt(k)
      BY <1>1
    <2> QED
      BY <2>1, <2>2, <2>3 DEF CpOf, RobCp, Ops
  <1>6. ASSUME NEW k \in 1 .. Len(fifo) PROVE Claims[L + k] = fifo[k].cp /\ L + k \in 1 .. N
    <2>1. L + k \in 1 .. N /\ ~ (L + k <= L) /\ (L + k) - L = k
      BY <1>3
    <2>2. Claims[L + k] = fifo[(L + k) - L].cp
      BY <1>1, <2>1 DEF Claims
    <2> QED
      BY <2>1, <2>2
  <1> HIDE DEF L
  <1>7. ASSUME NEW k \in 1 .. N, Claims[k] # None
        PROVE  InRing(cpb, CpSize, Claims[k]) /\ Place(cpb.rptr, Claims[k]) \in Int
    <2>1. Claims[k] \in CpId /\ Place(cpb.rptr, Claims[k]) <= cpb.cnt
      BY <1>4, <1>7 DEF ClaimsOK
    <2>2. Place(cpb.rptr, Claims[k]) \in Int
      BY <1>3, <2>1, PlaceIs
    <2>3. \E i \in 0 .. cpb.cnt - 1 : Claims[k] = (cpb.rptr + i) % CpSize
      BY <1>3, <2>1, PlaceRing
    <2> QED
      BY <2>2, <2>3 DEF InRing
  <1>8. ASSUME NEW i \in 1 .. N, NEW j \in 1 .. N, Claims[i] # None, Claims[i] = Claims[j]
        PROVE  i = j
    <2>1. ~ (i < j) /\ ~ (j < i)
      BY <1>4, <1>7, <1>8 DEF ClaimsOK
    <2> QED
      BY <1>3, <2>1
  <1>9. ASSUME NEW k \in 1 .. L, RobCp(k) # None
        PROVE  cpb.buf[RobCp(k)].visible = {MapAfter(a, k) : a \in Arch}
    <2>1. cpb.buf[RobCp(k)].visible = Now(New, Dest, arf, k)
      BY <1>4, <1>5, <1>9 DEF KeptOK
    <2>2. k \in 0 .. Standing
      <3>1. Standing = Left
        BY DEF Standing
      <3> QED
        BY <1>1, <1>3, <3>1
    <2>3. \A a \in Arch : MapAfter(a, k) = Latest(New, Dest, arf, a, k)
      BY <2>2, MapAfterIs
    <2> QED
      BY <2>1, <2>3 DEF Now
  <1>10. ASSUME NEW j \in 1 .. L, NEW k \in 1 .. Len(fifo), RobCp(j) # None PROVE RobCp(j) # fifo[k].cp
    <2>1. j # L + k
      BY <1>3
    <2> QED
      BY <1>5, <1>6, <1>8, <1>10, <2>1
  <1>11. ASSUME NEW j \in 1 .. Len(fifo), NEW k \in 1 .. Len(fifo), j # k, fifo[j].cp # None
         PROVE  fifo[j].cp # fifo[k].cp
    <2>1. L + j # L + k
      BY <1>3, <1>11
    <2> QED
      BY <1>6, <1>8, <1>11, <2>1
  <1>12. ASSUME NEW j \in 1 .. L, NEW k \in 1 .. L, j # k, RobCp(j) # None PROVE RobCp(j) # RobCp(k)
    BY <1>5, <1>8, <1>12
  <1>13. /\ \A k \in 1 .. L : RobCp(k) # None => InRing(cpb, CpSize, RobCp(k))
         /\ \A k \in 1 .. Len(fifo) : fifo[k].cp # None => InRing(cpb, CpSize, fifo[k].cp)
    BY <1>5, <1>6, <1>7
  <1> QED
    BY <1>9, <1>10, <1>11, <1>12, <1>13 DEF L

-----------------------------------------------------------------------------
(* The state of the rename and commit stages is well typed: no index leaves *)
(* the ring of the ROB or of the checkpoint buffer, no queue holds a        *)
(* request of another kind.                                                 *)
THEOREM RenameTypeCorrect == Spec => []TypeOK
  <1>1. RenameInv => TypeOK
    BY DEF RenameInv
  <1> QED
    BY <1>1, Invariance, PTL

(* No assert of rat.h, of rename.cpp on its mappings or of commit.cpp on    *)
(* the checkpoint it restores fails in any execution.                       *)
THEOREM AssertionsNeverFail == Spec => []AssertionsHold
  <1>1. RenameInv => AssertionsHold
    BY DEF RenameInv, AssertionsHold
  <1> QED
    BY <1>1, Invariance, PTL

(* Precise state: at the start of every pass, also in a walk back, each     *)
(* architectural register has exactly one visible mapping, that of its      *)
(* newest writer in program order (rat.h set_map, restore, restore_map;     *)
(* rename.cpp old_phy_reg_id).                                              *)
THEOREM MappingPrecise == Spec => []MappingExact
  <1>1. RenameInv => MappingExact
    BY MappingHolds
  <1> QED
    BY <1>1, Invariance, PTL

(* No physical register is leaked or owned twice by commit's release_map,   *)
(* restore and walk back.                                                   *)
THEOREM NoLeak == Spec => []NoRegisterLeak
  <1>1. RenameInv => NoRegisterLeak
    BY LeakHolds
  <1> QED
    BY <1>1, Invariance, PTL

(* The integrity check of main.cpp holds at every cycle: one committed      *)
(* register for each architectural one, with a valid value.                 *)
THEOREM CommittedPrecise == Spec => []CommittedExact
  <1>1. RenameInv => CommittedExact
    BY CommittedHolds
  <1> QED
    BY <1>1, Invariance, PTL

(* A register is readable exactly when its writer has delivered a result:   *)
(* rename never hands out a register with the valid bit of an earlier       *)
(* owner (phy_regfile write_sync, restore).                                 *)
THEOREM ValidBitsPrecise == Spec => []ValidBitsExact
  <1>1. RenameInv => ValidBitsExact
    BY BitsHold
  <1> QED
    BY <1>1, Invariance, PTL

(* The checkpoint of every predicted branch in flight is its own, is still  *)
(* allocated and holds the mapping right after the branch, although older   *)
(* entries retire after it was taken (checkpoint_buffer, rename global_cp). *)
THEOREM CheckpointsPrecise == Spec => []CheckpointsExact
  <1>1. RenameInv => CheckpointsExact
    BY CheckpointsHold
  <1> QED
    BY <1>1, Invariance, PTL

(* A result of wb never reaches the entry of another instruction, although  *)
(* ROB ids are used again as soon as the ROB is flushed (rob.set_item).     *)
THEOREM ResultsMatch == Spec => []ResultsMatchEntries
  <1>1. RenameInv => ResultsMatchEntries
    BY ResultsHold
  <1> QED
    BY <1>1, Invariance, PTL
=============================================================================
